-------------------------- MODULE CacheAside_proofs --------------------------
(***************************************************************************)
(* Proofs about CacheAside, for any callers, any number of source updates  *)
(* and any set of null versions.                                           *)
(*                                                                         *)
(* The argument for NoneIsFresh: the source only grows, so what a call     *)
(* fetched is at least what the source held when it began; and a hit is    *)
(* never null, so a null answer was fetched. The argument for              *)
(* HitsAreExplained: an entry becomes stale by an update, which leaves the *)
(* writer before the answer to its delete, or by a fill that marks it. So  *)
(* it is at the moment Redis answers; what happens until the caller        *)
(* resumes does not change what it holds.                                  *)
(***************************************************************************)
EXTENDS CacheAside, TLAPS

(* What a call knows of the value it holds. *)
Holds(c) ==
    /\ started[c] <= source
    /\ pc[c] = "set" => got[c] >= started[c]
    /\ Returned(c) /\ outcome[c] = "filled" => got[c] >= started[c]
    /\ pc[c] = "hit" => got[c] \notin NullVersions
    /\ Returned(c) /\ outcome[c] = "hit" => got[c] \notin NullVersions

HoldsInv == \A c \in Callers : Holds(c)

(* The part of TypeOK the argument needs. *)
Typed == /\ source \in Versions
         /\ pc \in [Callers -> {"idle", "get", "hit", "fetch", "set"}]
         /\ started \in [Callers -> Versions]
         /\ got \in [Callers -> Versions]
         /\ outcome \in [Callers -> Outcomes]
         /\ store \subseteq Entries

FreshInv == Typed /\ HoldsInv

-----------------------------------------------------------------------------
LEMMA InitFresh == Init => FreshInv
<1> SUFFICES ASSUME Init PROVE FreshInv
  OBVIOUS
<1>1. 0 \in Versions  BY CacheAssumption DEF Versions
<1>2. Typed  BY <1>1 DEF Init, Typed, Outcomes
<1>3. ASSUME NEW c \in Callers PROVE Holds(c)
  BY DEF Init, Holds, Returned
<1>4. QED  BY <1>2, <1>3 DEF FreshInv, HoldsInv

(* The entry a caller stores is well formed. *)
LEMMA EntryType ==
  ASSUME Typed, NEW c \in Callers
  PROVE  Entry(c) \in Entries
BY DEF Typed, Entry, Entries

LEMMA TypedStep == Typed /\ late \subseteq Entries /\ [Next]_vars => Typed'
<1> SUFFICES ASSUME Typed, late \subseteq Entries, [Next]_vars PROVE Typed'
  OBVIOUS
<1> USE DEF Typed, Outcomes, caller
<1>0. 0 \in Versions  BY CacheAssumption DEF Versions
<1>1. ASSUME NEW c \in Callers, Call(c) PROVE Typed'
  BY <1>0, <1>1 DEF Call, Raise, End
<1>2. ASSUME NEW c \in Callers, Answer(c) PROVE Typed'
  BY <1>2 DEF Answer, Goto, Entries
<1>2a. ASSUME NEW c \in Callers, Get(c) PROVE Typed'
  BY <1>0, <1>2a DEF Get, Return, Raise, End
<1>3. ASSUME NEW c \in Callers, Fetch(c) PROVE Typed'
  BY <1>0, <1>3 DEF Fetch, Goto, Raise, End
<1>4. ASSUME NEW c \in Callers, Set(c) PROVE Typed'
  BY <1>0, <1>4, EntryType DEF Set, Return, Raise, End, Stored
<1>5. CASE Write
  BY <1>5, CacheAssumption DEF Write, Versions
<1>6. CASE CacheDelete \/ Deleted \/ CloseRedis \/ Expire
  BY <1>6 DEF CacheDelete, Deleted, CloseRedis, Expire
<1>7. CASE SetLate \/ LoseLate
  BY <1>7 DEF SetLate, LoseLate, Stored
<1>8. CASE UNCHANGED vars
  BY <1>8 DEF vars
<1>9. QED
  BY <1>1, <1>2, <1>2a, <1>3, <1>4, <1>5, <1>6, <1>7, <1>8 DEF Next, Proceed

(* Delayed commands carry entries some caller built. *)
LEMMA LateStep == Typed /\ late \subseteq Entries /\ [Next]_vars => (late \subseteq Entries)'
<1> SUFFICES ASSUME Typed, late \subseteq Entries, [Next]_vars
             PROVE  late' \subseteq Entries
  OBVIOUS
<1>1. ASSUME NEW c \in Callers, Set(c) PROVE late' \subseteq Entries
  BY <1>1, EntryType DEF Set
<1>2. ASSUME NEW c \in Callers, Call(c) \/ Answer(c) \/ Get(c) \/ Fetch(c)
      PROVE  late' \subseteq Entries
  BY <1>2 DEF Call, Answer, Get, Fetch
<1>3. CASE Write \/ CacheDelete \/ Deleted \/ CloseRedis \/ Expire \/ SetLate \/ LoseLate
  BY <1>3 DEF Write, CacheDelete, Deleted, CloseRedis, Expire, SetLate, LoseLate
<1>4. CASE UNCHANGED vars
  BY <1>4 DEF vars
<1>5. QED  BY <1>1, <1>2, <1>3, <1>4 DEF Next, Proceed

(* A step of call d keeps what every call c knows of its value. *)
LEMMA HoldsStep == FreshInv /\ [Next]_vars => HoldsInv'
<1> SUFFICES ASSUME FreshInv, [Next]_vars, NEW c \in Callers PROVE Holds(c)'
  BY DEF HoldsInv
<1> USE DEF Typed, Returned
<1>0. Holds(c) /\ Typed  BY DEF FreshInv, HoldsInv
<1>1. ASSUME NEW d \in Callers, Call(d) PROVE Holds(c)'
  BY <1>0, <1>1, CacheAssumption DEF Holds, Call, Raise, End, Versions
<1>2. ASSUME NEW d \in Callers, Answer(d) PROVE Holds(c)'
  BY <1>0, <1>2, CacheAssumption DEF Holds, Answer, Goto, Hit, Versions
<1>2a. ASSUME NEW d \in Callers, Get(d) PROVE Holds(c)'
  BY <1>0, <1>2a, CacheAssumption DEF Holds, Get, Return, Raise, End, Versions
<1>3. ASSUME NEW d \in Callers, Fetch(d) PROVE Holds(c)'
  BY <1>0, <1>3, CacheAssumption DEF Holds, Fetch, Goto, Raise, End, Versions
<1>4. ASSUME NEW d \in Callers, Set(d) PROVE Holds(c)'
  BY <1>0, <1>4, CacheAssumption DEF Holds, Set, Return, Raise, End, Versions
<1>5. CASE Write
  BY <1>0, <1>5 DEF Holds, Write, caller, Versions
<1>6. CASE CacheDelete \/ Deleted \/ CloseRedis \/ Expire \/ SetLate \/ LoseLate
  BY <1>0, <1>6 DEF Holds, CacheDelete, Deleted, CloseRedis, Expire, SetLate, LoseLate, caller
<1>7. CASE UNCHANGED vars
  BY <1>0, <1>7 DEF Holds, vars, caller
<1>8. QED
  BY <1>1, <1>2, <1>2a, <1>3, <1>4, <1>5, <1>6, <1>7 DEF Next, Proceed

LEMMA FreshInvariance == Spec => [](FreshInv /\ late \subseteq Entries)
<1>1. Init => FreshInv /\ late \subseteq Entries
  BY InitFresh DEF Init
<1>2. FreshInv /\ late \subseteq Entries /\ [Next]_vars
      => (FreshInv /\ late \subseteq Entries)'
  BY TypedStep, LateStep, HoldsStep DEF FreshInv
<1>3. QED  BY <1>1, <1>2, PTL DEF Spec

-----------------------------------------------------------------------------
(* The part of TypeOK that is about the entry and the flags. One key holds  *)
(* at most one entry: a SET replaces it, whoever stored it before.          *)
Flags == /\ connected \in {"yes", "no"}
         /\ \A e, f \in store : e = f
         /\ window \in [Callers -> {"yes", "no"}]
         /\ writer \in {"idle", "invalidate", "delete"}
         /\ excuse \in {"yes", "no"}

LEMMA FlagsStep == Flags /\ [Next]_vars => Flags'
<1> SUFFICES ASSUME Flags, [Next]_vars PROVE Flags'
  OBVIOUS
<1> USE DEF Flags, caller
<1>1. ASSUME NEW c \in Callers, Call(c) \/ Answer(c) \/ Get(c) \/ Fetch(c) PROVE Flags'
  <2>1. UNCHANGED <<store, writer, excuse, connected>>
    BY <1>1 DEF Call, Answer, Get, Fetch
  <2>2. window' \in [Callers -> {"yes", "no"}]
    BY <1>1 DEF Call, Answer, Get, Fetch, Goto, Return, Raise
  <2>3. QED  BY <2>1, <2>2
<1>2. ASSUME NEW c \in Callers, Set(c) PROVE Flags'
  BY <1>2 DEF Set, Stored, Return, Raise
<1>3. CASE Write \/ CacheDelete \/ Deleted \/ CloseRedis \/ Expire
  BY <1>3 DEF Write, CacheDelete, Deleted, CloseRedis, Expire
<1>4. CASE SetLate \/ LoseLate
  BY <1>4 DEF SetLate, LoseLate, Stored
<1>5. CASE UNCHANGED vars
  BY <1>5 DEF vars
<1>6. QED  BY <1>1, <1>2, <1>3, <1>4, <1>5 DEF Next, Proceed

(* The module is type correct: in particular Redis never holds two entries  *)
(* of the key, whatever SETs, deletes and delayed SETs cross each other.    *)
THEOREM TypeCorrect == Spec => []TypeOK
<1>1. Init => Flags
  BY DEF Init, Flags
<1>2. Flags /\ FreshInv /\ late \subseteq Entries => TypeOK
  BY DEF Flags, FreshInv, Typed, TypeOK
<1>3. QED  BY <1>1, <1>2, FlagsStep, FreshInvariance, PTL DEF Spec

-----------------------------------------------------------------------------
(* None is never answered out of the cache. *)
THEOREM NoneFresh == Spec => []NoneIsFresh
<1>1. FreshInv => NoneIsFresh
  BY DEF FreshInv, HoldsInv, Holds, NoneIsFresh, Returned
<1>2. QED  BY FreshInvariance, <1>1, PTL

(* After an acknowledged cache_delete the entry is the current value or     *)
(* absent, unless a fill of an older value landed after the update or a     *)
(* delete failed.                                                           *)
StaleOnlyByRace ==
    \A e \in store : e.version < source => writer # "idle" \/ excuse = "yes"

(* A stale entry is explained by a pending or failed delete or a slow fill. *)
LEMMA StaleExplained == Spec => []StaleOnlyByRace
<1>1. Init => StaleOnlyByRace
  BY DEF Init, StaleOnlyByRace
<1>2. StaleOnlyByRace /\ [Next]_vars => StaleOnlyByRace'
  <2> SUFFICES ASSUME StaleOnlyByRace, [Next]_vars PROVE StaleOnlyByRace'
    OBVIOUS
  <2>1. ASSUME NEW c \in Callers, Call(c) \/ Answer(c) \/ Get(c) \/ Fetch(c)
        PROVE  StaleOnlyByRace'
    BY <2>1 DEF StaleOnlyByRace, Call, Answer, Get, Fetch
  <2>2. ASSUME NEW c \in Callers, Set(c) PROVE StaleOnlyByRace'
    BY <2>2 DEF StaleOnlyByRace, Set, Stored
  <2>3. CASE Write
    BY <2>3 DEF StaleOnlyByRace, Write
  <2>4. CASE CacheDelete \/ Deleted \/ CloseRedis \/ Expire
    BY <2>4 DEF StaleOnlyByRace, CacheDelete, Deleted, CloseRedis, Expire
  <2>5. CASE SetLate \/ LoseLate
    BY <2>5 DEF StaleOnlyByRace, SetLate, LoseLate, Stored
  <2>6. CASE UNCHANGED vars
    BY <2>6 DEF StaleOnlyByRace, vars
  <2>7. QED  BY <2>1, <2>2, <2>3, <2>4, <2>5, <2>6 DEF Next, Proceed
<1>3. QED  BY <1>1, <1>2, PTL DEF Spec

-----------------------------------------------------------------------------
(***************************************************************************)
(* What the entry being stale, or not, means for the callers.              *)
(***************************************************************************)
(* Nothing in Redis, on its way there or in a caller's hands is newer than  *)
(* the source: versions are only ever copied from it.                       *)
PastInv == /\ \A e \in store \cup late : e.version <= source
           /\ \A c \in Callers : got[c] <= source

(* The entry gets its excuse in one of three ways only: a delete failed, a  *)
(* call that began before an update stored what it had fetched, or Redis    *)
(* carried out a SET that got no answer, after an update.                   *)
ExcusesAreRaces ==
    [][excuse = "no" /\ excuse' = "yes"
       => \/ writer # "idle" /\ writer' = "idle" /\ store' = store
          \/ \E c \in Callers : /\ pc[c] = "set" /\ outcome'[c] = "filled"
                                /\ started[c] < source
          \/ \E e \in late \ late' : e.version < source /\ store' = {e}]_vars

(* A value that was not a hit is one the source had during the call.        *)
FillsAreCurrent ==
    \A c \in Callers : Returned(c) /\ outcome[c] = "filled"
                       => started[c] <= got[c] /\ got[c] <= source

Past == FreshInv /\ late \subseteq Entries /\ PastInv

LEMMA PastStep == Past /\ [Next]_vars => PastInv'
<1> SUFFICES ASSUME Past, [Next]_vars PROVE PastInv'
  OBVIOUS
<1>0. /\ source \in Nat
      /\ \A e \in store \cup late : e.version \in Nat /\ e.version <= source
      /\ got \in [Callers -> Nat]
      /\ \A c \in Callers : got[c] <= source
  BY CacheAssumption DEF Past, PastInv, FreshInv, Typed, Entries, Versions
<1>1. ASSUME NEW c \in Callers, Call(c) \/ Answer(c) \/ Get(c) \/ Fetch(c) PROVE PastInv'
  <2>1. UNCHANGED <<source, store, late>>
    BY <1>1 DEF Call, Answer, Get, Fetch
  <2>2. ASSUME NEW d \in Callers PROVE got'[d] <= source
    BY <1>0, <1>1 DEF Call, Answer, Get, Fetch, Raise, Return
  <2>3. QED
    BY <1>0, <2>1, <2>2 DEF PastInv
<1>2. ASSUME NEW c \in Callers, Set(c) PROVE PastInv'
  <2>1. Entry(c).version <= source
    BY <1>0 DEF Entry
  <2>2. store' \subseteq store \cup {Entry(c)} /\ late' \subseteq late \cup {Entry(c)}
    BY <1>2 DEF Set, Stored
  <2>3. \A d \in Callers : got'[d] = got[d] \/ got'[d] = 0
    BY <1>0, <1>2 DEF Set, Raise, Return
  <2>4. source' = source
    BY <1>2 DEF Set
  <2>5. QED
    BY <1>0, <2>1, <2>2, <2>3, <2>4 DEF PastInv
<1>3. CASE Write
  BY <1>0, <1>3 DEF Write, caller, PastInv
<1>4. CASE CacheDelete \/ Deleted \/ CloseRedis \/ Expire \/ SetLate \/ LoseLate
  BY <1>0, <1>4 DEF CacheDelete, Deleted, CloseRedis, Expire, SetLate, LoseLate, Stored,
     caller, PastInv
<1>5. CASE UNCHANGED vars
  BY <1>0, <1>5 DEF vars, caller, PastInv
<1>6. QED
  BY <1>1, <1>2, <1>3, <1>4, <1>5 DEF Next, Proceed

LEMMA PastInvariance == Spec => []Past
<1>1. Init => PastInv
  BY DEF Init, PastInv
<1>2. QED
  BY <1>1, PastStep, FreshInvariance, PTL DEF Spec, Past

(* What a caller with a hit, in hand or returned, can say of it.            *)
AnswerInv ==
    \A c \in Callers :
        pc[c] = "hit" \/ (Returned(c) /\ outcome[c] = "hit")
        => got[c] >= started[c] \/ window[c] = "yes"

(* Redis answers with the entry as it then is. *)
LEMMA AnswerOfEntry ==
  ASSUME Past, Flags, StaleOnlyByRace, NEW c \in Callers, Answer(c), pc'[c] = "hit"
  PROVE  got'[c] >= started[c] \/ window'[c] = "yes"
<1>0. /\ pc \in [Callers -> {"idle", "get", "hit", "fetch", "set"}]
      /\ got \in [Callers -> Versions]
      /\ window \in [Callers -> {"yes", "no"}]
  BY DEF Past, FreshInv, Typed, Flags
<1>1. PICK e \in store : /\ got' = [got EXCEPT ![c] = e.version]
                         /\ window' = [window EXCEPT ![c] =
                              IF writer # "idle" \/ excuse = "yes" THEN "yes" ELSE "no"]
  BY <1>0 DEF Answer, Goto
<1>2. got'[c] = e.version
  BY <1>0, <1>1
<1>3. CASE writer # "idle" \/ excuse = "yes"
  BY <1>0, <1>1, <1>3
<1>4. CASE writer = "idle" /\ excuse # "yes"
  <2>1. ~ (e.version < source)
    BY <1>4 DEF StaleOnlyByRace
  <2>2. /\ e.version \in Nat /\ source \in Nat /\ started[c] \in Nat
        /\ started[c] <= source
    BY CacheAssumption DEF Past, FreshInv, Typed, HoldsInv, Holds, Entries, Versions
  <2>3. QED
    BY <1>2, <2>1, <2>2
<1>5. QED
  BY <1>3, <1>4

LEMMA AnswerStep ==
  Past /\ Flags /\ StaleOnlyByRace /\ AnswerInv /\ [Next]_vars => AnswerInv'
<1> SUFFICES ASSUME Past, Flags, StaleOnlyByRace, AnswerInv, [Next]_vars,
                    NEW c \in Callers,
                    pc'[c] = "hit" \/ (pc'[c] = "idle" /\ outcome'[c] = "hit")
             PROVE  got'[c] >= started'[c] \/ window'[c] = "yes"
  BY DEF AnswerInv, Returned
<1>0. /\ pc \in [Callers -> {"idle", "get", "hit", "fetch", "set"}]
      /\ got \in [Callers -> Versions] /\ started \in [Callers -> Versions]
      /\ outcome \in [Callers -> Outcomes]
      /\ window \in [Callers -> {"yes", "no"}]
      /\ pc[c] = "hit" \/ (pc[c] = "idle" /\ outcome[c] = "hit")
         => got[c] >= started[c] \/ window[c] = "yes"
  BY DEF Past, FreshInv, Typed, Flags, AnswerInv, Returned
<1>1. ASSUME NEW d \in Callers, Call(d) \/ Get(d) \/ Fetch(d) \/ Set(d)
      PROVE  got'[c] >= started'[c] \/ window'[c] = "yes"
  BY <1>0, <1>1 DEF Call, Get, Fetch, Set, Goto, Return, Raise, End
<1>2. ASSUME NEW d \in Callers, Answer(d) PROVE got'[c] >= started'[c] \/ window'[c] = "yes"
  <2>1. CASE d = c
    <3>1. pc[c] = "get" /\ started' = started /\ outcome' = outcome
      BY <1>2, <2>1 DEF Answer, Goto
    <3>2. pc'[c] = "hit" \/ pc'[c] = "fetch"
      BY <1>0, <1>2, <2>1 DEF Answer, Goto
    <3>3. QED
      BY <1>2, <2>1, <3>1, <3>2, AnswerOfEntry
  <2>2. CASE d # c
    BY <1>0, <1>2, <2>2 DEF Answer, Goto
  <2>3. QED
    BY <2>1, <2>2
<1>3. CASE Write \/ CacheDelete \/ Deleted \/ CloseRedis \/ Expire \/ SetLate \/ LoseLate
  BY <1>0, <1>3 DEF Write, CacheDelete, Deleted, CloseRedis, Expire, SetLate, LoseLate, caller
<1>4. CASE UNCHANGED vars
  BY <1>0, <1>4 DEF vars, caller
<1>5. QED
  BY <1>1, <1>2, <1>3, <1>4 DEF Next, Proceed

(* A hit is a value the source had during the call, unless the entry could  *)
(* be stale when Redis answered.                                            *)
THEOREM HitsExplained == Spec => []HitsAreExplained
<1>1. Init => AnswerInv /\ Flags
  BY DEF Init, AnswerInv, Returned, Flags
<1>2. Past /\ AnswerInv => HitsAreExplained
  BY DEF Past, PastInv, AnswerInv, HitsAreExplained, HitExplained
<1>3. QED
  BY <1>1, <1>2, AnswerStep, FlagsStep, PastInvariance, StaleExplained, PTL DEF Spec

(* The ghost means what it says.                                            *)
THEOREM ExcusesExplained == Spec => ExcusesAreRaces
<1>1. ASSUME Past, [Next]_vars, excuse = "no", excuse' = "yes"
      PROVE  \/ writer # "idle" /\ writer' = "idle" /\ store' = store
             \/ \E c \in Callers : /\ pc[c] = "set" /\ outcome'[c] = "filled"
                                   /\ started[c] < source
             \/ \E e \in late \ late' : e.version < source /\ store' = {e}
  <2>1. ASSUME NEW c \in Callers, Set(c)
        PROVE  pc[c] = "set" /\ outcome'[c] = "filled" /\ started[c] < source
    <3>1. /\ pc[c] = "set" /\ Return(c, "filled")
          /\ Entry(c).version < source
      BY <1>1, <2>1 DEF Set, Stored
    <3>2. got[c] < source /\ started[c] <= got[c]
      BY <1>1, <3>1 DEF Entry, Past, FreshInv, HoldsInv, Holds
    <3>3. source \in Nat /\ got[c] \in Nat /\ started[c] \in Nat
      BY <1>1, CacheAssumption DEF Past, FreshInv, Typed, Versions
    <3>4. outcome'[c] = "filled"
      BY <1>1, <3>1 DEF Return, End, Past, FreshInv, Typed
    <3>5. QED
      BY <3>1, <3>2, <3>3, <3>4
  <2>2. CASE CacheDelete \/ Deleted
    BY <1>1, <2>2 DEF CacheDelete, Deleted
  <2>3. CASE SetLate
    BY <1>1, <2>3 DEF SetLate, Stored
  <2>4. CASE Write \/ CloseRedis \/ Expire \/ LoseLate \/ UNCHANGED vars
    BY <1>1, <2>4 DEF Write, CloseRedis, Expire, LoseLate, vars
  <2>5. ASSUME NEW c \in Callers, Call(c) \/ Answer(c) \/ Get(c) \/ Fetch(c) PROVE FALSE
    BY <1>1, <2>5 DEF Call, Answer, Get, Fetch
  <2>6. QED
    BY <1>1, <2>1, <2>2, <2>3, <2>4, <2>5 DEF Next, Proceed
<1>2. QED
  BY <1>1, PastInvariance, PTL DEF Spec, ExcusesAreRaces

(* A filled answer is never older than the call.                            *)
THEOREM FillsCurrent == Spec => []FillsAreCurrent
<1>1. Past => FillsAreCurrent
  BY DEF Past, PastInv, FreshInv, HoldsInv, Holds, FillsAreCurrent
<1>2. QED
  BY <1>1, PastInvariance, PTL
=============================================================================
