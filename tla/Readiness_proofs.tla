-------------------------- MODULE Readiness_proofs --------------------------
(***************************************************************************)
(* Proof that /readyz answers what its probes saw. AnswerExplained is not  *)
(* inductive: Respond knows only verdicts. Explained adds what a verdict   *)
(* stands for, that the ghosts of a running call cover the present, and    *)
(* that a probe asks only once it could reach what it asks.                *)
(*                                                                         *)
(* Type correctness holds the bound on the pool: it needs that an answered *)
(* call holds no connection, so that the next call of it adds none.        *)
(***************************************************************************)
EXTENDS Readiness, FiniteSetTheorems, TLAPS

Shape == /\ initialized \subseteq Deps
         /\ up \subseteq Deps
         /\ probe \in [Calls -> [Deps -> Stages]]
         /\ answer \in [Calls -> Answers]
         /\ reached \in [Calls -> SUBSET Deps]
         /\ troubled \subseteq Calls

(* A dependency that is up now counts as reached, a database that is down   *)
(* now as a reason to fail; so does every verdict that was given.           *)
UpReached(c)  == Running(c) => up \subseteq reached[c]
DownTrouble(c) == Running(c) /\ "db" \notin up => c \in troubled
VerdictReached(c) ==
    Running(c) => \A d \in Deps : probe[c][d] = "up" => d \in reached[c]
VerdictTrouble(c) ==
    Running(c) /\ probe[c]["db"] \in {"leaving", "down"} => c \in troubled

Explained(c) == /\ UpReached(c)
                /\ DownTrouble(c)
                /\ VerdictReached(c)
                /\ VerdictTrouble(c)
                /\ answer[c] = "ready" => reached[c] = Deps
                /\ answer[c] = "degraded" => "db" \in reached[c]
                /\ answer[c] = "not_ready" => c \in troubled

DbKnown == "db" \in initialized

Inv == Shape /\ DbKnown /\ \A c \in Calls : Explained(c)

LEMMA Initially == Init => Inv
BY DEF Init, Inv, Shape, DbKnown, Explained, UpReached, DownTrouble, VerdictReached,
       VerdictTrouble, Running, Stages, Answers, Deps

(* What a step of one probe may change: its own stage, and troubled upwards. *)
LEMMA ProbeStep ==
    ASSUME Inv, NEW c \in Calls, NEW d \in Deps, NEW stage \in Stages \ {"idle"},
           probe[c][d] # "idle",
           probe' = [probe EXCEPT ![c][d] = stage],
           UNCHANGED <<initialized, up, answer, reached>>,
           troubled' \in {troubled, troubled \cup {c}},
           Running(c) /\ stage = "up" => d \in reached[c],
           Running(c) /\ d = "db" /\ stage \in {"leaving", "down"} => c \in troubled'
    PROVE  Inv'
<1>1. Shape'
  BY DEF Inv, Shape, Stages
<1>2. DbKnown'
  BY DEF Inv, DbKnown
<1>3. ASSUME NEW e \in Calls PROVE Explained(e)'
  <2>1. Explained(e)
    BY DEF Inv
  <2>2. e # c => probe'[e] = probe[e]
    BY DEF Inv, Shape
  <2>3. probe'[c] = [probe[c] EXCEPT ![d] = stage]
    BY DEF Inv, Shape
  <2>4. \A f \in Deps : probe'[c][f] = IF f = d THEN stage ELSE probe[c][f]
    BY <2>3 DEF Inv, Shape
  <2>5. Running(e)' <=> Running(e)
    BY <2>2, <2>4 DEF Running, Deps, Inv, Shape, Stages
  <2>6. (e \in troubled => e \in troubled') /\ (e \in troubled' /\ e # c => e \in troubled)
    OBVIOUS
  <2>7. UpReached(e)' /\ DownTrouble(e)'
    BY <2>1, <2>5, <2>6 DEF Explained, UpReached, DownTrouble
  <2>8. VerdictReached(e)'
    BY <2>1, <2>2, <2>4, <2>5 DEF Explained, VerdictReached
  <2>9. VerdictTrouble(e)'
    BY <2>1, <2>2, <2>4, <2>5, <2>6 DEF Explained, VerdictTrouble, Deps
  <2>10. QED
    BY <2>1, <2>6, <2>7, <2>8, <2>9 DEF Explained
<1>4. QED
  BY <1>1, <1>2, <1>3 DEF Inv

LEMMA StepReadyz == ASSUME Inv, NEW c \in Calls, Readyz(c) PROVE Inv'
<1> DEFINE first == [d \in Deps |-> IF d \notin initialized THEN "down"
                                     ELSE IF d = "db" THEN "queued" ELSE "asking"]
<1>1. first \in [Deps -> Stages] /\ first["db"] = "queued" /\ \A d \in Deps : first[d] # "up"
  BY DEF Inv, DbKnown, Stages, Deps
<1>2. probe' = [probe EXCEPT ![c] = first]
  BY DEF Readyz
<1> HIDE DEF first
<1>3. Shape' /\ DbKnown'
  BY <1>1, <1>2 DEF Inv, Shape, DbKnown, Readyz, world, Answers
<1>4. ASSUME NEW e \in Calls PROVE Explained(e)'
  <2>1. CASE e = c
    <3>1. probe'[e] = first /\ answer'[e] = "none" /\ reached'[e] = up /\ up' = up
      BY <2>1, <1>2 DEF Inv, Shape, Readyz, world
    <3>2. "db" \notin up => e \in troubled'
      BY <2>1 DEF Readyz
    <3>3. QED
      BY <3>1, <3>2, <1>1 DEF Explained, UpReached, DownTrouble, VerdictReached, VerdictTrouble
  <2>2. CASE e # c
    <3>1. /\ probe'[e] = probe[e] /\ answer'[e] = answer[e] /\ reached'[e] = reached[e]
          /\ up' = up /\ (e \in troubled' <=> e \in troubled)
      BY <2>2, <1>2 DEF Inv, Shape, Readyz, world
    <3>2. QED
      BY <3>1 DEF Inv, Explained, UpReached, DownTrouble, VerdictReached, VerdictTrouble, Running
  <2>3. QED
    BY <2>1, <2>2
<1>5. QED
  BY <1>3, <1>4 DEF Inv

LEMMA StepConnect == ASSUME Inv, NEW c \in Calls, Connect(c) PROVE Inv'
BY ProbeStep DEF Connect, To, world, ghost, Deps, Stages

LEMMA StepAnswered ==
    ASSUME Inv, NEW c \in Calls, NEW d \in Deps, Answered(c, d) PROVE Inv'
<1>1. Running(c) => d \in reached[c]
  BY DEF Inv, Explained, UpReached, Answered
<1>2. QED
  BY <1>1, ProbeStep DEF Answered, To, world, ghost, Stages

LEMMA StepRaised ==
    ASSUME Inv, NEW c \in Calls, NEW d \in Deps, Raised(c, d) PROVE Inv'
BY ProbeStep DEF Raised, To, world, Stages

LEMMA StepTimeout ==
    ASSUME Inv, NEW c \in Calls, NEW d \in Deps, Timeout(c, d) PROVE Inv'
<1>1. PICK stage \in {"leaving", "down"} : probe' = [probe EXCEPT ![c][d] = stage]
  BY DEF Timeout, To
<1>2. QED
  BY <1>1, ProbeStep DEF Timeout, world, Stages

LEMMA StepGiveBack == ASSUME Inv, NEW c \in Calls, GiveBack(c) PROVE Inv'
<1>1. Running(c) => c \in troubled
  BY DEF Inv, Explained, VerdictTrouble, GiveBack
<1>2. QED
  BY <1>1, ProbeStep DEF GiveBack, To, world, ghost, Deps, Stages

LEMMA StepRespond == ASSUME Inv, NEW c \in Calls, Respond(c) PROVE Inv'
<1>1. Verdict(probe[c]) \in Answers
  BY DEF Verdict, Answers
<1>2. Shape' /\ DbKnown'
  BY <1>1 DEF Inv, Shape, DbKnown, Respond, world, ghost
<1>3. ASSUME NEW e \in Calls PROVE Explained(e)'
  <2>1. Explained(e)
    BY DEF Inv
  <2>2. CASE e = c
    <3>1. answer'[c] = Verdict(probe[c]) /\ answer'[c] # "none"
      BY DEF Inv, Shape, Respond, Verdict
    <3>2. Verdict(probe[c]) = "ready" => reached[c] = Deps
      <4>1. Verdict(probe[c]) = "ready" => \A d \in Deps : probe[c][d] = "up"
        BY DEF Verdict
      <4>2. reached[c] \subseteq Deps
        BY DEF Inv, Shape
      <4>3. \A d \in Deps : probe[c][d] = "up" => d \in reached[c]
        BY <2>1, <2>2 DEF Explained, VerdictReached, Respond
      <4>4. QED
        BY <4>1, <4>2, <4>3
    <3>3. Verdict(probe[c]) = "degraded" => "db" \in reached[c]
      BY <2>1, <2>2 DEF Explained, VerdictReached, Respond, Verdict, Deps
    <3>4. Verdict(probe[c]) = "not_ready" => c \in troubled
      BY <2>1, <2>2 DEF Explained, VerdictTrouble, Respond, Verdict, Deps
    <3>5. QED
      BY <2>2, <3>1, <3>2, <3>3, <3>4
      DEF Explained, UpReached, DownTrouble, VerdictReached, VerdictTrouble, Running,
          Respond, world, ghost
  <2>3. CASE e # c
    BY <2>1, <2>3 DEF Inv, Shape, Respond, world, ghost, Explained, UpReached, DownTrouble,
                      VerdictReached, VerdictTrouble, Running
  <2>4. QED
    BY <2>2, <2>3
<1>4. QED
  BY <1>2, <1>3 DEF Inv

LEMMA StepFlip == ASSUME Inv, NEW d \in Deps, Flip(d) PROVE Inv'
<1>1. up' \subseteq Deps
  BY DEF Inv, Shape, Flip
<1>2. Shape' /\ DbKnown'
  BY <1>1 DEF Inv, Shape, DbKnown, Flip
<1>3. ASSUME NEW e \in Calls PROVE Explained(e)'
  <2>1. Explained(e)
    BY DEF Inv
  <2>2. Running(e)' <=> Running(e)
    BY DEF Running, Flip
  <2>3. reached'[e] = IF Running(e) THEN reached[e] \cup up' ELSE reached[e]
    BY DEF Flip
  <2>4. (e \in troubled => e \in troubled') /\ (Running(e) /\ "db" \notin up' => e \in troubled')
    BY DEF Flip
  <2>5. UpReached(e)' /\ DownTrouble(e)'
    BY <2>2, <2>3, <2>4 DEF UpReached, DownTrouble
  <2>6. VerdictReached(e)' /\ VerdictTrouble(e)'
    BY <2>1, <2>2, <2>3, <2>4 DEF Explained, VerdictReached, VerdictTrouble, Flip
  <2>7. answer'[e] = answer[e] /\ reached[e] \subseteq reached'[e] /\ reached'[e] \subseteq Deps
    BY <1>2, <2>3 DEF Flip, Shape
  <2>8. QED
    BY <2>1, <2>4, <2>5, <2>6, <2>7 DEF Explained
<1>4. QED
  BY <1>2, <1>3 DEF Inv

LEMMA Inductive == Inv /\ [Next]_vars => Inv'
<1> SUFFICES ASSUME Inv, [Next]_vars PROVE Inv'
  OBVIOUS
<1>1. CASE Borrow \/ Return \/ UNCHANGED vars
  BY <1>1 DEF Borrow, Return, vars, world, ghost, Inv, Shape, DbKnown, Explained, UpReached,
              DownTrouble, VerdictReached, VerdictTrouble, Running
<1>2. CASE \E c \in Calls : Readyz(c)
  BY <1>2, StepReadyz
<1>3. CASE \E c \in Calls : Connect(c)
  BY <1>3, StepConnect
<1>4. CASE \E c \in Calls : Bounded(c)
  BY <1>4, StepTimeout, StepGiveBack, StepRespond DEF Bounded
<1>5. CASE \E c \in Calls, d \in Deps : Answered(c, d) \/ Raised(c, d)
  BY <1>5, StepAnswered, StepRaised
<1>6. CASE \E d \in Deps : Flip(d)
  BY <1>6, StepFlip
<1>7. QED
  BY <1>1, <1>2, <1>3, <1>4, <1>5, <1>6 DEF Next

(* /readyz never answers 200 without the database having been reachable     *)
(* during the call, nor 503 without a reason that concerns the database.    *)
THEOREM Readyz200And503 == Spec => []AnswerExplained
<1>1. Inv => AnswerExplained
  BY DEF Inv, Explained, AnswerExplained
<1>2. QED
  BY <1>1, Initially, Inductive, PTL DEF Spec

-----------------------------------------------------------------------------
(* An answered call has the verdict of its database probe. *)
Settled(c) == answer[c] # "none" => probe[c]["db"] \in {"up", "down"}

PoolInv == /\ flips \in 0..MaxFlips
           /\ busy \in 0..PoolLimit
           /\ Held <= PoolLimit
           /\ \A c \in Calls : Settled(c)

LEMMA HoldingFinite == IsFiniteSet(Holding) /\ Cardinality(Holding) \in Nat
<1>1. Holding \subseteq Calls
  BY DEF Holding
<1>2. QED
  BY <1>1, ReadinessAssumption, FS_Subset, FS_CardinalityType

LEMMA HoldingFiniteAfter == IsFiniteSet(Holding') /\ Cardinality(Holding') \in Nat
<1>1. Holding' \subseteq Calls
  BY DEF Holding
<1>2. QED
  BY <1>1, ReadinessAssumption, FS_Subset, FS_CardinalityType

(* A step that makes no call a holder keeps within the pool. *)
LEMMA NoNewHolder ==
    ASSUME PoolInv, Holding' \subseteq Holding, busy' = busy PROVE Held' <= PoolLimit
<1>1. Cardinality(Holding') <= Cardinality(Holding)
  BY HoldingFinite, FS_Subset
<1>2. Held' = busy' + Cardinality(Holding') /\ Held = busy + Cardinality(Holding)
  BY DEF Held
<1>3. busy \in Nat /\ PoolLimit \in Nat
  BY ReadinessAssumption DEF PoolInv
<1>4. QED
  BY <1>1, <1>2, <1>3, HoldingFinite, HoldingFiniteAfter DEF PoolInv

(* A step of one probe that is under way and does not take a connection. *)
LEMMA PoolProbeStep ==
    ASSUME Shape, PoolInv, NEW c \in Calls, NEW d \in Deps, NEW stage \in Stages,
           stage # "asking", probe[c][d] \in {"queued", "asking", "leaving"},
           d = "db" /\ stage = "leaving" => probe[c][d] \in {"asking", "leaving"},
           probe' = [probe EXCEPT ![c][d] = stage],
           UNCHANGED <<flips, busy, answer>>
    PROVE  PoolInv'
<1>1. \A e \in Calls, f \in Deps :
          probe'[e][f] = IF e = c /\ f = d THEN stage ELSE probe[e][f]
  BY DEF Shape
<1>2. Holding' \subseteq Holding
  BY <1>1 DEF Holding, Deps
<1>3. Held' <= PoolLimit
  BY <1>2, NoNewHolder
<1>4. ASSUME NEW e \in Calls PROVE Settled(e)'
  <2>1. Settled(e)
    BY DEF PoolInv
  <2>2. QED
    BY <1>1, <2>1 DEF Settled, Deps
<1>5. QED
  BY <1>3, <1>4 DEF PoolInv

LEMMA PoolConnect == ASSUME Shape, PoolInv, NEW c \in Calls, Connect(c) PROVE PoolInv'
<1>1. /\ probe[c]["db"] = "queued"
      /\ Held < PoolLimit
      /\ UNCHANGED <<flips, busy, answer>>
  BY DEF Connect, world
<1>2. \A e \in Calls : probe'[e]["db"] = IF e = c THEN "asking" ELSE probe[e]["db"]
  BY DEF Connect, To, Shape, Deps
<1>3. c \notin Holding /\ Holding' = Holding \cup {c}
  BY <1>1, <1>2 DEF Holding
<1>4. Cardinality(Holding') = Cardinality(Holding) + 1
  BY <1>3, HoldingFinite, FS_AddElement
<1>5. Held' = busy' + Cardinality(Holding') /\ Held = busy + Cardinality(Holding)
  BY DEF Held
<1>6. busy \in Nat /\ PoolLimit \in Nat
  BY ReadinessAssumption DEF PoolInv
<1>7. Held' <= PoolLimit
  BY <1>1, <1>4, <1>5, <1>6, HoldingFinite
<1>8. \A e \in Calls : Settled(e)'
  BY <1>1, <1>2 DEF PoolInv, Settled
<1>9. QED
  BY <1>1, <1>7, <1>8 DEF PoolInv

LEMMA PoolReadyz == ASSUME Inv, PoolInv, NEW c \in Calls, Readyz(c) PROVE PoolInv'
<1>1. /\ answer' = [answer EXCEPT ![c] = "none"]
      /\ UNCHANGED <<flips, busy>>
  BY DEF Readyz, world
<1>2. \A e \in Calls : probe'[e]["db"] = IF e = c THEN "queued" ELSE probe[e]["db"]
  BY DEF Readyz, Inv, Shape, DbKnown, Deps
<1>3. c \notin Holding
  BY DEF Readyz, Running, PoolInv, Settled, Holding
<1>4. Holding' \subseteq Holding
  BY <1>2, <1>3 DEF Holding
<1>5. Held' <= PoolLimit
  BY <1>1, <1>4, NoNewHolder
<1>6. \A e \in Calls : Settled(e)'
  BY <1>1, <1>2 DEF Inv, Shape, PoolInv, Settled
<1>7. QED
  BY <1>1, <1>5, <1>6 DEF PoolInv

LEMMA PoolRespond == ASSUME Shape, PoolInv, NEW c \in Calls, Respond(c) PROVE PoolInv'
<1>1. UNCHANGED <<flips, busy, probe>>
  BY DEF Respond, world
<1>2. Held' <= PoolLimit
  BY <1>1 DEF PoolInv, Held, Holding
<1>3. \A e \in Calls : Settled(e)'
  BY <1>1 DEF Shape, PoolInv, Settled, Respond, Deps
<1>4. QED
  BY <1>1, <1>2, <1>3 DEF PoolInv

LEMMA PoolBorrow == ASSUME PoolInv, Borrow \/ Return PROVE PoolInv'
<1>1. UNCHANGED <<flips, probe, answer>>
  BY DEF Borrow, Return
<1>2. Cardinality(Holding') = Cardinality(Holding)
  BY <1>1 DEF Holding
<1>3. Held' = busy' + Cardinality(Holding') /\ Held = busy + Cardinality(Holding)
  BY DEF Held
<1>4. busy \in Nat /\ PoolLimit \in Nat
  BY ReadinessAssumption DEF PoolInv
<1>5. busy' \in 0..PoolLimit /\ Held' <= PoolLimit
  BY <1>2, <1>3, <1>4, HoldingFinite DEF PoolInv, Borrow, Return
<1>6. QED
  BY <1>1, <1>5 DEF PoolInv, Settled

LEMMA PoolInductive == Inv /\ PoolInv /\ [Next]_vars => PoolInv'
<1> SUFFICES ASSUME Inv, PoolInv, [Next]_vars PROVE PoolInv'
  OBVIOUS
<1>1. Shape
  BY DEF Inv
<1>2. ASSUME NEW c \in Calls, NEW d \in Deps, Answered(c, d) \/ Raised(c, d) PROVE PoolInv'
  BY <1>1, <1>2, PoolProbeStep DEF Answered, Raised, To, world, Stages
<1>3. ASSUME NEW c \in Calls, NEW d \in Deps, Timeout(c, d) PROVE PoolInv'
  <2>1. PICK stage \in {"leaving", "down"} :
            /\ probe' = [probe EXCEPT ![c][d] = stage]
            /\ stage = "leaving" => probe[c][d] = "asking"
    BY <1>3 DEF Timeout, To
  <2>2. QED
    BY <1>1, <1>3, <2>1, PoolProbeStep DEF Timeout, world, Stages
<1>4. ASSUME NEW c \in Calls, GiveBack(c) PROVE PoolInv'
  BY <1>1, <1>4, PoolProbeStep DEF GiveBack, To, world, Stages, Deps
<1>5. ASSUME NEW d \in Deps, Flip(d) PROVE PoolInv'
  <2>1. flips' \in 0..MaxFlips
    BY <1>5, ReadinessAssumption DEF Flip, PoolInv
  <2>2. QED
    BY <1>5, <2>1 DEF Flip, PoolInv, Held, Holding, Settled
<1>6. CASE UNCHANGED vars
  BY <1>6 DEF vars, world, PoolInv, Held, Holding, Settled
<1>7. QED
  BY <1>1, <1>2, <1>3, <1>4, <1>5, <1>6, PoolConnect, PoolReadyz, PoolRespond, PoolBorrow
  DEF Next, Bounded

LEMMA PoolInitially == Init => PoolInv
<1> SUFFICES ASSUME Init PROVE PoolInv
  OBVIOUS
<1>1. Holding = {}
  BY DEF Init, Holding, Deps
<1>2. Held = 0
  BY <1>1, FS_EmptySet DEF Init, Held
<1>3. QED
  BY <1>2, ReadinessAssumption DEF Init, PoolInv, Settled

(* The module is type correct. The hard part is the pool: requests and the  *)
(* probes of any number of concurrent /readyz calls never hold more         *)
(* connections than it has, timeouts and cancelled probes included.         *)
THEOREM TypeCorrect == Spec => []TypeOK
<1>1. Inv /\ PoolInv => TypeOK
  BY DEF Inv, Shape, PoolInv, TypeOK
<1>2. QED
  BY <1>1, Initially, Inductive, PoolInitially, PoolInductive, PTL DEF Spec
=============================================================================
