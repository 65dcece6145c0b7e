----------------------------- MODULE CacheAside -----------------------------
(***************************************************************************)
(* get_or_set() and cache_delete() of app/utils/cache.py on one cache key. *)
(*                                                                         *)
(* Callers run get_or_set() concurrently on one event loop: a step of the  *)
(* code ends at an await (the Redis GET, the factory, the Redis SET). That *)
(* Redis answers a GET and that the caller resumes with the answer are two *)
(* steps, with anything in between. A writer changes the value in the      *)
(* source behind the factory and then invalidates the key. close_redis()   *)
(* may come at any time. A Redis command may fail at any time; one that    *)
(* got no answer may still be carried out later. The value is represented  *)
(* by the number of source updates it has seen; some versions are null     *)
(* (the factory returned None, which json.dumps stores as "null").         *)
(***************************************************************************)
EXTENDS Naturals, FiniteSets

CONSTANTS Callers,        \* coroutines that call get_or_set
          TtlCallers,     \* those that pass a ttl
          MaxWrites,      \* bound: updates of the source
          NullVersions,   \* versions whose value is None
          MaxLate         \* bound: unanswered SETs in flight at once

ASSUME CacheAssumption == /\ TtlCallers \subseteq Callers
                          /\ MaxWrites \in Nat
                          /\ NullVersions \subseteq 0..MaxWrites
                          /\ MaxLate \in Nat

VARIABLES connected,   \* "yes" while the module has a client: get_redis() returns it
          source,      \* version the source holds
          store,       \* the key's entry in Redis: {} or one entry
          late,        \* SETs that got no answer and may still be carried out
          pc,          \* where each caller is
          started,     \* ghost: source version when its call began
          got,         \* the version the caller holds
          outcome,     \* how its latest call ended
          window,      \* ghost: "yes" if the entry could be stale when Redis answered
          writer,      \* "invalidate" after the update, "delete" during the DEL
          excuse       \* ghost: "yes" if the entry may be stale

caller == <<pc, started, got, outcome, window>>
vars   == <<connected, source, store, late, caller, writer, excuse>>

Versions == 0..MaxWrites
Entries  == [version : Versions, by : Callers, ttl : {"some", "none"}]
Outcomes == {"none", "hit", "filled", "biz", "runtime", "crash", "source_error"}

TypeOK == /\ connected \in {"yes", "no"}
          /\ source \in Versions
          /\ store \subseteq Entries
          /\ \A e, f \in store : e = f
          /\ late \subseteq Entries
          /\ pc \in [Callers -> {"idle", "get", "hit", "fetch", "set"}]
          /\ started \in [Callers -> Versions]
          /\ got \in [Callers -> Versions]
          /\ outcome \in [Callers -> Outcomes]
          /\ window \in [Callers -> {"yes", "no"}]
          /\ writer \in {"idle", "invalidate", "delete"}
          /\ excuse \in {"yes", "no"}

Init == /\ connected \in {"yes", "no"}
        /\ source = 0
        /\ store = {}
        /\ late = {}
        /\ pc = [c \in Callers |-> "idle"]
        /\ started = [c \in Callers |-> 0]
        /\ got = [c \in Callers |-> 0]
        /\ outcome = [c \in Callers |-> "none"]
        /\ window = [c \in Callers |-> "no"]
        /\ writer = "idle"
        /\ excuse = "no"

Goto(c, where) == /\ pc' = [pc EXCEPT ![c] = where]
                  /\ UNCHANGED <<started, outcome, window>>

End(c, how) == /\ pc' = [pc EXCEPT ![c] = "idle"]
               /\ outcome' = [outcome EXCEPT ![c] = how]

Return(c, how) == End(c, how) /\ UNCHANGED <<started, got, window>>

(* The call's locals are gone with the exception. *)
Raise(c, how) == /\ End(c, how)
                 /\ started' = [started EXCEPT ![c] = 0]
                 /\ got' = [got EXCEPT ![c] = 0]
                 /\ window' = [window EXCEPT ![c] = "no"]

(* Regression: ex=ttl is not passed on. *)
EntryWithoutTtl(c) == [version |-> got[c], by |-> c, ttl |-> "none"]

Entry(c) == [version |-> got[c],
             by      |-> c,
             ttl     |-> IF c \in TtlCallers THEN "some" ELSE "none"]

(* Regression: callers with different ttls no longer share the key. *)
StoredBeside(e) == /\ store' = store \cup {e}
                   /\ excuse' = IF e.version < source THEN "yes" ELSE "no"

(* The entry that results from a SET of e, stale from the start or not. *)
Stored(e) == /\ store' = {e}
             /\ excuse' = IF e.version < source THEN "yes" ELSE "no"

(***************************************************************************)
(* get_or_set.                                                             *)
(***************************************************************************)
(* get_redis() is called outside the try of cache_get: without a client its *)
(* RuntimeError leaves get_or_set before the factory is asked.              *)
Call(c) == /\ pc[c] = "idle"
           /\ IF connected = "no"
              THEN Raise(c, "runtime")
              ELSE /\ pc' = [pc EXCEPT ![c] = "get"]
                   /\ started' = [started EXCEPT ![c] = source]
                   /\ got' = [got EXCEPT ![c] = 0]
                   /\ outcome' = [outcome EXCEPT ![c] = "none"]
                   /\ window' = [window EXCEPT ![c] = "no"]
           /\ UNCHANGED <<connected, source, store, late, writer, excuse>>

(* Regression: a stored "null" counts as a hit. *)
AnyHit(e) == TRUE

(* A hit is an entry whose decoded value is not None. *)
Hit(e) == e.version \notin NullVersions

(* Redis carries out the GET: what it answers is fixed from here on.        *)
Answer(c) ==
    /\ pc[c] = "get"
    /\ \/ /\ \E e \in store : Hit(e) /\ got' = [got EXCEPT ![c] = e.version]
          /\ pc' = [pc EXCEPT ![c] = "hit"]
          /\ window' = [window EXCEPT ![c] =
                           IF writer # "idle" \/ excuse = "yes" THEN "yes" ELSE "no"]
          /\ UNCHANGED <<started, outcome>>
       \/ /\ \A e \in store : ~ Hit(e)
          /\ Goto(c, "fetch")
          /\ UNCHANGED got
    /\ UNCHANGED <<connected, source, store, late, writer, excuse>>

(* The caller resumes, with the value or with an exception: a RedisError,   *)
(* an OSError or bad JSON is converted, an undecodable byte is not.         *)
Get(c) ==
    /\ \/ pc[c] = "hit" /\ Return(c, "hit")
       \/ pc[c] \in {"get", "hit"} /\ (Raise(c, "biz") \/ Raise(c, "crash"))
    /\ UNCHANGED <<connected, source, store, late, writer, excuse>>

(* The factory reads the source, or raises. With its value in hand the call *)
(* enters cache_set, which asks get_redis() again and encodes the value.    *)
Fetch(c) ==
    /\ pc[c] = "fetch"
    /\ \/ connected = "yes" /\ Goto(c, "set") /\ got' = [got EXCEPT ![c] = source]
       \/ connected = "no" /\ Raise(c, "runtime")
       \/ connected = "yes" /\ Raise(c, "biz")         \* not JSON serialisable
       \/ Raise(c, "source_error")
    /\ UNCHANGED <<connected, source, store, late, writer, excuse>>

(* Regression: the value is read back through the cache after the SET. *)
SetThenReread(c) ==
    /\ pc[c] = "set"
    /\ Goto(c, "get")
    /\ Stored(Entry(c))
    /\ UNCHANGED <<connected, source, late, got, writer>>

(* The value is returned only if it could be stored: a failing SET raises   *)
(* instead.                                                                 *)
Set(c) ==
    /\ pc[c] = "set"
    /\ \/ Return(c, "filled") /\ Stored(Entry(c)) /\ UNCHANGED late
       \/ Raise(c, "biz") /\ UNCHANGED <<store, excuse, late>>
       \/ /\ Raise(c, "biz")
          /\ Cardinality(late) < MaxLate
          /\ late' = late \cup {Entry(c)}
          /\ UNCHANGED <<store, excuse>>
    /\ UNCHANGED <<connected, source, writer>>

(***************************************************************************)
(* A writer: an update of the source, then cache_delete.                   *)
(***************************************************************************)
Write == /\ writer = "idle"
         /\ source < MaxWrites
         /\ source' = source + 1
         /\ writer' = "invalidate"
         /\ UNCHANGED <<connected, store, late, caller, excuse>>

(* get_redis(), which raises without a client, then the command is sent.    *)
CacheDelete ==
    /\ writer = "invalidate"
    /\ IF connected = "yes"
       THEN writer' = "delete" /\ UNCHANGED excuse
       ELSE writer' = "idle" /\ excuse' = "yes"
    /\ UNCHANGED <<connected, source, store, late, caller>>

(* Regression: the delete command is not awaited, and never sent. *)
CacheDeleteUnawaited == /\ writer = "delete"
                        /\ writer' = "idle"
                        /\ UNCHANGED <<connected, source, store, late, caller, excuse>>

(* The await of the DEL: carried out, or a BizException.                    *)
Deleted ==
    /\ writer = "delete"
    /\ writer' = "idle"
    /\ \/ store' = {} /\ excuse' = "no"
       \/ excuse' = "yes" /\ UNCHANGED store
    /\ UNCHANGED <<connected, source, late, caller>>

(* close_redis() at the end of the lifespan. While its aclose() runs, and   *)
(* after it, a command under way may fail like any other.                   *)
CloseRedis == /\ connected = "yes"
              /\ connected' = "no"
              /\ UNCHANGED <<source, store, late, caller, writer, excuse>>

(***************************************************************************)
(* Redis: TTLs run out, delayed commands are carried out or lost.          *)
(***************************************************************************)
Expire == /\ \E e \in store : e.ttl = "some"
          /\ store' = {}
          /\ excuse' = "no"
          /\ UNCHANGED <<connected, source, late, caller, writer>>

SetLate == \E e \in late : /\ late' = late \ {e}
                           /\ Stored(e)
                           /\ UNCHANGED <<connected, source, caller, writer>>

LoseLate == \E e \in late : /\ late' = late \ {e}
                            /\ UNCHANGED <<connected, source, store, caller, writer, excuse>>

Proceed(c) == Answer(c) \/ Get(c) \/ Fetch(c) \/ Set(c)

Next == \/ \E c \in Callers : Call(c) \/ Proceed(c)
        \/ Write \/ CacheDelete \/ Deleted \/ CloseRedis
        \/ Expire \/ SetLate \/ LoseLate

Spec == Init /\ [][Next]_vars

(* Redis and the factory answer or fail: assumed of them, since the code    *)
(* sets no timeout on either. TTLs run out, and delayed commands do not     *)
(* stay in flight for ever.                                                 *)
FairSpec == /\ Spec
            /\ \A c \in Callers : WF_vars(Proceed(c))
            /\ WF_vars(Expire)
            /\ WF_vars(SetLate \/ LoseLate)

(***************************************************************************)
(* Safety.                                                                 *)
(***************************************************************************)
Returned(c) == pc[c] = "idle" /\ outcome[c] \in {"hit", "filled"}

(* None is never answered out of the cache: a call that returns None got it *)
(* from the source during the call, however old the "null" in Redis is.     *)
NoneIsFresh ==
    \A c \in Callers : Returned(c) /\ got[c] \in NullVersions => got[c] >= started[c]

(* What cache_delete buys a reader: a hit is never a value the source did   *)
(* not have, and it is one it had since the call began, unless the entry    *)
(* could be stale when Redis answered: an update was waiting for the answer *)
(* to its delete, a delete had failed, or a fill of an older value had      *)
(* landed after the update. How long the caller then takes to resume, and   *)
(* what is written and deleted meanwhile, makes no difference.              *)
HitExplained(c) == /\ got[c] <= source
                   /\ got[c] >= started[c] \/ window[c] = "yes"

HitsAreExplained ==
    \A c \in Callers : Returned(c) /\ outcome[c] = "hit" => HitExplained(c)

(* Once the source no longer changes, what callers with a ttl stored ends   *)
(* up current.                                                              *)
EventuallyCoherent ==
    <>[](\A e \in store : e.by \in TtlCallers => e.version = source)

(* Every call comes back to its caller. *)
CallsEnd == \A c \in Callers : pc[c] # "idle" ~> pc[c] = "idle"

(***************************************************************************)
(* What the code's documentation says, which the code does not do.         *)
(***************************************************************************)
(* health.py:73-74: without Redis the application still serves correctly,   *)
(* the cache is merely bypassed. So a call fails only if its source does.   *)
RedisDownStillServes ==
    \A c \in Callers : outcome[c] \notin {"biz", "runtime", "crash"}
=============================================================================
