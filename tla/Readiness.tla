----------------------------- MODULE Readiness -----------------------------
(***************************************************************************)
(* GET /readyz of app/api/health.py: three probes run concurrently, each   *)
(* under a timeout of its own, and their verdicts make the answer. The     *)
(* database probe competes for the connection pool with the requests being *)
(* served and with other calls of /readyz. Dependencies go up and down     *)
(* meanwhile; an answer may also come too late from one that is up.        *)
(***************************************************************************)
EXTENDS Naturals, FiniteSets

CONSTANTS Calls,       \* calls of /readyz
          PoolLimit,   \* pool_size + max_overflow
          MaxFlips     \* bound: times a dependency goes up or down

ASSUME ReadinessAssumption == /\ IsFiniteSet(Calls)
                              /\ PoolLimit \in Nat \ {0}
                              /\ MaxFlips \in Nat

Deps == {"db", "redis", "milvus"}

VARIABLES initialized,   \* dependencies whose module holds an engine or client
          up,            \* dependencies that can be reached
          flips,         \* changes of up so far
          busy,          \* connections of the pool that requests hold
          probe,         \* where each call's probes are, in the end their verdict
          answer,        \* what each call answered, "none" before and during it
          reached,       \* ghost: dependencies up at some time during the call
          troubled       \* ghost: calls whose database probe had a reason to fail

world == <<initialized, up, flips, busy>>
ghost == <<reached, troubled>>
vars  == <<world, probe, answer, ghost>>

Stages  == {"idle", "queued", "asking", "leaving", "up", "down"}
Answers == {"none", "ready", "degraded", "not_ready"}

(* The probes that have checked a connection out of the pool. *)
Holding == {c \in Calls : probe[c]["db"] \in {"asking", "leaving"}}

Held == busy + Cardinality(Holding)

TypeOK == /\ initialized \subseteq Deps
          /\ up \subseteq Deps
          /\ flips \in 0..MaxFlips
          /\ busy \in 0..PoolLimit /\ Held <= PoolLimit
          /\ probe \in [Calls -> [Deps -> Stages]]
          /\ answer \in [Calls -> Answers]
          /\ reached \in [Calls -> SUBSET Deps]
          /\ troubled \subseteq Calls

(* Serving starts only on a database, the other two may be missing. *)
Init == /\ initialized \in {d \in SUBSET Deps : "db" \in d}
        /\ up \in SUBSET Deps
        /\ flips = 0
        /\ busy = 0
        /\ probe = [c \in Calls |-> [d \in Deps |-> "idle"]]
        /\ answer = [c \in Calls |-> "none"]
        /\ reached = [c \in Calls |-> {}]
        /\ troubled = {}

Running(c) == probe[c]["db"] # "idle" /\ answer[c] = "none"

To(c, d, stage) == probe' = [probe EXCEPT ![c][d] = stage]

(* gather() starts the three checks; a missing client is a verdict at once. *)
Readyz(c) ==
    /\ ~ Running(c)
    /\ probe' = [probe EXCEPT ![c] =
                    [d \in Deps |-> IF d \notin initialized THEN "down"
                                     ELSE IF d = "db" THEN "queued" ELSE "asking"]]
    /\ answer' = [answer EXCEPT ![c] = "none"]
    /\ reached' = [reached EXCEPT ![c] = up]
    /\ troubled' = IF "db" \in up THEN troubled \ {c} ELSE troubled \cup {c}
    /\ UNCHANGED world

(* engine.connect() of the database probe. *)
Connect(c) == /\ probe[c]["db"] = "queued"
              /\ "db" \in up
              /\ Held < PoolLimit
              /\ To(c, "db", "asking")
              /\ UNCHANGED <<world, answer, ghost>>

(* SELECT 1, PING or list_collections answers. *)
Answered(c, d) == /\ probe[c][d] = "asking"
                  /\ d \in up
                  /\ To(c, d, "up")
                  /\ UNCHANGED <<world, answer, ghost>>

(* It raises, or connecting does, with the dependency away or within reach: *)
(* whatever the exception, it becomes a verdict.                            *)
Raised(c, d) == /\ probe[c][d] \in {"queued", "asking"}
                /\ To(c, d, "down")
                /\ troubled' = IF d = "db" THEN troubled \cup {c} ELSE troubled
                /\ UNCHANGED <<world, answer, reached>>

(* Regression: wait_for() covers the query but not the wait for the pool. *)
TimeoutQueryOnly(c, d) ==
    /\ probe[c][d] = "asking"
    /\ To(c, d, IF d = "db" THEN "leaving" ELSE "down")
    /\ troubled' = IF d = "db" THEN troubled \cup {c} ELSE troubled
    /\ UNCHANGED <<world, answer, reached>>

(* wait_for() cancels the check. A database probe with a connection leaves  *)
(* "async with" and gives it back before the timeout is reported.           *)
Timeout(c, d) ==
    /\ probe[c][d] \in {"queued", "asking"}
    /\ To(c, d, IF d = "db" /\ probe[c][d] = "asking" THEN "leaving" ELSE "down")
    /\ troubled' = IF d = "db" THEN troubled \cup {c} ELSE troubled
    /\ UNCHANGED <<world, answer, reached>>

GiveBack(c) == /\ probe[c]["db"] = "leaving"
               /\ To(c, "db", "down")
               /\ UNCHANGED <<world, answer, ghost>>

(* Regression: every dependency that is not up takes the process down. *)
VerdictAllCore(p) == IF \A d \in Deps : p[d] = "up" THEN "ready" ELSE "not_ready"

(* Regression: the database's own status becomes the overall one. *)
VerdictOfDb(p) == IF p["db"] # "up" THEN p["db"]
                  ELSE IF \E d \in Deps : p[d] # "up" THEN "degraded"
                  ELSE "ready"

(* _readiness: the database first, then whether anything else is missing. *)
Verdict(p) == IF p["db"] # "up" THEN "not_ready"
              ELSE IF \E d \in Deps : p[d] # "up" THEN "degraded"
              ELSE "ready"

(* All three checks are back. *)
Respond(c) == /\ Running(c)
              /\ \A d \in Deps : probe[c][d] \in {"up", "down"}
              /\ answer' = [answer EXCEPT ![c] = Verdict(probe[c])]
              /\ UNCHANGED <<world, probe, ghost>>

(* Requests take connections out of the pool and put them back. *)
Borrow == /\ Held < PoolLimit
          /\ busy' = busy + 1
          /\ UNCHANGED <<initialized, up, flips, probe, answer, ghost>>

Return == /\ busy > 0
          /\ busy' = busy - 1
          /\ UNCHANGED <<initialized, up, flips, probe, answer, ghost>>

(* A dependency goes down or comes back. *)
Flip(d) ==
    /\ flips < MaxFlips
    /\ flips' = flips + 1
    /\ up' = IF d \in up THEN up \ {d} ELSE up \cup {d}
    /\ reached' = [c \in Calls |-> IF Running(c) THEN reached[c] \cup up' ELSE reached[c]]
    /\ troubled' = IF "db" \in up' THEN troubled ELSE troubled \cup {c \in Calls : Running(c)}
    /\ UNCHANGED <<initialized, busy, probe, answer>>

Bounded(c) == \/ \E d \in Deps : Timeout(c, d)
              \/ GiveBack(c) \/ Respond(c)

Next == \/ \E c \in Calls : \/ Readyz(c) \/ Connect(c) \/ Bounded(c)
                            \/ \E d \in Deps : Answered(c, d) \/ Raised(c, d)
        \/ Borrow \/ Return
        \/ \E d \in Deps : Flip(d)

Spec == Init /\ [][Next]_vars

(* Timeouts fire and a cancelled probe gets rid of its connection; nobody   *)
(* is obliged to answer a probe or to return a connection.                  *)
FairSpec == Spec /\ \A c \in Calls : WF_vars(Bounded(c))

(***************************************************************************)
(* Safety.                                                                 *)
(***************************************************************************)
(* However the verdicts of a call are spread over time: it answers 200 only *)
(* if the database could be reached during the call, "ready" only if all    *)
(* three could, and 503 only if the database was away, or its probe raised  *)
(* or did not connect and answer in time. Redis and Milvus, missing, raising*)
(* or late, never cost the 200.                                             *)
AnswerExplained ==
    \A c \in Calls :
        /\ answer[c] = "ready" => reached[c] = Deps
        /\ answer[c] = "degraded" => "db" \in reached[c]
        /\ answer[c] = "not_ready" => c \in troubled

(* Every call is answered, though the requests may hold the whole pool and  *)
(* a dependency may hang for ever.                                          *)
ReadyzEnds == \A c \in Calls : Running(c) ~> answer[c] # "none"
=============================================================================
