----------------------------- MODULE McpClient -----------------------------
(***************************************************************************)
(* McpClient.execute (app/mcp/client.py): a protocol operation runs in a   *)
(* session of its own, inside one of max_concurrency slots of a semaphore. *)
(* Callers are tasks of one event loop: a step runs from one await to the  *)
(* next, and a caller may be cancelled at any of them. anyio.Semaphore and *)
(* the remote server are external, modelled from how execute() uses them.  *)
(***************************************************************************)
EXTENDS SequencesExt

CONSTANTS Callers,         \* tasks that call the client, again and again
          MaxConcurrency   \* settings.max_concurrency

ASSUME McpAssumption == /\ IsFiniteSet(Callers)
                        /\ MaxConcurrency \in Nat \ {0}

VARIABLES value,         \* free slots of the semaphore
          waiters,       \* its waiting callers, first come first
          pc,            \* where each caller is in execute()
          initialized,   \* callers whose session finished its handshake
          result,        \* what their operation came to, then the errno seen
          sends,         \* times this call's operation was put on the wire
          executed       \* of them, those the server carried out

slots == <<value, waiters>>
vars  == <<slots, pc, initialized, result, sends, executed>>

InSession == {"connecting", "operating", "closing"}
Errnos    == {"CONNECT_FAILED", "CALL_FAILED"}

Places    == {"idle", "waiting", "granted"} \cup InSession
Results   == {"none", "ok", "error", "cancelled"} \cup Errnos

TypeOK ==
    /\ value \in 0..MaxConcurrency
    /\ waiters \in Seq(Callers)
    /\ pc \in [Callers -> Places]
    /\ initialized \subseteq Callers
    /\ result \in [Callers -> Results]
    /\ sends \in [Callers -> 0..1]
    /\ executed \in [Callers -> 0..1]

Init == /\ value = MaxConcurrency
        /\ waiters = <<>>
        /\ pc = [c \in Callers |-> "idle"]
        /\ initialized = {}
        /\ result = [c \in Callers |-> "none"]
        /\ sends = [c \in Callers |-> 0]
        /\ executed = [c \in Callers |-> 0]

Goto(c, where) == pc' = [pc EXCEPT ![c] = where]

(* A released slot goes to the first waiter, or back to the free ones. *)
Release(c, end) ==
    IF waiters = <<>>
    THEN value' = value + 1 /\ Goto(c, end) /\ UNCHANGED waiters
    ELSE /\ waiters' = Tail(waiters)
         /\ pc' = [pc EXCEPT ![c] = end, ![Head(waiters)] = "granted"]
         /\ UNCHANGED value

(* A new call: take a free slot or queue for one. *)
Call(c) ==
    /\ pc[c] = "idle"
    /\ initialized' = initialized \ {c}
    /\ result' = [result EXCEPT ![c] = "none"]
    /\ sends' = [sends EXCEPT ![c] = 0]
    /\ executed' = [executed EXCEPT ![c] = 0]
    /\ IF value > 0
       THEN value' = value - 1 /\ Goto(c, "connecting") /\ UNCHANGED waiters
       ELSE /\ waiters' = Append(waiters, c)
            /\ Goto(c, "waiting")
            /\ UNCHANGED value

(* The task of a granted waiter runs again and opens its session. *)
Resume(c) == /\ pc[c] = "granted"
             /\ Goto(c, "connecting")
             /\ UNCHANGED <<slots, initialized, result, sends, executed>>

(* The handshake succeeds and the operation begins. *)
Initialize(c) == /\ pc[c] = "connecting"
                 /\ initialized' = initialized \cup {c}
                 /\ Goto(c, "operating")
                 /\ UNCHANGED <<slots, result, sends, executed>>

(* The session's writer puts the operation on the wire: a task of its own,  *)
(* which may do so while the caller is already leaving, or, if the          *)
(* arguments cannot be serialised or the stream is broken, never.           *)
Send(c) == /\ pc[c] \in {"operating", "closing"}
           /\ c \in initialized
           /\ sends[c] = 0
           /\ sends' = [sends EXCEPT ![c] = 1]
           /\ UNCHANGED <<slots, pc, initialized, result, executed>>

(* Connecting or the handshake fails or times out: the contexts entered so *)
(* far are left with the exception.                                        *)
ConnectFails(c) == /\ pc[c] = "connecting"
                   /\ result' = [result EXCEPT ![c] = "error"]
                   /\ Goto(c, "closing")
                   /\ UNCHANGED <<slots, initialized, sends, executed>>

(* The server carries the operation out, perhaps after its caller gave up. *)
ServerExecutes(c) == /\ executed[c] < sends[c]
                     /\ executed' = [executed EXCEPT ![c] = @ + 1]
                     /\ UNCHANGED <<slots, pc, initialized, result, sends>>

Answer(c) == /\ pc[c] = "operating"
             /\ executed[c] = 1
             /\ result' = [result EXCEPT ![c] = "ok"]
             /\ Goto(c, "closing")
             /\ UNCHANGED <<slots, initialized, sends, executed>>

(* Regression: a failed operation is sent once more in the same session. *)
OperationRetried(c) == /\ pc[c] = "operating"
                       /\ sends' = [sends EXCEPT ![c] = @ + 1]
                       /\ UNCHANGED <<slots, pc, initialized, result, executed>>

(* The operation raises, on the wire or not, or its answer does not come   *)
(* within call_timeout.                                                    *)
OperationFails(c) == /\ pc[c] = "operating"
                     /\ result' = [result EXCEPT ![c] = "error"]
                     /\ Goto(c, "closing")
                     /\ UNCHANGED <<slots, initialized, sends, executed>>

(* Regression: every failure inside open_session() is a failed connection. *)
ClassifyAsConnect(c, r) == IF r = "error" THEN "CONNECT_FAILED" ELSE r

(* The two except clauses: a BizException of open_session() passes through. *)
Classify(c, r) ==
    CASE r # "error"                      -> r
      [] r = "error" /\ c \in initialized -> "CALL_FAILED"
      [] OTHER                            -> "CONNECT_FAILED"

(* Regression: the slot is given back only when the call succeeded. *)
LeaveOnSuccess(c, r) ==
    /\ pc[c] = "closing"
    /\ result' = [result EXCEPT ![c] = Classify(c, r)]
    /\ IF r = "ok" THEN Release(c, "idle") ELSE Goto(c, "idle") /\ UNCHANGED slots
    /\ UNCHANGED <<initialized, sends, executed>>

(* Leave open_session() with r, then the semaphore, then execute(). *)
Leave(c, r) == /\ pc[c] = "closing"
               /\ result' = [result EXCEPT ![c] = Classify(c, r)]
               /\ Release(c, "idle")
               /\ UNCHANGED <<initialized, sends, executed>>

Closed(c) == Leave(c, result[c])

(* Closing the session raises: that exception replaces a result, an error   *)
(* or a cancellation.                                                       *)
CloseFails(c) == Leave(c, "error")

(* Regression: a cancelled waiter forgets the slot it was granted. *)
CancelQueuedOnly(c) ==
    /\ pc[c] \in {"waiting", "granted"}
    /\ result' = [result EXCEPT ![c] = "cancelled"]
    /\ waiters' = Remove(waiters, c)
    /\ Goto(c, "idle")
    /\ UNCHANGED <<value, initialized, sends, executed>>

(* Cancelled while queuing: leave the queue, or pass on a slot that was     *)
(* granted but not yet taken.                                               *)
CancelQueued(c) ==
    /\ result' = [result EXCEPT ![c] = "cancelled"]
    /\ \/ /\ pc[c] = "waiting"
          /\ \E i \in DOMAIN waiters :
                waiters[i] = c /\ waiters' = RemoveAt(waiters, i)
          /\ Goto(c, "idle")
          /\ UNCHANGED value
       \/ pc[c] = "granted" /\ Release(c, "idle")
    /\ UNCHANGED <<initialized, sends, executed>>

(* Cancelled inside the session: its contexts are left all the same. *)
CancelSession(c) ==
    /\ pc[c] \in InSession
    /\ result' = [result EXCEPT ![c] = "cancelled"]
    /\ Goto(c, "closing")
    /\ UNCHANGED <<slots, initialized, sends, executed>>

(* What the loop and the timeouts see to. *)
Progress(c) == \/ Resume(c) \/ Initialize(c) \/ Send(c) \/ ConnectFails(c)
               \/ Answer(c) \/ OperationFails(c) \/ Closed(c) \/ CloseFails(c)

Next == \E c \in Callers : \/ Call(c) \/ Progress(c) \/ ServerExecutes(c)
                           \/ CancelQueued(c) \/ CancelSession(c)

Spec == Init /\ [][Next]_vars

(* A granted task is scheduled, and every await of a session is bounded by  *)
(* connect_timeout or call_timeout. Nobody is obliged to call or to cancel. *)
FairSpec == Spec /\ \A c \in Callers : WF_vars(Progress(c))

(***************************************************************************)
(* Safety.                                                                 *)
(***************************************************************************)
Holders == {c \in Callers : pc[c] \in {"granted"} \cup InSession}

(* Through every error, teardown failure and cancellation no slot is lost   *)
(* and none is given out twice: at most max_concurrency sessions are open,  *)
(* and nobody queues while a slot is free.                                  *)
SlotsConserved == /\ value + Cardinality(Holders) = MaxConcurrency
                  /\ waiters # <<>> => value = 0

(* The errno tells the caller what a repeat would risk: CONNECT_FAILED says *)
(* the server was never asked; after CALL_FAILED or a cancellation it was   *)
(* asked once at most, and may still do it; a result says it ran once.      *)
ErrnoTellsEffect ==
    \A c \in Callers :
        /\ result[c] = "CONNECT_FAILED" => sends[c] = 0 /\ executed[c] = 0
        /\ result[c] = "ok" => executed[c] = 1
        /\ executed[c] <= sends[c] /\ sends[c] <= 1

(* The refinement: to its caller execute() is a call that asks the server   *)
(* at most once. CALL_FAILED and a cancellation leave open what it did.     *)
Outcome(r) == CASE r = "CONNECT_FAILED" -> "refused"
                [] r = "ok"             -> "answered"
                [] r = "none"           -> "nothing"
                [] OTHER                -> "unknown"

Server == INSTANCE ServerCall WITH
             Calls   <- Callers,
             Limit   <- [c \in Callers |-> 1],
             running <- {c \in Callers : pc[c] # "idle"},
             asked   <- sends,
             served  <- executed,
             told    <- [c \in Callers |-> IF pc[c] = "idle" THEN Outcome(result[c])
                                           ELSE "nothing"]

ImplementsServerCall == Server!Spec

(* A call that was made comes back, whatever those it queues behind run     *)
(* into: nobody is starved of a slot.                                       *)
CallsEnd == \A c \in Callers : pc[c] # "idle" ~> pc[c] = "idle"
=============================================================================
