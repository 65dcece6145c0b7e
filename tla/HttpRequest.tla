---------------------------- MODULE HttpRequest ----------------------------
(***************************************************************************)
(* Outbound HTTP: the retry loop of request() and the singleton behind it  *)
(* (app/utils/http_client.py). Coroutines run request() concurrently on    *)
(* one event loop, so a step here runs from one await to the next: from    *)
(* get_client() or the end of a backoff sleep to the await of              *)
(* client.request, and from its answer to the return, the raise or the     *)
(* next sleep. close_client() may run at any of these awaits.              *)
(***************************************************************************)
EXTENDS Naturals

CONSTANTS Requests,      \* calls of request()
          Idempotent,    \* those whose method is in _IDEMPOTENT_METHODS
          MaxRetries,    \* _DEFAULT_MAX_RETRIES
          MaxClients     \* bound: AsyncClients built by the process

ASSUME HttpAssumption == /\ Idempotent \subseteq Requests
                         /\ MaxRetries \in Nat
                         /\ MaxClients \in Nat \ {0}

VARIABLES pc,         \* where each call is
          attempt,    \* its local counter
          bound,      \* the client it captured before the loop
          sends,      \* attempts handed to httpx, on the wire or not
          executed,   \* times the server carried the request out
          slept,      \* total backoff, in _DEFAULT_RETRY_BACKOFF_FACTOR
          result,     \* how the call ended
          client,     \* _client: the number of an AsyncClient, 0 for None
          built,      \* AsyncClients built so far
          closed,     \* AsyncClients that refuse further requests
          closing     \* the AsyncClient whose aclose() is awaited, 0 for none

local == <<pc, attempt, bound, sends, executed, slept, result>>
pool  == <<client, built, closed, closing>>
vars  == <<local, pool>>

Clients  == 1..MaxClients
Results  == {"none", "response", "gave_up", "refused", "closed", "escaped"}

TypeOK == /\ pc \in [Requests -> {"idle", "in_flight", "backoff", "done"}]
          /\ attempt \in [Requests -> 0..MaxRetries]
          /\ bound \in [Requests -> 0..MaxClients]
          /\ sends \in [Requests -> 0..(MaxRetries + 1)]
          /\ executed \in [Requests -> 0..(MaxRetries + 1)]
          /\ slept \in [Requests -> Nat]
          /\ result \in [Requests -> Results]
          /\ client \in 0..MaxClients
          /\ built \in 0..MaxClients
          /\ closed \subseteq Clients
          /\ closing \in 0..MaxClients

Init == /\ pc = [r \in Requests |-> "idle"]
        /\ attempt = [r \in Requests |-> 0]
        /\ bound = [r \in Requests |-> 0]
        /\ sends = [r \in Requests |-> 0]
        /\ executed = [r \in Requests |-> 0]
        /\ slept = [r \in Requests |-> 0]
        /\ result = [r \in Requests |-> "none"]
        /\ client = 0
        /\ built = 0
        /\ closed = {}
        /\ closing = 0

Finish(r, how) == /\ pc' = [pc EXCEPT ![r] = "done"]
                  /\ result' = [result EXCEPT ![r] = how]

(* client.request on a closed AsyncClient raises a RuntimeError, which is   *)
(* no TransportError and leaves request() as it is.                         *)
Send(r, c) ==
    IF c \in closed
    THEN Finish(r, "closed") /\ UNCHANGED sends
    ELSE /\ pc' = [pc EXCEPT ![r] = "in_flight"]
         /\ sends' = [sends EXCEPT ![r] = @ + 1]
         /\ UNCHANGED result

(* get_client() builds the singleton when there is none. *)
Start(r) ==
    /\ pc[r] = "idle"
    /\ IF client = 0
       THEN /\ built < MaxClients
            /\ built' = built + 1
            /\ client' = built + 1
       ELSE UNCHANGED <<built, client>>
    /\ bound' = [bound EXCEPT ![r] = client']
    /\ Send(r, client')
    /\ UNCHANGED <<attempt, executed, slept, closed, closing>>

(* 2 ** n, which the wait before a retry is a multiple of. *)
Pow2[n \in Nat] == IF n = 0 THEN 1 ELSE 2 * Pow2[n - 1]

(* Regressions of the guard: one attempt too many, one too few, no method.  *)
MayRetryOnceMore(r)  == r \in Idempotent /\ attempt[r] <= MaxRetries
MayRetryOnceLess(r)  == r \in Idempotent /\ attempt[r] + 1 < MaxRetries
MayRetryAnyMethod(r) == attempt[r] < MaxRetries

(* One more attempt is granted to an idempotent method within the budget. *)
MayRetry(r) == r \in Idempotent /\ attempt[r] < MaxRetries

(* Regression: the attempt is counted before its wait is computed. *)
RetryCountedFirst(r) ==
    IF MayRetry(r)
    THEN /\ pc' = [pc EXCEPT ![r] = "backoff"]
         /\ slept' = [slept EXCEPT ![r] = @ + Pow2[attempt[r] + 1]]
         /\ UNCHANGED result
    ELSE Finish(r, "gave_up") /\ UNCHANGED slept

(* A failure that could be retried: sleep factor * 2^attempt, or give up. *)
RetryOrRaise(r) ==
    IF MayRetry(r)
    THEN /\ pc' = [pc EXCEPT ![r] = "backoff"]
         /\ slept' = [slept EXCEPT ![r] = @ + Pow2[attempt[r]]]
         /\ UNCHANGED result
    ELSE Finish(r, "gave_up") /\ UNCHANGED slept

(* The server may have carried the request out before the attempt failed. *)
MaybeExecuted(r) ==
    \E n \in {0, 1} : executed' = [executed EXCEPT ![r] = @ + n]

answering(r) == pc[r] = "in_flight" /\ UNCHANGED <<attempt, bound, sends, pool>>

Success(r) == /\ answering(r)
              /\ executed' = [executed EXCEPT ![r] = @ + 1]
              /\ Finish(r, "response")
              /\ UNCHANGED slept

(* httpx.TransportError: refused, reset, timed out, pool exhausted. *)
TransportError(r) == /\ answering(r)
                     /\ MaybeExecuted(r)
                     /\ RetryOrRaise(r)

(* A response in _DEFAULT_RETRY_ON_STATUS. *)
RetryStatus(r) == /\ answering(r)
                  /\ MaybeExecuted(r)
                  /\ RetryOrRaise(r)

(* Any other response outside 2xx. *)
FinalStatus(r) == /\ answering(r)
                  /\ MaybeExecuted(r)
                  /\ Finish(r, "refused")
                  /\ UNCHANGED slept

(* Any other exception (bad url, undecodable body, too many redirects). *)
OtherError(r) == /\ answering(r)
                 /\ MaybeExecuted(r)
                 /\ Finish(r, "escaped")
                 /\ UNCHANGED slept

(* Regression: the retry waits until the client it captured is open. *)
WakeOnOpenClient(r) == /\ pc[r] = "backoff"
                       /\ bound[r] \notin closed
                       /\ attempt' = [attempt EXCEPT ![r] = @ + 1]
                       /\ Send(r, bound[r])
                       /\ UNCHANGED <<bound, executed, slept, pool>>

(* The sleep ends and the loop sends again, on the client it captured. *)
Wake(r) == /\ pc[r] = "backoff"
           /\ attempt' = [attempt EXCEPT ![r] = @ + 1]
           /\ Send(r, bound[r])
           /\ UNCHANGED <<bound, executed, slept, pool>>

(* Regression: _client is reset before aclose() has closed what it named. *)
CloseBeginResetsFirst == /\ client # 0
                         /\ closing = 0
                         /\ closing' = client
                         /\ client' = 0
                         /\ UNCHANGED <<local, built, closed>>

(* aclose() marks the client closed before it awaits its connections. *)
CloseBegin == /\ client # 0
              /\ closing = 0
              /\ closing' = client
              /\ closed' = closed \cup {client}
              /\ UNCHANGED <<local, client, built>>

CloseEnd == /\ closing # 0
            /\ closing' = 0
            /\ client' = 0
            /\ UNCHANGED <<local, built, closed>>

(* aclose() raises: the assignment of None is skipped. *)
CloseFails == /\ closing # 0
              /\ closing' = 0
              /\ UNCHANGED <<local, client, built, closed>>

Answer(r) == \/ Success(r) \/ TransportError(r) \/ RetryStatus(r)
             \/ FinalStatus(r) \/ OtherError(r)

Close == CloseBegin \/ CloseEnd \/ CloseFails

Next == \/ \E r \in Requests : Start(r) \/ Answer(r) \/ Wake(r)
        \/ Close

Spec == Init /\ [][Next]_vars

(* Every attempt is answered or times out, and every sleep ends. *)
FairSpec == Spec /\ \A r \in Requests : WF_vars(Answer(r)) /\ WF_vars(Wake(r))

(***************************************************************************)
(* Safety.                                                                 *)
(***************************************************************************)
(* How often a call may hand its request to httpx, which may fail before    *)
(* anything is on the wire (a ConnectError, a PoolTimeout): the wire sees   *)
(* it no more often than that.                                              *)
Allowed(r) == IF r \in Idempotent THEN MaxRetries + 1 ELSE 1

(* The budget is neither exceeded nor cut short: a call gives up on a       *)
(* retryable failure exactly after its last allowed attempt. A POST or      *)
(* PATCH has one, so it is carried out at most once, also when its reply is *)
(* lost or it is answered 503.                                              *)
RetryBudget ==
    \A r \in Requests : /\ executed[r] <= sends[r]
                        /\ sends[r] <= Allowed(r)
                        /\ result[r] = "gave_up" => sends[r] = Allowed(r)

(* The n-th attempt is sent after factor * (2^n - 1) seconds of backoff in  *)
(* total, and a call never sleeps longer than factor * (2^MaxRetries - 1).  *)
BackoffDoubles ==
    \A r \in Requests : /\ pc[r] = "in_flight" => slept[r] = Pow2[attempt[r]] - 1
                        /\ slept[r] <= Pow2[MaxRetries] - 1

(* However starts and closes interleave, an AsyncClient that still accepts  *)
(* requests is the one the module names: none is leaked behind it.          *)
OpenClientIsCurrent ==
    \A c \in 1..built : c \notin closed => c = client

(* The refinement: request() is a call that asks its server as often as its *)
(* budget allows. Unless there is a 2xx response the caller learns nothing  *)
(* of what the server did: no errno says that it was never asked.           *)
Outcome(how) == CASE how = "response" -> "answered"
                  [] how = "none"     -> "nothing"
                  [] OTHER            -> "unknown"

Server == INSTANCE ServerCall WITH
             Calls   <- Requests,
             Limit   <- [r \in Requests |-> Allowed(r)],
             running <- {r \in Requests : pc[r] \in {"in_flight", "backoff"}},
             asked   <- sends,
             served  <- executed,
             told    <- [r \in Requests |-> Outcome(result[r])]

ImplementsServerCall == Server!Spec

(* Every call that was started comes back to its caller. *)
CallsEnd == \A r \in Requests : pc[r] = "in_flight" ~> pc[r] = "done"
=============================================================================
