---------------------------- MODULE UserRequest ----------------------------
(***************************************************************************)
(* A request to the user endpoints on its way through the stack: RequestID *)
(* and AccessLog middleware, routing, the get_db session, the one or two   *)
(* queries of UserRepository, and the exception handlers on the way out.   *)
(* Requests are tasks of one event loop that share the connection pool of  *)
(* the engine; the user table is written by others. Starlette, SQLAlchemy  *)
(* and the table are external, modelled from how the code uses them.       *)
(***************************************************************************)
EXTENDS Naturals, Sequences, FiniteSets

CONSTANTS Requests,    \* requests the process receives
          Ids,         \* request ids: made here, or taken from X-Request-Id
          PoolLimit,   \* pool_size + max_overflow
          Limit,       \* rows of a page
          MaxUsers,    \* bound: rows of the table
          MaxWrites    \* bound: writes of others

ASSUME UserRequestAssumption == /\ IsFiniteSet(Requests)
                                /\ "-" \notin Ids
                                /\ PoolLimit \in Nat \ {0}
                                /\ Limit \in Nat \ {0}
                                /\ MaxUsers \in Nat
                                /\ MaxWrites \in Nat

VARIABLES maker,      \* _async_session_maker is set
          table,      \* rows of the user table
          writes,     \* writes to it so far
          pc,         \* where each request is
          conn,       \* requests whose session holds a connection
          offset,     \* first row a list request asked for
          rows,       \* rows it has read
          total,      \* what its count returned
          skewed,     \* list requests with a write between their two queries
          outcome,    \* what each request's endpoint came to
          rid,        \* the request_id it goes by
          ctx,        \* the request_id its context holds, "-" for none
          access,     \* its access log lines: <<status, request_id>>
          tags,       \* the request_ids on all lines logged for it
          response    \* [status, header] its client got

db    == <<maker, table, writes>>
list  == <<offset, rows, total, skewed>>
trace == <<rid, ctx, access, tags, response>>
vars  == <<db, pc, conn, list, outcome, trace>>

StatusOf == [ok |-> 200, not_found |-> 404, db_error |-> 400, no_session |-> 400,
             no_route |-> 404, invalid |-> 422, crash |-> 500]
Statuses == {0, 200, 400, 404, 422, 500}
Inside   == {"inside", "reading", "listing", "counting"}

TypeOK == /\ maker \in BOOLEAN
          /\ table \in 0..MaxUsers
          /\ writes \in 0..MaxWrites
          /\ pc \in [Requests -> {"new", "leaving", "raised", "answered"} \cup Inside]
          /\ conn \subseteq Requests /\ Cardinality(conn) <= PoolLimit
          /\ offset \in [Requests -> 0..MaxUsers]
          /\ rows \in [Requests -> 0..Limit]
          /\ total \in [Requests -> 0..MaxUsers]
          /\ skewed \subseteq Requests
          /\ outcome \in [Requests -> {"none"} \cup DOMAIN StatusOf]
          /\ rid \in [Requests -> Ids \cup {"-"}]
          /\ ctx \in [Requests -> Ids \cup {"-"}]
          /\ access \in [Requests -> Seq(Statuses \X (Ids \cup {"-"}))]
          /\ tags \in [Requests -> SUBSET (Ids \cup {"-"})]
          /\ response \in [Requests -> [status : Statuses, header : Ids \cup {"-"}]]

Init == /\ maker \in BOOLEAN
        /\ table \in 0..MaxUsers
        /\ writes = 0
        /\ pc = [r \in Requests |-> "new"]
        /\ conn = {}
        /\ offset = [r \in Requests |-> 0]
        /\ rows = [r \in Requests |-> 0]
        /\ total = [r \in Requests |-> 0]
        /\ skewed = {}
        /\ outcome = [r \in Requests |-> "none"]
        /\ rid = [r \in Requests |-> "-"]
        /\ ctx = [r \in Requests |-> "-"]
        /\ access = [r \in Requests |-> <<>>]
        /\ tags = [r \in Requests |-> {}]
        /\ response = [r \in Requests |-> [status |-> 0, header |-> "-"]]

Goto(r, where) == pc' = [pc EXCEPT ![r] = where]

(* The patcher tags a line with the request_id of the context it runs in.   *)
Log(r) == tags' = [tags EXCEPT ![r] = @ \cup {ctx[r]}]

(* The endpoint is left with a result or an exception. *)
End(r, what) == /\ outcome' = [outcome EXCEPT ![r] = what]
                /\ Goto(r, "leaving")
                /\ UNCHANGED <<db, trace>>

(* RequestIDMiddleware makes an id, or takes the client's as it is, which   *)
(* another request may have too, and calls the rest.                        *)
Dispatch(r) == /\ pc[r] = "new"
               /\ \E id \in Ids : /\ rid' = [rid EXCEPT ![r] = id]
                                   /\ ctx' = [ctx EXCEPT ![r] = id]
               /\ Goto(r, "inside")
               /\ UNCHANGED <<db, conn, list, outcome, access, tags, response>>

(* No route (404), get_db() without a sessionmaker, or a parameter out of   *)
(* range (422, found after the dependencies): the endpoint is not entered.  *)
Refuse(r) == /\ pc[r] = "inside"
             /\ \E what \in {"no_route", IF maker THEN "invalid" ELSE "no_session"} :
                    End(r, what)
             /\ UNCHANGED <<conn, list>>

(* The first execute() of the session checks a connection out of the pool. *)
CheckOut(r) == /\ pc[r] = "inside"
               /\ maker
               /\ Cardinality(conn) < PoolLimit
               /\ conn' = conn \cup {r}
               /\ \/ Goto(r, "reading") /\ UNCHANGED offset
                  \/ /\ Goto(r, "listing")
                     /\ \E o \in 0..MaxUsers : offset' = [offset EXCEPT ![r] = o]
               /\ UNCHANGED <<db, rows, total, skewed, outcome, trace>>

(* None comes free within the pool's timeout, or connecting fails. A driver *)
(* error that is no SQLAlchemyError passes the except clause of the DAO.    *)
CheckOutFails(r) ==
    /\ pc[r] = "inside"
    /\ maker
    /\ \E what \in {"db_error"} \cup (IF Cardinality(conn) < PoolLimit THEN {"crash"} ELSE {}) :
           End(r, what)
    /\ UNCHANGED <<conn, list>>

(* get_user: the row is there, or BizNotFoundError. *)
GetUser(r) == /\ pc[r] = "reading"
              /\ \E what \in {"not_found"} \cup (IF table > 0 THEN {"ok"} ELSE {}) :
                     End(r, what)
              /\ UNCHANGED <<conn, list>>

(* The rows of a page that starts at row o of n rows. *)
Page(n, o) == IF n <= o THEN 0 ELSE IF n - o < Limit THEN n - o ELSE Limit

(* Regression: the statement has no LIMIT. *)
ListRowsUnlimited(r) == /\ pc[r] = "listing"
                        /\ rows' = [rows EXCEPT ![r] = table]
                        /\ Goto(r, "counting")
                        /\ UNCHANGED <<db, conn, offset, total, skewed, outcome, trace>>

(* list_users: the page first, in a statement and a snapshot of its own. *)
ListRows(r) == /\ pc[r] = "listing"
               /\ rows' = [rows EXCEPT ![r] = Page(table, offset[r])]
               /\ Goto(r, "counting")
               /\ UNCHANGED <<db, conn, offset, total, skewed, outcome, trace>>

(* Regression: the page's length stands in for the count. *)
CountPage(r) == /\ pc[r] = "counting"
                /\ total' = [total EXCEPT ![r] = rows[r]]
                /\ End(r, "ok")
                /\ UNCHANGED <<conn, offset, rows, skewed>>

(* list_users: then the count. *)
CountRows(r) == /\ pc[r] = "counting"
                /\ total' = [total EXCEPT ![r] = table]
                /\ End(r, "ok")
                /\ UNCHANGED <<conn, offset, rows, skewed>>

(* A query raises: SQLAlchemyError becomes a BizException, others pass. *)
QueryFails(r) == /\ pc[r] \in {"reading", "listing", "counting"}
                 /\ \E what \in {"db_error", "crash"} : End(r, what)
                 /\ UNCHANGED <<conn, list>>

(* Regression: a session is closed only behind an endpoint that returned. *)
CloseAfterResult(r) == /\ pc[r] \in {"leaving", "answered"}
                       /\ r \in conn
                       /\ outcome[r] \in {"ok", "not_found"}
                       /\ conn' = conn \ {r}
                       /\ UNCHANGED <<db, pc, list, outcome, trace>>

(* get_db() is left and its session gives the connection back: before the  *)
(* response or after it, as the FastAPI release has it, and always before  *)
(* an exception reaches the handlers. What closing raises takes the place  *)
(* of the result or, once the response is out, only gets a line in the log *)
(* of the outermost handler.                                               *)
CloseSession(r) ==
    /\ r \in conn
    /\ conn' = conn \ {r}
    /\ \/ pc[r] \in {"leaving", "answered"} /\ UNCHANGED <<outcome, tags>>
       \/ /\ pc[r] = "leaving"
          /\ outcome' = [outcome EXCEPT ![r] = "crash"]
          /\ UNCHANGED tags
       \/ pc[r] = "answered" /\ Log(r) /\ UNCHANGED outcome
    /\ UNCHANGED <<db, pc, list, rid, ctx, access, response>>

(* Regression: AccessLog runs outside RequestID, after its reset. *)
AccessLineOutside(r, status) == access' = [access EXCEPT ![r] = Append(@, <<status, "-">>)]

(* AccessLog's finally: a line in the context of RequestID. *)
AccessLine(r, status) == access' = [access EXCEPT ![r] = Append(@, <<status, ctx[r]>>)]

(* A response passes AccessLog, which logs it, then RequestID, which adds   *)
(* the header and resets the context. Biz, HTTP and validation exceptions   *)
(* became a response in the handlers inside, which log too.                 *)
Respond(r) ==
    LET status == StatusOf[outcome[r]]
    IN  /\ pc[r] = "leaving"
        /\ outcome[r] # "crash"
        /\ outcome[r] = "ok" \/ r \notin conn
        /\ Log(r)
        /\ AccessLine(r, status)
        /\ response' = [response EXCEPT ![r] = [status |-> status, header |-> ctx[r]]]
        /\ ctx' = [ctx EXCEPT ![r] = "-"]
        /\ Goto(r, "answered")
        /\ UNCHANGED <<db, conn, list, outcome, rid>>

(* Any other exception passes both middlewares: AccessLog's finally logs a *)
(* 500, RequestID's resets the context and adds nothing.                   *)
Unwind(r) == /\ pc[r] = "leaving"
             /\ outcome[r] = "crash"
             /\ r \notin conn
             /\ Log(r)
             /\ AccessLine(r, 500)
             /\ ctx' = [ctx EXCEPT ![r] = "-"]
             /\ Goto(r, "raised")
             /\ UNCHANGED <<db, conn, list, outcome, rid, response>>

(* The handler of Exception runs outside every middleware. *)
UnhandledException(r) ==
    /\ pc[r] = "raised"
    /\ Log(r)
    /\ response' = [response EXCEPT ![r] = [status |-> 500, header |-> "-"]]
    /\ Goto(r, "answered")
    /\ UNCHANGED <<db, conn, list, outcome, rid, ctx, access>>

(* Somebody else inserts or deletes users. *)
WriteTable == /\ writes < MaxWrites
              /\ writes' = writes + 1
              /\ table' \in 0..MaxUsers
              /\ skewed' = skewed \cup {r \in Requests : pc[r] = "counting"}
              /\ UNCHANGED <<maker, pc, conn, offset, rows, total, outcome, trace>>

Progress(r) == \/ Refuse(r) \/ CheckOut(r) \/ CheckOutFails(r)
               \/ GetUser(r) \/ ListRows(r) \/ CountRows(r) \/ QueryFails(r)
               \/ CloseSession(r) \/ Respond(r) \/ Unwind(r) \/ UnhandledException(r)

Next == \/ \E r \in Requests : Dispatch(r) \/ Progress(r)
        \/ WriteTable

Spec == Init /\ [][Next]_vars

(* The pool times out, the event loop runs what is ready, and the database  *)
(* answers or its connection breaks: assumed of it, the code sets no        *)
(* statement timeout.                                                       *)
FairSpec == Spec /\ \A r \in Requests : WF_vars(Progress(r))

(***************************************************************************)
(* Safety.                                                                 *)
(***************************************************************************)
(* An answered request left exactly one access line, with the status its   *)
(* client got and the id it goes by, also when the endpoint or the closing  *)
(* of its session raised and the response was made outside the middleware   *)
(* that logs.                                                               *)
AccessLineTruthful ==
    \A r \in Requests :
        pc[r] = "answered" => access[r] = << <<response[r].status, rid[r]>> >>

(* The page is the one its total implies, unless a write fell between the   *)
(* two queries: each takes a snapshot of its own.                           *)
PageSkewByWrite ==
    \A r \in Requests \ skewed :
        outcome[r] = "ok" => rows[r] = Page(total[r], offset[r])

(* Every request is answered, and its connection is back in the pool,       *)
(* whatever its endpoint raised.                                            *)
RequestsEnd == \A r \in Requests :
                   pc[r] = "inside" ~> pc[r] = "answered" /\ r \notin conn

(***************************************************************************)
(* What README.md:66 says of the request id: the header is written back     *)
(* and every log line of the request carries it. False: see UnhandledException. *)
(***************************************************************************)
IdReachesLogsAndHeader ==
    \A r \in Requests :
        pc[r] = "answered" => tags[r] = {rid[r]} /\ response[r].header = rid[r]
=============================================================================
