------------------------- MODULE UserRequest_proofs -------------------------
(***************************************************************************)
(* Proofs about the request pipeline. Most properties speak of requests    *)
(* that came to an end; the invariants below say what the middlewares and  *)
(* the two queries have done for a request that is still on its way.       *)
(***************************************************************************)
EXTENDS UserRequest, FiniteSetTheorems, TLAPS

Places == {"new", "leaving", "raised", "answered"} \cup Inside

(* The functions of the state, as far as the proofs need their types. *)
Shape == /\ pc \in [Requests -> Places]
         /\ outcome \in [Requests -> {"none"} \cup DOMAIN StatusOf]
         /\ DOMAIN ctx = Requests
         /\ rid = [r \in Requests |-> rid[r]]
         /\ ctx = [r \in Requests |-> ctx[r]]
         /\ access = [r \in Requests |-> access[r]]
         /\ response = [r \in Requests |-> response[r]]

(* From Dispatch to the last middleware the context holds the id, and the   *)
(* one access line is written on the way out, inside that context.          *)
Logged(r) ==
    /\ pc[r] \in Inside \cup {"leaving"} => ctx[r] = rid[r]
    /\ pc[r] \in Inside \cup {"new", "leaving"} => access[r] = << >>
    /\ pc[r] = "raised" => access[r] = << <<500, rid[r]>> >>
    /\ pc[r] = "answered" => access[r] = << <<response[r].status, rid[r]>> >>

LogInv == Shape /\ \A r \in Requests : Logged(r)

LEMMA LogInit == Init => LogInv
BY DEF Init, LogInv, Shape, Logged, Places, Inside, StatusOf

(* Steps below the middlewares move a request on and touch no log. *)
LEMMA BelowMiddlewares ==
    ASSUME LogInv, NEW r \in Requests, NEW where \in Inside \cup {"leaving"},
           pc[r] \in Inside, pc' = [pc EXCEPT ![r] = where],
           outcome' \in [Requests -> {"none"} \cup DOMAIN StatusOf],
           UNCHANGED trace
    PROVE  LogInv'
<1>1. Shape'
  BY DEF LogInv, Shape, Places, trace
<1>2. ASSUME NEW q \in Requests PROVE Logged(q)'
  <2>1. Logged(q) /\ pc'[q] = IF q = r THEN where ELSE pc[q]
    BY DEF LogInv, Shape
  <2>2. QED
    BY <2>1 DEF Logged, Inside, trace
<1>3. QED
  BY <1>1, <1>2 DEF LogInv

LEMMA EndBelow ==
    ASSUME LogInv, NEW r \in Requests, NEW what \in DOMAIN StatusOf,
           pc[r] \in Inside, End(r, what)
    PROVE  LogInv'
<1>1. outcome' \in [Requests -> {"none"} \cup DOMAIN StatusOf]
  BY DEF End, LogInv, Shape
<1>2. QED
  BY <1>1, BelowMiddlewares DEF End, Goto

LEMMA LogEndpoint ==
    ASSUME LogInv, NEW r \in Requests,
           Refuse(r) \/ CheckOut(r) \/ CheckOutFails(r) \/ GetUser(r)
             \/ ListRows(r) \/ CountRows(r) \/ QueryFails(r)
    PROVE  LogInv'
<1>0. outcome \in [Requests -> {"none"} \cup DOMAIN StatusOf]
  BY DEF LogInv, Shape
<1>1. CASE Refuse(r)
  BY <1>1, EndBelow DEF Refuse, StatusOf, Inside
<1>2. CASE CheckOut(r)
  BY <1>0, <1>2, BelowMiddlewares DEF CheckOut, Goto, Inside
<1>3. CASE CheckOutFails(r)
  BY <1>3, EndBelow DEF CheckOutFails, StatusOf, Inside
<1>4. CASE GetUser(r)
  BY <1>4, EndBelow DEF GetUser, StatusOf, Inside
<1>5. CASE ListRows(r)
  BY <1>0, <1>5, BelowMiddlewares DEF ListRows, Goto, Inside, trace
<1>6. CASE CountRows(r)
  BY <1>6, EndBelow DEF CountRows, StatusOf, Inside
<1>7. CASE QueryFails(r)
  BY <1>7, EndBelow DEF QueryFails, StatusOf, Inside
<1>8. QED
  BY <1>1, <1>2, <1>3, <1>4, <1>5, <1>6, <1>7

LEMMA OneLine ==
    ASSUME NEW x, NEW s, s = << >> PROVE Append(s, x) = << x >>
OBVIOUS

LEMMA LogMiddlewares ==
    ASSUME LogInv, NEW r \in Requests,
           Dispatch(r) \/ Respond(r) \/ Unwind(r) \/ UnhandledException(r)
    PROVE  LogInv'
<1>1. Shape'
  BY DEF LogInv, Shape, Places, Inside, Dispatch, Respond, Unwind, UnhandledException,
         Goto, AccessLine
<1>2. ASSUME NEW q \in Requests PROVE Logged(q)'
  <2>1. Logged(q) /\ Logged(r)
    BY DEF LogInv
  <2>2. CASE Dispatch(r)
    <3>1. pc[r] = "new" /\ access' = access /\ response' = response
      BY <2>2 DEF Dispatch
    <3>2. pc'[r] = "inside" /\ ctx'[r] = rid'[r]
      BY <2>2 DEF LogInv, Shape, Dispatch, Goto
    <3>3. q # r => ctx'[q] = ctx[q] /\ rid'[q] = rid[q] /\ pc'[q] = pc[q]
      BY <2>2 DEF LogInv, Shape, Dispatch, Goto
    <3>4. QED
      BY <2>1, <3>1, <3>2, <3>3 DEF Logged, Inside
  <2>3. CASE Respond(r)
    <3>1. access'[r] = Append(access[r], <<StatusOf[outcome[r]], ctx[r]>>)
      BY <2>3 DEF LogInv, Shape, Respond, AccessLine
    <3>2. access[r] = << >> /\ ctx[r] = rid[r]
      BY <2>1, <2>3 DEF Logged, Respond
    <3>3. access'[r] = << <<StatusOf[outcome[r]], rid[r]>> >>
      BY <3>1, <3>2, OneLine
    <3>4. response'[r].status = StatusOf[outcome[r]] /\ pc'[r] = "answered" /\ rid' = rid
      BY <2>3 DEF LogInv, Shape, Respond, Goto
    <3>5. q # r => /\ access'[q] = access[q] /\ response'[q] = response[q]
                   /\ ctx'[q] = ctx[q] /\ rid'[q] = rid[q] /\ pc'[q] = pc[q]
      BY <2>3 DEF LogInv, Shape, Respond, AccessLine, Goto
    <3>6. QED
      BY <2>1, <3>3, <3>4, <3>5 DEF Logged, Inside
  <2>4. CASE Unwind(r)
    <3>1. access'[r] = Append(access[r], <<500, ctx[r]>>)
      BY <2>4 DEF LogInv, Shape, Unwind, AccessLine
    <3>2. access[r] = << >> /\ ctx[r] = rid[r]
      BY <2>1, <2>4 DEF Logged, Unwind
    <3>3. access'[r] = << <<500, rid[r]>> >>
      BY <3>1, <3>2, OneLine
    <3>4. pc'[r] = "raised" /\ rid' = rid
      BY <2>4 DEF LogInv, Shape, Unwind, Goto
    <3>5. q # r => /\ access'[q] = access[q] /\ response'[q] = response[q]
                   /\ ctx'[q] = ctx[q] /\ rid'[q] = rid[q] /\ pc'[q] = pc[q]
      BY <2>4 DEF LogInv, Shape, Unwind, AccessLine, Goto
    <3>6. QED
      BY <2>1, <3>3, <3>4, <3>5 DEF Logged, Inside
  <2>5. CASE UnhandledException(r)
    <3>1. /\ response'[r].status = 500 /\ pc'[r] = "answered"
          /\ access' = access /\ rid' = rid
      BY <2>5 DEF LogInv, Shape, UnhandledException, Goto
    <3>2. access[r] = << <<500, rid[r]>> >>
      BY <2>1, <2>5 DEF Logged, UnhandledException
    <3>3. q # r => response'[q] = response[q] /\ ctx'[q] = ctx[q] /\ pc'[q] = pc[q]
      BY <2>5 DEF LogInv, Shape, UnhandledException, Goto
    <3>4. QED
      BY <2>1, <3>1, <3>2, <3>3 DEF Logged, Inside
  <2>6. QED
    BY <2>2, <2>3, <2>4, <2>5
<1>3. QED
  BY <1>1, <1>2 DEF LogInv

LEMMA LogInductive == LogInv /\ [Next]_vars => LogInv'
<1> SUFFICES ASSUME LogInv, [Next]_vars PROVE LogInv'
  OBVIOUS
<1>1. CASE \E r \in Requests : Dispatch(r) \/ Respond(r) \/ Unwind(r) \/ UnhandledException(r)
  BY <1>1, LogMiddlewares
<1>2. CASE \E r \in Requests : Refuse(r) \/ CheckOut(r) \/ CheckOutFails(r) \/ GetUser(r)
                                 \/ ListRows(r) \/ CountRows(r) \/ QueryFails(r)
  BY <1>2, LogEndpoint
<1>3. CASE (\E r \in Requests : CloseSession(r)) \/ WriteTable \/ UNCHANGED vars
  <2>1. UNCHANGED <<pc, rid, ctx, access, response>>
    BY <1>3 DEF CloseSession, WriteTable, vars, trace
  <2>2. outcome' \in [Requests -> {"none"} \cup DOMAIN StatusOf]
    BY <1>3 DEF CloseSession, WriteTable, vars, LogInv, Shape, StatusOf
  <2>3. QED
    BY <2>1, <2>2 DEF LogInv, Shape, Logged
<1>4. QED
  BY <1>1, <1>2, <1>3 DEF Next, Progress

(* Whatever way a request ends, its client's status and its own id stand in *)
(* the access log, once.                                                    *)
THEOREM AccessLogRight == Spec => []AccessLineTruthful
<1>1. LogInv => AccessLineTruthful
  BY DEF LogInv, Logged, AccessLineTruthful
<1>2. QED
  BY <1>1, LogInit, LogInductive, PTL DEF Spec

(***************************************************************************)
(* The page and its count.                                                 *)
(***************************************************************************)
Counts == /\ table \in Nat
          /\ pc \in [Requests -> Places]
          /\ outcome \in [Requests -> {"none"} \cup DOMAIN StatusOf]
          /\ offset \in [Requests -> Nat]
          /\ rows \in [Requests -> Nat]
          /\ total \in [Requests -> Nat]

(* A request that has read its page holds the page of the table as it is,   *)
(* unless the table was written since.                                      *)
Paged(r) ==
    /\ pc[r] \in Inside \cup {"new"} => outcome[r] = "none"
    /\ pc[r] \in {"new", "inside", "reading"} => offset[r] = 0 /\ rows[r] = 0 /\ total[r] = 0
    /\ pc[r] = "counting" /\ r \notin skewed => rows[r] = Page(table, offset[r])
    /\ outcome[r] = "ok" /\ r \notin skewed => rows[r] = Page(total[r], offset[r])

PageInv == Counts /\ \A r \in Requests : Paged(r)

LEMMA PageIsNat == ASSUME NEW n \in Nat, NEW o \in Nat PROVE Page(n, o) \in Nat
BY UserRequestAssumption DEF Page

LEMMA EmptyPage == Page(0, 0) = 0
BY DEF Page

LEMMA PageInit == Init => PageInv
<1> SUFFICES ASSUME Init PROVE PageInv
  OBVIOUS
<1>1. Counts
  BY UserRequestAssumption DEF Init, Counts, Places
<1>2. \A r \in Requests : Paged(r)
  BY DEF Init, Paged, Inside
<1>3. QED
  BY <1>1, <1>2 DEF PageInv

(* Leaving the endpoint: with anything but a result the counts do not matter. *)
LEMMA PageEnd ==
    ASSUME PageInv, NEW r \in Requests, NEW what \in DOMAIN StatusOf, End(r, what),
           UNCHANGED <<offset, rows, skewed>>,
           total' \in [Requests -> Nat],
           \A q \in Requests \ {r} : total'[q] = total[q],
           what = "ok" /\ r \notin skewed => rows[r] = Page(total'[r], offset[r])
    PROVE  PageInv'
<1>1. Counts'
  BY DEF PageInv, Counts, End, Goto, db, Places
<1>2. ASSUME NEW q \in Requests PROVE Paged(q)'
  <2>1. Paged(q)
    BY DEF PageInv
  <2>2. CASE q = r
    <3>1. pc'[q] = "leaving" /\ outcome'[q] = what
      BY <2>2 DEF PageInv, Counts, End, Goto
    <3>2. QED
      BY <2>2, <3>1 DEF Paged, Inside
  <2>3. CASE q # r
    <3>1. pc'[q] = pc[q] /\ outcome'[q] = outcome[q] /\ total'[q] = total[q] /\ table' = table
      BY <2>3 DEF PageInv, Counts, End, Goto, db
    <3>2. QED
      BY <2>1, <3>1 DEF Paged
  <2>4. QED
    BY <2>2, <2>3
<1>3. QED
  BY <1>1, <1>2 DEF PageInv

LEMMA PageFailure ==
    ASSUME PageInv, NEW r \in Requests,
           Refuse(r) \/ CheckOutFails(r) \/ QueryFails(r)
    PROVE  PageInv'
<1>1. PICK what \in DOMAIN StatusOf \ {"ok"} : End(r, what)
  BY DEF Refuse, CheckOutFails, QueryFails, StatusOf
<1>2. UNCHANGED list
  BY DEF Refuse, CheckOutFails, QueryFails
<1>3. QED
  BY <1>1, <1>2, PageEnd DEF list, PageInv, Counts

LEMMA PageGetUser == ASSUME PageInv, NEW r \in Requests, GetUser(r) PROVE PageInv'
<1>1. PICK what \in DOMAIN StatusOf : End(r, what)
  BY DEF GetUser, StatusOf
<1>2. UNCHANGED list
  BY DEF GetUser
<1>3. rows[r] = Page(total[r], offset[r])
  BY EmptyPage DEF GetUser, PageInv, Paged
<1>4. QED
  BY <1>1, <1>2, <1>3, PageEnd DEF list, PageInv, Counts

LEMMA PageCount == ASSUME PageInv, NEW r \in Requests, CountRows(r) PROVE PageInv'
<1>1. /\ total' \in [Requests -> Nat] /\ total'[r] = table
      /\ \A q \in Requests \ {r} : total'[q] = total[q]
  BY DEF CountRows, PageInv, Counts
<1>2. r \notin skewed => rows[r] = Page(table, offset[r])
  BY DEF CountRows, PageInv, Paged
<1>3. QED
  BY <1>1, <1>2, PageEnd DEF CountRows, StatusOf

LEMMA PageRead == ASSUME PageInv, NEW r \in Requests, ListRows(r) PROVE PageInv'
<1>1. rows' \in [Requests -> Nat]
  BY PageIsNat DEF ListRows, PageInv, Counts
<1>2. Counts'
  BY <1>1 DEF PageInv, Counts, ListRows, Goto, db, Places, Inside
<1>3. ASSUME NEW q \in Requests PROVE Paged(q)'
  <2>1. Paged(q) /\ outcome[r] = "none"
    BY DEF PageInv, Paged, ListRows, Inside
  <2>2. CASE q = r
    <3>1. pc'[q] = "counting" /\ rows'[q] = Page(table, offset[q])
      BY <2>2 DEF PageInv, Counts, ListRows, Goto
    <3>2. QED
      BY <2>1, <2>2, <3>1 DEF Paged, ListRows, db
  <2>3. CASE q # r
    <3>1. pc'[q] = pc[q] /\ rows'[q] = rows[q]
      BY <2>3 DEF PageInv, Counts, ListRows, Goto
    <3>2. QED
      BY <2>1, <3>1 DEF Paged, ListRows, db
  <2>4. QED
    BY <2>2, <2>3
<1>4. QED
  BY <1>2, <1>3 DEF PageInv

LEMMA PageStart ==
    ASSUME PageInv, NEW r \in Requests, Dispatch(r) \/ CheckOut(r) PROVE PageInv'
<1>1. offset' \in [Requests -> Nat] /\ \A q \in Requests \ {r} : offset'[q] = offset[q]
  <2>1. \A o \in 0..MaxUsers : o \in Nat
    BY UserRequestAssumption
  <2>2. QED
    BY <2>1 DEF Dispatch, CheckOut, list, PageInv, Counts
<1>2. UNCHANGED <<table, rows, total, skewed, outcome>>
  BY DEF Dispatch, CheckOut, list, db
<1>3. PICK where \in {"inside", "reading", "listing"} :
          pc' = [pc EXCEPT ![r] = where] /\ (where = "listing" \/ offset' = offset)
  BY DEF Dispatch, CheckOut, Goto, list
<1>4. Counts'
  BY <1>1, <1>2, <1>3 DEF PageInv, Counts, Places, Inside
<1>5. ASSUME NEW q \in Requests PROVE Paged(q)'
  <2>1. Paged(q)
    BY DEF PageInv
  <2>2. pc'[q] = IF q = r THEN where ELSE pc[q]
    BY <1>3 DEF PageInv, Counts
  <2>3. pc[r] \in {"new", "inside"}
    BY DEF Dispatch, CheckOut
  <2>4. CASE q = r
    <3>1. outcome[q] = "none" /\ offset[q] = 0 /\ rows[q] = 0 /\ total[q] = 0
      BY <2>1, <2>3, <2>4 DEF Paged, Inside
    <3>2. QED
      BY <1>2, <1>3, <2>2, <2>4, <3>1 DEF Paged, Inside
  <2>5. CASE q # r
    BY <1>1, <1>2, <2>1, <2>2, <2>5 DEF Paged
  <2>6. QED
    BY <2>4, <2>5
<1>6. QED
  BY <1>4, <1>5 DEF PageInv

LEMMA PageLeave ==
    ASSUME PageInv, NEW r \in Requests,
           Respond(r) \/ Unwind(r) \/ UnhandledException(r)
    PROVE  PageInv'
<1>1. UNCHANGED <<db, list, outcome>>
  BY DEF Respond, Unwind, UnhandledException
<1>2. /\ pc' \in [Requests -> Places]
      /\ \A q \in Requests : pc'[q] = pc[q] \/ pc'[q] \in {"raised", "answered"}
  BY DEF Respond, Unwind, UnhandledException, Goto, PageInv, Counts, Places
<1>3. QED
  BY <1>1, <1>2 DEF PageInv, Counts, Paged, db, list, Inside

(* A result may be lost to the closing of its session, none is gained.      *)
LEMMA PageClose == ASSUME PageInv, NEW r \in Requests, CloseSession(r) PROVE PageInv'
<1>1. /\ UNCHANGED <<db, list, pc>>
      /\ pc[r] \in {"leaving", "answered"}
      /\ outcome' = outcome \/ outcome' = [outcome EXCEPT ![r] = "crash"]
  BY DEF CloseSession
<1>2. /\ outcome' \in [Requests -> {"none"} \cup DOMAIN StatusOf]
      /\ \A q \in Requests : outcome'[q] = outcome[q] \/ (q = r /\ outcome'[q] = "crash")
  <2>1. outcome \in [Requests -> {"none"} \cup DOMAIN StatusOf] /\ "crash" \in DOMAIN StatusOf
    BY DEF PageInv, Counts, StatusOf
  <2>2. QED
    BY <1>1, <2>1
<1>3. Counts'
  BY <1>1, <1>2 DEF PageInv, Counts, db, list
<1>4. ASSUME NEW q \in Requests PROVE Paged(q)'
  <2>1. Paged(q) /\ UNCHANGED <<table, pc, offset, rows, total, skewed>>
    BY <1>1 DEF PageInv, db, list
  <2>2. outcome'[q] = outcome[q]
        \/ (pc[q] \in {"leaving", "answered"} /\ outcome'[q] = "crash")
    BY <1>1, <1>2
  <2>3. QED
    BY <2>1, <2>2 DEF Paged, Inside
<1>5. QED
  BY <1>3, <1>4 DEF PageInv

LEMMA PageWrite == ASSUME PageInv, WriteTable PROVE PageInv'
<1>1. table' \in Nat
  BY UserRequestAssumption DEF WriteTable
<1>2. Counts'
  BY <1>1 DEF PageInv, Counts, WriteTable
<1>3. ASSUME NEW r \in Requests PROVE Paged(r)'
  BY DEF PageInv, Paged, WriteTable
<1>4. QED
  BY <1>2, <1>3 DEF PageInv

LEMMA PageInductive == PageInv /\ [Next]_vars => PageInv'
<1> SUFFICES ASSUME PageInv, [Next]_vars PROVE PageInv'
  OBVIOUS
<1>1. CASE \E r \in Requests : Dispatch(r) \/ CheckOut(r)
  BY <1>1, PageStart
<1>2. CASE \E r \in Requests : Refuse(r) \/ CheckOutFails(r) \/ QueryFails(r)
  BY <1>2, PageFailure
<1>3. CASE \E r \in Requests : GetUser(r) \/ ListRows(r) \/ CountRows(r)
  BY <1>3, PageGetUser, PageRead, PageCount
<1>4. CASE \E r \in Requests : Respond(r) \/ Unwind(r) \/ UnhandledException(r)
  BY <1>4, PageLeave
<1>8. CASE \E r \in Requests : CloseSession(r)
  BY <1>8, PageClose
<1>5. CASE WriteTable
  BY <1>5, PageWrite
<1>6. CASE UNCHANGED vars
  BY <1>6 DEF vars, db, list, PageInv, Counts, Paged
<1>7. QED
  BY <1>1, <1>2, <1>3, <1>4, <1>5, <1>6, <1>8 DEF Next, Progress

(* A list of users and its total fit together unless the table was written  *)
(* between the two queries.                                                 *)
THEOREM PageRight == Spec => []PageSkewByWrite
<1>1. PageInv => PageSkewByWrite
  BY DEF PageInv, Paged, PageSkewByWrite
<1>2. QED
  BY <1>1, PageInit, PageInductive, PTL DEF Spec

(***************************************************************************)
(* Types, and with them the connection pool. A status is looked up only    *)
(* for a request whose endpoint has come to an outcome.                    *)
(***************************************************************************)
Tags == Ids \cup {"-"}

DbTyped == maker \in BOOLEAN /\ table \in 0..MaxUsers /\ writes \in 0..MaxWrites

StageTyped == /\ pc \in [Requests -> Places]
              /\ outcome \in [Requests -> {"none"} \cup DOMAIN StatusOf]
              /\ \A r \in Requests : pc[r] = "leaving" => outcome[r] # "none"

PoolTyped == conn \subseteq Requests /\ Cardinality(conn) <= PoolLimit

ListTyped == /\ offset \in [Requests -> 0..MaxUsers]
             /\ rows \in [Requests -> 0..Limit]
             /\ total \in [Requests -> 0..MaxUsers]
             /\ skewed \subseteq Requests

TraceTyped == /\ rid \in [Requests -> Tags]
              /\ ctx \in [Requests -> Tags]
              /\ access \in [Requests -> Seq(Statuses \X Tags)]
              /\ tags \in [Requests -> SUBSET Tags]
              /\ response \in [Requests -> [status : Statuses, header : Tags]]

Typed == DbTyped /\ StageTyped /\ PoolTyped /\ ListTyped /\ TraceTyped

LEMMA TypedInit == Init => Typed
<1> SUFFICES ASSUME Init PROVE Typed
  OBVIOUS
<1>1. DbTyped /\ ListTyped
  BY UserRequestAssumption DEF Init, DbTyped, ListTyped
<1>2. StageTyped
  BY DEF Init, StageTyped, Places
<1>3. PoolTyped
  BY UserRequestAssumption, FS_EmptySet DEF Init, PoolTyped
<1>4. TraceTyped
  BY DEF Init, TraceTyped, Tags, Statuses
<1>5. QED
  BY <1>1, <1>2, <1>3, <1>4 DEF Typed

(* What the endpoint can come to, with a status each. *)
LEMMA StatusKnown ==
    ASSUME StageTyped, NEW r \in Requests, pc[r] = "leaving"
    PROVE  StatusOf[outcome[r]] \in Statuses
<1>1. outcome[r] \in DOMAIN StatusOf
  BY DEF StageTyped
<1>2. QED
  BY <1>1 DEF StatusOf, Statuses

LEMMA StageEnd ==
    ASSUME StageTyped, NEW r \in Requests, NEW what \in DOMAIN StatusOf, End(r, what)
    PROVE  StageTyped'
<1>1. what # "none"
  BY DEF StatusOf
<1>2. /\ pc' \in [Requests -> Places]
      /\ outcome' \in [Requests -> {"none"} \cup DOMAIN StatusOf]
  BY DEF StageTyped, End, Goto, Places
<1>3. ASSUME NEW q \in Requests, pc'[q] = "leaving" PROVE outcome'[q] # "none"
  BY <1>1, <1>3 DEF StageTyped, End, Goto
<1>4. QED
  BY <1>2, <1>3 DEF StageTyped

LEMMA StageMove ==
    ASSUME StageTyped, NEW r \in Requests, NEW where \in Places \ {"leaving"}, Goto(r, where),
           UNCHANGED outcome
    PROVE  StageTyped'
BY DEF StageTyped, Goto

LEMMA StageStep == Typed /\ [Next]_vars => StageTyped'
<1> SUFFICES ASSUME StageTyped, [Next]_vars PROVE StageTyped'
  BY DEF Typed
<1>1. ASSUME NEW r \in Requests,
             Refuse(r) \/ CheckOutFails(r) \/ GetUser(r) \/ CountRows(r) \/ QueryFails(r)
      PROVE  StageTyped'
  <2>1. PICK what \in DOMAIN StatusOf : End(r, what)
    BY <1>1 DEF Refuse, CheckOutFails, GetUser, CountRows, QueryFails, StatusOf
  <2>2. QED
    BY <2>1, StageEnd
<1>2. ASSUME NEW r \in Requests,
             Dispatch(r) \/ CheckOut(r) \/ ListRows(r) \/ Respond(r) \/ Unwind(r)
               \/ UnhandledException(r)
      PROVE  StageTyped'
  BY <1>2, StageMove DEF Dispatch, CheckOut, ListRows, Respond, Unwind, UnhandledException,
                         Places, Inside
<1>3. CASE WriteTable \/ UNCHANGED vars
  BY <1>3 DEF WriteTable, vars, StageTyped
<1>4. ASSUME NEW r \in Requests, CloseSession(r) PROVE StageTyped'
  BY <1>4 DEF CloseSession, StageTyped, StatusOf
<1>5. QED
  BY <1>1, <1>2, <1>3, <1>4 DEF Next, Progress

(* A session takes at most one connection, and only while one is free. *)
LEMMA PoolStep == Typed /\ [Next]_vars => PoolTyped'
<1> SUFFICES ASSUME PoolTyped, [Next]_vars PROVE PoolTyped'
  BY DEF Typed
<1>1. IsFiniteSet(conn) /\ Cardinality(conn) \in Nat /\ PoolLimit \in Nat
  BY UserRequestAssumption, FS_Subset, FS_CardinalityType DEF PoolTyped
<1>2. ASSUME NEW r \in Requests, CheckOut(r) PROVE PoolTyped'
  <2>1. conn' = conn \cup {r} /\ Cardinality(conn) < PoolLimit
    BY <1>2 DEF CheckOut
  <2>2. Cardinality(conn') <= Cardinality(conn) + 1
    <3>1. CASE r \in conn
      <4>1. conn' = conn
        BY <2>1, <3>1
      <4>2. QED
        BY <1>1, <4>1
    <3>2. CASE r \notin conn
      <4>1. Cardinality(conn \cup {r}) = Cardinality(conn) + 1
        BY <1>1, <3>2, FS_AddElement
      <4>2. QED
        BY <1>1, <2>1, <4>1
    <3>3. QED
      BY <3>1, <3>2
  <2>3. Cardinality(conn') \in Nat
    BY <1>1, <2>1, FS_AddElement, FS_CardinalityType
  <2>4. QED
    BY <1>1, <2>1, <2>2, <2>3 DEF PoolTyped
<1>3. ASSUME conn' \subseteq conn PROVE PoolTyped'
  <2>1. IsFiniteSet(conn') /\ Cardinality(conn') <= Cardinality(conn)
    BY <1>1, <1>3, FS_Subset
  <2>2. Cardinality(conn') \in Nat
    BY <2>1, FS_CardinalityType
  <2>3. QED
    BY <1>1, <1>3, <2>1, <2>2 DEF PoolTyped
<1>4. ASSUME NEW r \in Requests,
             Dispatch(r) \/ Refuse(r) \/ CheckOutFails(r) \/ GetUser(r) \/ ListRows(r)
               \/ CountRows(r) \/ QueryFails(r) \/ CloseSession(r) \/ Respond(r)
               \/ Unwind(r) \/ UnhandledException(r)
      PROVE  conn' \subseteq conn
  BY <1>4 DEF Dispatch, Refuse, CheckOutFails, GetUser, ListRows, CountRows, QueryFails,
              CloseSession, Respond, Unwind, UnhandledException
<1>5. ASSUME WriteTable \/ UNCHANGED vars PROVE conn' \subseteq conn
  BY <1>5 DEF WriteTable, vars
<1>6. QED
  BY <1>2, <1>3, <1>4, <1>5 DEF Next, Progress

LEMMA PageBound ==
    ASSUME NEW n \in 0..MaxUsers, NEW o \in 0..MaxUsers PROVE Page(n, o) \in 0..Limit
BY UserRequestAssumption DEF Page

LEMMA ListStep == Typed /\ [Next]_vars => DbTyped' /\ ListTyped'
<1> SUFFICES ASSUME DbTyped, ListTyped, [Next]_vars PROVE DbTyped' /\ ListTyped'
  BY DEF Typed
<1>1. ASSUME NEW r \in Requests, CheckOut(r) PROVE DbTyped' /\ ListTyped'
  BY <1>1 DEF CheckOut, db, list, DbTyped, ListTyped
<1>2. ASSUME NEW r \in Requests, ListRows(r) PROVE DbTyped' /\ ListTyped'
  <2>1. Page(table, offset[r]) \in 0..Limit
    BY PageBound DEF DbTyped, ListTyped
  <2>2. QED
    BY <1>2, <2>1 DEF ListRows, db, DbTyped, ListTyped
<1>3. ASSUME NEW r \in Requests, CountRows(r) PROVE DbTyped' /\ ListTyped'
  BY <1>3 DEF CountRows, End, db, DbTyped, ListTyped
<1>4. ASSUME NEW r \in Requests,
             Dispatch(r) \/ Refuse(r) \/ CheckOutFails(r) \/ GetUser(r)
               \/ QueryFails(r) \/ CloseSession(r) \/ Respond(r)
               \/ Unwind(r) \/ UnhandledException(r)
      PROVE  DbTyped' /\ ListTyped'
  <2>1. UNCHANGED <<db, list>>
    BY <1>4 DEF Dispatch, Refuse, CheckOutFails, GetUser, QueryFails, CloseSession, Respond,
                Unwind, UnhandledException, End
  <2>2. QED
    BY <2>1 DEF db, list, DbTyped, ListTyped
<1>5. CASE WriteTable
  BY <1>5, UserRequestAssumption DEF WriteTable, DbTyped, ListTyped
<1>6. CASE UNCHANGED vars
  BY <1>6 DEF vars, db, list, DbTyped, ListTyped
<1>7. QED
  BY <1>1, <1>2, <1>3, <1>4, <1>5, <1>6 DEF Next, Progress

(* The access line a middleware appends. *)
LEMMA LineTyped ==
    ASSUME TraceTyped, NEW r \in Requests, NEW status \in Statuses, AccessLine(r, status)
    PROVE  access' \in [Requests -> Seq(Statuses \X Tags)]
<1>1. access[r] \in Seq(Statuses \X Tags) /\ <<status, ctx[r]>> \in Statuses \X Tags
  BY DEF TraceTyped
<1>2. Append(access[r], <<status, ctx[r]>>) \in Seq(Statuses \X Tags)
  BY <1>1
<1>3. QED
  BY <1>2 DEF TraceTyped, AccessLine

LEMMA TraceStep == Typed /\ [Next]_vars => TraceTyped'
<1> SUFFICES ASSUME StageTyped, TraceTyped, [Next]_vars PROVE TraceTyped'
  BY DEF Typed
<1>1. ASSUME NEW r \in Requests, Dispatch(r) PROVE TraceTyped'
  BY <1>1 DEF Dispatch, TraceTyped, Tags
<1>2. ASSUME NEW r \in Requests, Log(r) PROVE tags' \in [Requests -> SUBSET Tags]
  BY <1>2 DEF Log, TraceTyped
<1>3. ASSUME NEW r \in Requests, Respond(r) PROVE TraceTyped'
  <2>1. StatusOf[outcome[r]] \in Statuses
    BY <1>3, StatusKnown DEF Respond
  <2>2. access' \in [Requests -> Seq(Statuses \X Tags)]
    BY <1>3, <2>1, LineTyped DEF Respond
  <2>3. [status |-> StatusOf[outcome[r]], header |-> ctx[r]] \in [status : Statuses, header : Tags]
    BY <2>1 DEF TraceTyped
  <2>4. response' \in [Requests -> [status : Statuses, header : Tags]]
    BY <1>3, <2>3 DEF Respond, TraceTyped
  <2>5. ctx' \in [Requests -> Tags]
    BY <1>3 DEF Respond, TraceTyped, Tags
  <2>6. QED
    BY <1>2, <1>3, <2>2, <2>4, <2>5 DEF Respond, TraceTyped
<1>4. ASSUME NEW r \in Requests, Unwind(r) PROVE TraceTyped'
  <2>1. access' \in [Requests -> Seq(Statuses \X Tags)]
    BY <1>4, LineTyped DEF Unwind, Statuses
  <2>2. ctx' \in [Requests -> Tags]
    BY <1>4 DEF Unwind, TraceTyped, Tags
  <2>3. QED
    BY <1>2, <1>4, <2>1, <2>2 DEF Unwind, TraceTyped
<1>5. ASSUME NEW r \in Requests, UnhandledException(r) PROVE TraceTyped'
  <2>1. [status |-> 500, header |-> "-"] \in [status : Statuses, header : Tags]
    BY DEF Statuses, Tags
  <2>2. response' \in [Requests -> [status : Statuses, header : Tags]]
    BY <1>5, <2>1 DEF UnhandledException, TraceTyped
  <2>3. QED
    BY <1>2, <1>5, <2>2 DEF UnhandledException, TraceTyped
<1>6. ASSUME NEW r \in Requests,
             Refuse(r) \/ CheckOut(r) \/ CheckOutFails(r) \/ GetUser(r) \/ ListRows(r)
               \/ CountRows(r) \/ QueryFails(r)
      PROVE  TraceTyped'
  <2>1. UNCHANGED trace
    BY <1>6 DEF Refuse, CheckOut, CheckOutFails, GetUser, ListRows, CountRows, QueryFails, End
  <2>2. QED
    BY <2>1 DEF trace, TraceTyped
<1>7. CASE WriteTable \/ UNCHANGED vars
  BY <1>7 DEF WriteTable, vars, trace, TraceTyped
<1>8. ASSUME NEW r \in Requests, CloseSession(r) PROVE TraceTyped'
  <2>1. tags' \in [Requests -> SUBSET Tags]
    BY <1>2, <1>8 DEF CloseSession, TraceTyped
  <2>2. QED
    BY <1>8, <2>1 DEF CloseSession, TraceTyped
<1>9. QED
  BY <1>1, <1>3, <1>4, <1>5, <1>6, <1>7, <1>8 DEF Next, Progress

(* The module is type correct: in particular the sessions of concurrent     *)
(* requests never hold more connections than the pool has, whichever way    *)
(* each of them ends, and every page has at most Limit rows.                *)
THEOREM TypeCorrect == Spec => []TypeOK
<1>1. Typed => TypeOK
  BY DEF Typed, DbTyped, StageTyped, PoolTyped, ListTyped, TraceTyped, TypeOK, Tags, Places
<1>2. Typed /\ [Next]_vars => Typed'
  BY StageStep, PoolStep, ListStep, TraceStep DEF Typed
<1>3. QED
  BY <1>1, <1>2, TypedInit, PTL DEF Spec

-----------------------------------------------------------------------------
(***************************************************************************)
(* Connections.                                                            *)
(***************************************************************************)
Queries == {"reading", "listing", "counting"}

(* A query runs on the connection of its own request. It is held from the   *)
(* first query until get_db() is left, and an answer that reports an error  *)
(* never leaves while its connection is still out of the pool: what a       *)
(* client repeats after an error meets a pool without the first attempt.    *)
ConnectionsAccounted ==
    /\ \A r \in Requests : pc[r] \in Queries => r \in conn
    /\ \A r \in conn : /\ pc[r] \in Queries \cup {"leaving", "answered"}
                       /\ pc[r] = "answered" => outcome[r] = "ok"

HeldInv == /\ Shape
           /\ conn \subseteq Requests
           /\ ConnectionsAccounted

LEMMA HeldInit == Init => HeldInv
BY LogInit DEF Init, HeldInv, LogInv, ConnectionsAccounted, Queries

(* A step that moves one request and leaves the pool alone.                 *)
LEMMA HeldMove ==
    ASSUME HeldInv, NEW r \in Requests, NEW where, Shape',
           pc' = [pc EXCEPT ![r] = where], UNCHANGED conn,
           \A q \in Requests \ {r} : outcome'[q] = outcome[q],
           where \in Queries => r \in conn,
           r \in conn => /\ where \in Queries \cup {"leaving", "answered"}
                         /\ where = "answered" => outcome'[r] = "ok"
    PROVE  HeldInv'
<1>1. \A q \in Requests : pc'[q] = IF q = r THEN where ELSE pc[q]
  BY DEF HeldInv, Shape
<1>2. QED
  BY <1>1 DEF HeldInv, ConnectionsAccounted

LEMMA HeldStep == HeldInv /\ Shape' /\ [Next]_vars => HeldInv'
<1> SUFFICES ASSUME HeldInv, Shape', [Next]_vars PROVE HeldInv'
  OBVIOUS
<1>0. /\ outcome \in [Requests -> {"none"} \cup DOMAIN StatusOf]
      /\ \A r \in Requests : pc[r] \in Queries => r \in conn
      /\ \A r \in conn : pc[r] \in Queries \cup {"leaving", "answered"}
  BY DEF HeldInv, Shape, ConnectionsAccounted
<1> USE DEF Goto, End, Queries
<1>1. ASSUME NEW r \in Requests, Dispatch(r) PROVE HeldInv'
  BY <1>0, <1>1, HeldMove DEF Dispatch
<1>2. ASSUME NEW r \in Requests, Refuse(r) PROVE HeldInv'
  BY <1>0, <1>2, HeldMove DEF Refuse
<1>3. ASSUME NEW r \in Requests, CheckOut(r) PROVE HeldInv'
  <2>1. /\ conn' = conn \cup {r} /\ pc'[r] \in {"reading", "listing"}
        /\ outcome' = outcome
        /\ \A q \in Requests \ {r} : pc'[q] = pc[q]
    BY <1>3 DEF CheckOut, HeldInv, Shape
  <2>2. QED
    BY <2>1 DEF HeldInv, ConnectionsAccounted
<1>4. ASSUME NEW r \in Requests, CheckOutFails(r) PROVE HeldInv'
  BY <1>0, <1>4, HeldMove DEF CheckOutFails
<1>5. ASSUME NEW r \in Requests, GetUser(r) PROVE HeldInv'
  BY <1>0, <1>5, HeldMove DEF GetUser
<1>6. ASSUME NEW r \in Requests, ListRows(r) PROVE HeldInv'
  BY <1>0, <1>6, HeldMove DEF ListRows
<1>7. ASSUME NEW r \in Requests, CountRows(r) PROVE HeldInv'
  BY <1>0, <1>7, HeldMove DEF CountRows
<1>8. ASSUME NEW r \in Requests, QueryFails(r) PROVE HeldInv'
  BY <1>0, <1>8, HeldMove DEF QueryFails
<1>9. ASSUME NEW r \in Requests, CloseSession(r) PROVE HeldInv'
  <2>1. conn' = conn \ {r} /\ pc' = pc
    BY <1>9 DEF CloseSession
  <2>2. pc[r] \in {"leaving", "answered"}
    BY <1>9 DEF CloseSession
  <2>3. \A q \in Requests \ {r} : outcome'[q] = outcome[q]
    BY <1>0, <1>9 DEF CloseSession
  <2>4. QED
    BY <2>1, <2>2, <2>3 DEF HeldInv, ConnectionsAccounted
<1>10. ASSUME NEW r \in Requests, Respond(r) PROVE HeldInv'
  BY <1>0, <1>10, HeldMove DEF Respond
<1>11. ASSUME NEW r \in Requests, Unwind(r) PROVE HeldInv'
  BY <1>0, <1>11, HeldMove DEF Unwind
<1>12. ASSUME NEW r \in Requests, UnhandledException(r) PROVE HeldInv'
  <2>1. r \notin conn
    BY <1>0, <1>12 DEF UnhandledException
  <2>2. QED
    BY <1>12, <2>1, HeldMove DEF UnhandledException
<1>13. CASE WriteTable \/ UNCHANGED vars
  BY <1>13 DEF WriteTable, vars, HeldInv, ConnectionsAccounted
<1>14. QED
  BY <1>1, <1>2, <1>3, <1>4, <1>5, <1>6, <1>7, <1>8, <1>9, <1>10, <1>11, <1>12, <1>13
  DEF Next, Progress

(* For any requests and any pool: no error keeps a connection.              *)
THEOREM ErrorsKeepNoConnection == Spec => []ConnectionsAccounted
<1>1. HeldInv => ConnectionsAccounted
  BY DEF HeldInv
<1>2. LogInv => Shape
  BY DEF LogInv
<1>3. QED
  BY <1>1, <1>2, LogInit, LogInductive, HeldInit, HeldStep, PTL DEF Spec

-----------------------------------------------------------------------------
(***************************************************************************)
(* The request id, exactly: what of README.md:66 is true, and of which     *)
(* requests it is not.                                                     *)
(***************************************************************************)
(* A request that came to anything but an unhandled exception gets the      *)
(* status of its outcome and its id back, and all its lines carry it, but   *)
(* for one about a session that could not be closed after a good answer.    *)
(* After an unhandled exception the response has no id, and of the lines    *)
(* the access line alone has it.                                            *)
AnsweredRight(r) ==
    /\ response[r].status = StatusOf[outcome[r]]
    /\ outcome[r] # "crash" => response[r].header = rid[r]
    /\ outcome[r] \notin {"ok", "crash"} => tags[r] = {rid[r]}
    /\ outcome[r] = "ok" => tags[r] \in {{rid[r]}, {rid[r], "-"}}
    /\ outcome[r] = "crash" => response[r].header = "-" /\ tags[r] = {rid[r], "-"}

IdUnlessCrash == \A r \in Requests : pc[r] = "answered" => AnsweredRight(r)

(* Before the way out nothing is logged; between the middlewares and the    *)
(* outermost handler an exception is on its way.                            *)
Traced(r) ==
    /\ pc[r] \in {"new", "raised", "answered"} => ctx[r] = "-"
    /\ pc[r] # "answered" => response[r].header = "-"
    /\ pc[r] \in Inside \cup {"new", "leaving"} => tags[r] = {}
    /\ pc[r] = "raised" => outcome[r] = "crash" /\ tags[r] = {rid[r]}

TraceInv == /\ LogInv
            /\ HeldInv
            /\ tags = [r \in Requests |-> tags[r]]
            /\ \A r \in Requests : Traced(r)
            /\ IdUnlessCrash

LEMMA TraceInit == Init => TraceInv
BY LogInit, HeldInit DEF Init, TraceInv, Traced, IdUnlessCrash, Inside

(* What holds of one request, as far as a step can disturb it.              *)
TracedSoFar(r) ==
    /\ Traced(r)
    /\ pc[r] = "answered" => AnsweredRight(r)

(* A request a step leaves alone.                                           *)
LEMMA TraceKept ==
    ASSUME NEW q \in Requests, TracedSoFar(q),
           pc'[q] = pc[q], outcome'[q] = outcome[q], ctx'[q] = ctx[q],
           rid'[q] = rid[q], tags'[q] = tags[q], response'[q] = response[q]
    PROVE  TracedSoFar(q)'
BY DEF TracedSoFar, Traced, AnsweredRight

(* Steps below the middlewares log nothing and answer nobody.               *)
LEMMA TraceEndpoint ==
    ASSUME TraceInv, NEW r \in Requests,
           Refuse(r) \/ CheckOut(r) \/ CheckOutFails(r) \/ GetUser(r)
             \/ ListRows(r) \/ CountRows(r) \/ QueryFails(r)
    PROVE  /\ tags' = [q \in Requests |-> tags'[q]]
           /\ \A q \in Requests : TracedSoFar(q)'
<1>1. /\ UNCHANGED trace
      /\ pc[r] \in Inside
      /\ \E where \in Inside \cup {"leaving"} : pc' = [pc EXCEPT ![r] = where]
      /\ \A q \in Requests \ {r} : outcome'[q] = outcome[q]
  <2>1. outcome \in [Requests -> {"none"} \cup DOMAIN StatusOf]
    BY DEF TraceInv, LogInv, Shape
  <2>2. CASE Refuse(r)
    BY <2>1, <2>2 DEF Refuse, End, Goto, Inside
  <2>3. CASE CheckOut(r)
    BY <2>1, <2>3 DEF CheckOut, Goto, Inside
  <2>4. CASE CheckOutFails(r)
    BY <2>1, <2>4 DEF CheckOutFails, End, Goto, Inside
  <2>5. CASE GetUser(r)
    BY <2>1, <2>5 DEF GetUser, End, Goto, Inside
  <2>6. CASE ListRows(r)
    BY <2>1, <2>6 DEF ListRows, Goto, Inside, trace
  <2>7. CASE CountRows(r)
    BY <2>1, <2>7 DEF CountRows, End, Goto, Inside
  <2>8. CASE QueryFails(r)
    BY <2>1, <2>8 DEF QueryFails, End, Goto, Inside
  <2>9. QED
    BY <2>2, <2>3, <2>4, <2>5, <2>6, <2>7, <2>8
<1>2. \A q \in Requests : TracedSoFar(q)
  BY DEF TraceInv, TracedSoFar, IdUnlessCrash
<1>3. pc \in [Requests -> Places]
  BY DEF TraceInv, LogInv, Shape
<1>4. TracedSoFar(r)'
  <2>1. pc'[r] \in Inside \cup {"leaving"}
    BY <1>1, <1>3
  <2>2. response[r].header = "-" /\ tags[r] = {}
    BY <1>1, <1>2 DEF TracedSoFar, Traced, Inside
  <2>3. QED
    BY <1>1, <2>1, <2>2 DEF TracedSoFar, Traced, Inside, trace
<1>5. ASSUME NEW q \in Requests \ {r} PROVE TracedSoFar(q)'
  BY <1>1, <1>2, <1>3, <1>5, TraceKept DEF trace
<1>6. QED
  BY <1>1, <1>4, <1>5 DEF TraceInv, trace

LEMMA TraceMiddlewares ==
    ASSUME TraceInv, NEW r \in Requests,
           Dispatch(r) \/ Respond(r) \/ Unwind(r) \/ UnhandledException(r)
    PROVE  /\ tags' = [q \in Requests |-> tags'[q]]
           /\ \A q \in Requests : TracedSoFar(q)'
<1>0. LogInv /\ Shape /\ tags = [q \in Requests |-> tags[q]]
  BY DEF TraceInv, LogInv
<1>1. \A q \in Requests : TracedSoFar(q) /\ Logged(q)
  BY DEF TraceInv, LogInv, TracedSoFar, IdUnlessCrash
<1>2. tags' = [q \in Requests |-> tags'[q]]
  BY <1>0 DEF Dispatch, Respond, Unwind, UnhandledException, Log
<1>3. ASSUME NEW q \in Requests \ {r} PROVE TracedSoFar(q)'
  <2>1. /\ pc'[q] = pc[q] /\ outcome'[q] = outcome[q] /\ ctx'[q] = ctx[q]
        /\ rid'[q] = rid[q] /\ tags'[q] = tags[q] /\ response'[q] = response[q]
    BY <1>0, <1>3 DEF Dispatch, Respond, Unwind, UnhandledException, Log, Goto, Shape
  <2>2. QED
    BY <1>1, <2>1, TraceKept
<1>4. TracedSoFar(r)'
  <2>1. CASE Dispatch(r)
    <3>1. /\ pc'[r] = "inside"
          /\ tags'[r] = tags[r] /\ response'[r] = response[r]
      BY <1>0, <2>1 DEF Dispatch, Goto, Shape
    <3>2. tags[r] = {} /\ response[r].header = "-"
      BY <1>1, <2>1 DEF TracedSoFar, Traced, Dispatch
    <3>3. QED
      BY <3>1, <3>2 DEF TracedSoFar, Traced, Inside
  <2>2. CASE Respond(r)
    <3>1. ctx[r] = rid[r] /\ tags[r] = {}
      BY <1>1, <2>2 DEF TracedSoFar, Traced, Logged, Respond
    <3>2. /\ pc'[r] = "answered" /\ ctx'[r] = "-" /\ outcome'[r] = outcome[r]
          /\ rid' = rid
          /\ tags'[r] = tags[r] \cup {ctx[r]}
          /\ response'[r] = [status |-> StatusOf[outcome[r]], header |-> ctx[r]]
          /\ outcome[r] # "crash"
      BY <1>0, <2>2 DEF Respond, Goto, Log, Shape
    <3>3. response'[r].status = StatusOf[outcome[r]] /\ response'[r].header = rid[r]
      BY <3>1, <3>2
    <3>4. tags'[r] = {rid[r]}
      BY <3>1, <3>2
    <3>5. QED
      BY <3>2, <3>3, <3>4 DEF TracedSoFar, Traced, AnsweredRight, Inside
  <2>3. CASE Unwind(r)
    <3>1. ctx[r] = rid[r] /\ tags[r] = {} /\ response[r].header = "-"
      BY <1>1, <2>3 DEF TracedSoFar, Traced, Logged, Unwind
    <3>2. /\ pc'[r] = "raised" /\ ctx'[r] = "-" /\ outcome'[r] = "crash" /\ rid' = rid
          /\ tags'[r] = tags[r] \cup {ctx[r]} /\ response'[r] = response[r]
      BY <1>0, <2>3 DEF Unwind, Goto, Log, Shape
    <3>3. tags'[r] = {rid[r]}
      BY <3>1, <3>2
    <3>4. QED
      BY <3>1, <3>2, <3>3 DEF TracedSoFar, Traced, Inside
  <2>4. CASE UnhandledException(r)
    <3>1. ctx[r] = "-" /\ tags[r] = {rid[r]} /\ outcome[r] = "crash"
      BY <1>1, <2>4 DEF TracedSoFar, Traced, UnhandledException
    <3>2. /\ pc'[r] = "answered" /\ ctx'[r] = ctx[r] /\ outcome'[r] = outcome[r]
          /\ rid' = rid
          /\ tags'[r] = tags[r] \cup {ctx[r]}
          /\ response'[r] = [status |-> 500, header |-> "-"]
      BY <1>0, <2>4 DEF UnhandledException, Goto, Log, Shape
    <3>3. response'[r].status = StatusOf[outcome'[r]] /\ response'[r].header = "-"
      BY <3>1, <3>2 DEF StatusOf
    <3>4. tags'[r] = {rid[r], "-"}
      BY <3>1, <3>2
    <3>5. QED
      BY <3>1, <3>2, <3>3, <3>4 DEF TracedSoFar, Traced, AnsweredRight, Inside
  <2>5. QED
    BY <2>1, <2>2, <2>3, <2>4
<1>5. QED
  BY <1>2, <1>3, <1>4

(* A session of an answered request is still open only behind a good        *)
(* answer, and only then can its closing leave a line without the id.       *)
LEMMA TraceClose ==
    ASSUME TraceInv, NEW r \in Requests, CloseSession(r)
    PROVE  /\ tags' = [q \in Requests |-> tags'[q]]
           /\ \A q \in Requests : TracedSoFar(q)'
<1>1. /\ Shape /\ tags = [q \in Requests |-> tags[q]]
      /\ \A q \in Requests : TracedSoFar(q)
  BY DEF TraceInv, LogInv, TracedSoFar, IdUnlessCrash
<1>2. UNCHANGED <<pc, rid, ctx, response>>
  BY DEF CloseSession
<1>3. tags' = [q \in Requests |-> tags'[q]]
  BY <1>1 DEF CloseSession, Log
<1>4. ASSUME NEW q \in Requests \ {r} PROVE TracedSoFar(q)'
  <2>1. outcome'[q] = outcome[q] /\ tags'[q] = tags[q]
    BY <1>1, <1>4 DEF CloseSession, Log, Shape
  <2>2. QED
    BY <1>1, <1>2, <2>1, TraceKept
<1>5. TracedSoFar(r)'
  <2>1. CASE UNCHANGED <<outcome, tags>>
    BY <1>1, <1>2, <2>1, TraceKept
  <2>2. CASE pc[r] = "leaving" /\ UNCHANGED tags
    BY <1>1, <1>2, <2>2 DEF TracedSoFar, Traced
  <2>3. CASE pc[r] = "answered" /\ Log(r) /\ UNCHANGED outcome
    <3>1. outcome[r] = "ok" /\ ctx[r] = "-"
      BY <1>1, <2>3 DEF TraceInv, HeldInv, ConnectionsAccounted, CloseSession,
                        TracedSoFar, Traced
    <3>2. tags'[r] = tags[r] \cup {"-"}
      BY <1>1, <2>3, <3>1 DEF Log
    <3>3. tags[r] \in {{rid[r]}, {rid[r], "-"}}
      BY <1>1, <2>3, <3>1 DEF TracedSoFar, AnsweredRight
    <3>4. tags'[r] = {rid[r], "-"}
      BY <3>2, <3>3
    <3>5. QED
      BY <1>1, <1>2, <2>3, <3>1, <3>4 DEF TracedSoFar, Traced, AnsweredRight, Inside
  <2>4. QED
    BY <2>1, <2>2, <2>3 DEF CloseSession
<1>6. QED
  BY <1>3, <1>4, <1>5

LEMMA TraceStepInductive == TraceInv /\ [Next]_vars => TraceInv'
<1> SUFFICES ASSUME TraceInv, [Next]_vars PROVE TraceInv'
  OBVIOUS
<1>0. LogInv' /\ HeldInv'
  BY LogInductive, HeldStep DEF TraceInv, LogInv
<1>1. /\ tags' = [q \in Requests |-> tags'[q]]
      /\ \A q \in Requests : TracedSoFar(q)'
  <2>1. CASE \E r \in Requests : Dispatch(r) \/ Respond(r) \/ Unwind(r) \/ UnhandledException(r)
    BY <2>1, TraceMiddlewares
  <2>2. CASE \E r \in Requests : Refuse(r) \/ CheckOut(r) \/ CheckOutFails(r) \/ GetUser(r)
                                   \/ ListRows(r) \/ CountRows(r) \/ QueryFails(r)
    BY <2>2, TraceEndpoint
  <2>5. CASE \E r \in Requests : CloseSession(r)
    BY <2>5, TraceClose
  <2>3. CASE WriteTable \/ UNCHANGED vars
    <3>1. UNCHANGED <<pc, outcome, trace>>
      BY <2>3 DEF WriteTable, vars
    <3>2. \A q \in Requests : TracedSoFar(q)
      BY DEF TraceInv, TracedSoFar, IdUnlessCrash
    <3>3. QED
      BY <3>1, <3>2, TraceKept DEF TraceInv, trace
  <2>4. QED
    BY <2>1, <2>2, <2>3, <2>5 DEF Next, Progress
<1>2. QED
  BY <1>0, <1>1 DEF TraceInv, TracedSoFar, IdUnlessCrash

(* The status is that of the outcome; the id reaches the client exactly if  *)
(* no exception was left unhandled before its answer, and then also every   *)
(* line of the log that is not about closing its session later.             *)
THEOREM IdReachesUnlessCrash == Spec => []IdUnlessCrash
<1>1. TraceInv => IdUnlessCrash
  BY DEF TraceInv
<1>2. QED
  BY <1>1, TraceInit, TraceStepInductive, PTL DEF Spec
=============================================================================
