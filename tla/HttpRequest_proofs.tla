------------------------- MODULE HttpRequest_proofs -------------------------
(***************************************************************************)
(* Proofs about HttpRequest, for every set of concurrent calls, every      *)
(* retry budget and any number of clients.                                 *)
(*                                                                         *)
(* What the safety properties need is the bookkeeping between the loop's   *)
(* counter and what httpx was handed: the local attempt is one behind the  *)
(* attempts handed over while a call is in flight or asleep, and only a    *)
(* call that may retry ever sleeps. The backoff is a sum of powers of two; the provers know no *)
(* arithmetic of powers, so what is needed of them is proved from their    *)
(* recursion.                                                              *)
(***************************************************************************)
EXTENDS HttpRequest, WellFoundedInduction, TLAPS

(* Counting the attempts of a call. *)
Counted(r) ==
    /\ pc[r] = "idle" => attempt[r] = 0 /\ sends[r] = 0 /\ executed[r] = 0
    /\ pc[r] \in {"in_flight", "backoff"} => sends[r] = attempt[r] + 1
    /\ pc[r] = "in_flight" => executed[r] <= attempt[r]
    /\ pc[r] = "backoff" => r \in Idempotent /\ attempt[r] < MaxRetries
    /\ executed[r] <= sends[r]
    /\ r \notin Idempotent => attempt[r] = 0 /\ sends[r] <= 1
    /\ result[r] = "gave_up" => sends[r] = Allowed(r)

CountInv == \A r \in Requests : Counted(r)

(* Who may still send on which client. *)
PoolInv == /\ client <= built
           /\ closing # 0 => client \in closed
           /\ OpenClientIsCurrent

IInv == TypeOK /\ CountInv /\ PoolInv

-----------------------------------------------------------------------------
(***************************************************************************)
(* The powers of two. The model defines them by recursion, as the code's   *)
(* ** does; that the recursion has a solution, and what it is worth, is    *)
(* proved by induction: a set of numbers that holds 0 and the successor of *)
(* each of its members holds them all.                                     *)
(***************************************************************************)
LEMMA Induct ==
  ASSUME NEW S \in SUBSET Nat, 0 \in S, \A n \in S : n + 1 \in S
  PROVE  S = Nat
<1> DEFINE R == OpToRel(<, Nat)
           T == Nat \ S
<1>1. IsWellFoundedOn(R, Nat)
  BY NatLessThanWellFounded
<1>2. \A a, b \in Nat : <<a, b>> \in R <=> a < b
  BY DEF OpToRel
<1>3. SUFFICES ASSUME T # {} PROVE FALSE
  OBVIOUS
<1>4. T \subseteq Nat
  OBVIOUS
<1> HIDE DEF R
<1>5. PICK n \in T : \A m \in T : ~ (<<m, n>> \in R)
  BY <1>1, <1>3, <1>4, WFMin
<1>6. n \in Nat /\ n # 0
  BY <1>4
<1>7. n - 1 \in Nat /\ n - 1 < n /\ (n - 1) + 1 = n
  BY <1>6
<1>8. n - 1 \in S
  BY <1>2, <1>5, <1>6, <1>7
<1>9. QED  BY <1>7, <1>8

(* The powers 0 to n, as a function. *)
PowersTo(n) == {g \in [0..n -> Nat] : /\ g[0] = 1
                                      /\ \A i \in 1..n : g[i] = 2 * g[i - 1]}

LEMMA PowersToAny ==
  ASSUME NEW n \in Nat
  PROVE  PowersTo(n) # {}
<1> DEFINE S == {m \in Nat : PowersTo(m) # {}}
<1>1. 0 \in S
  <2>1. [i \in 0..0 |-> 1] \in PowersTo(0)
    BY DEF PowersTo
  <2>2. QED  BY <2>1
<1>2. ASSUME NEW m \in S PROVE m + 1 \in S
  <2>1. m \in Nat /\ PowersTo(m) # {}
    BY <1>2
  <2>2. PICK g \in PowersTo(m) : TRUE
    BY <2>1
  <2>3. /\ g \in [0..m -> Nat] /\ g[0] = 1
        /\ \A i \in 1..m : g[i] = 2 * g[i - 1]
    BY <2>2 DEF PowersTo
  <2> DEFINE h == [i \in 0..(m + 1) |-> IF i = m + 1 THEN 2 * g[m] ELSE g[i]]
  <2>4. g[m] \in Nat
    BY <2>1, <2>3
  <2>5. 2 * g[m] \in Nat
    BY <2>4
  <2>6. h \in [0..(m + 1) -> Nat]
    <3>1. ASSUME NEW i \in 0..(m + 1) PROVE (IF i = m + 1 THEN 2 * g[m] ELSE g[i]) \in Nat
      BY <2>1, <2>3, <2>5
    <3>2. QED  BY <3>1
  <2>7. h[0] = 1
    BY <2>1, <2>3
  <2>8. ASSUME NEW i \in 1..(m + 1) PROVE h[i] = 2 * h[i - 1]
    <3>1. CASE i = m + 1
      <4>1. i - 1 = m /\ i - 1 \in 0..(m + 1) /\ i \in 0..(m + 1) /\ m # m + 1
        BY <2>1, <3>1
      <4>2. QED  BY <3>1, <4>1
    <3>2. CASE i # m + 1
      <4>1. /\ i \in 1..m /\ i \in 0..(m + 1)
            /\ i - 1 \in 0..(m + 1) /\ i - 1 # m + 1
        BY <2>1, <3>2
      <4>2. h[i] = g[i] /\ h[i - 1] = g[i - 1]
        BY <4>1, <3>2
      <4>3. QED  BY <2>3, <4>1, <4>2
    <3>3. QED  BY <3>1, <3>2
  <2> HIDE DEF h
  <2>9. h \in PowersTo(m + 1)
    BY <2>6, <2>7, <2>8 DEF PowersTo
  <2>10. QED  BY <2>1, <2>9
<1>3. S = Nat
  <2>1. S \in SUBSET Nat
    OBVIOUS
  <2> HIDE DEF S
  <2>2. QED  BY <1>1, <1>2, <2>1, Induct
<1>4. QED  BY <1>3

(* Two of them agree wherever both are defined. *)
LEMMA PowersToAgree ==
  ASSUME NEW n \in Nat, NEW g \in PowersTo(n), NEW m \in Nat, NEW h \in PowersTo(m),
         NEW i \in 0..n, i <= m
  PROVE  g[i] = h[i]
<1> DEFINE S == {k \in Nat : k <= n /\ k <= m => g[k] = h[k]}
<1>1. 0 \in S
  BY DEF PowersTo
<1>2. ASSUME NEW k \in S PROVE k + 1 \in S
  <2>1. SUFFICES ASSUME k + 1 <= n, k + 1 <= m PROVE g[k + 1] = h[k + 1]
    BY <1>2
  <2>2. k \in Nat /\ k + 1 \in 1..n /\ k + 1 \in 1..m /\ (k + 1) - 1 = k /\ k <= n /\ k <= m
    BY <1>2, <2>1
  <2>3. g[k] = h[k]
    BY <1>2, <2>2
  <2>4. g[k + 1] = 2 * g[k] /\ h[k + 1] = 2 * h[k]
    BY <2>2 DEF PowersTo
  <2>5. QED  BY <2>3, <2>4
<1>3. S = Nat
  <2>1. S \in SUBSET Nat
    OBVIOUS
  <2> HIDE DEF S
  <2>2. QED  BY <1>1, <1>2, <2>1, Induct
<1>4. i \in Nat /\ i <= n
  OBVIOUS
<1>5. QED  BY <1>3, <1>4

(* So the recursion of 2 ** n has a solution, and TLA+ chooses it. *)
LEMMA Pow2Recursion ==
  Pow2 = [n \in Nat |-> IF n = 0 THEN 1 ELSE 2 * Pow2[n - 1]]
<1> DEFINE Table(n)  == CHOOSE g : g \in PowersTo(n)
           Double(f) == [n \in Nat |-> IF n = 0 THEN 1 ELSE 2 * f[n - 1]]
           power     == [n \in Nat |-> Table(n)[n]]
<1>1. ASSUME NEW n \in Nat PROVE Table(n) \in PowersTo(n)
  BY PowersToAny
<1>2. power = Double(power)
  <2>1. ASSUME NEW n \in Nat
        PROVE  Table(n)[n] = IF n = 0 THEN 1 ELSE 2 * power[n - 1]
    <3>1. CASE n = 0
      <4>1. Table(n) \in PowersTo(n)
        BY <1>1
      <4> HIDE DEF Table, power
      <4>2. Table(n)[n] = 1
        BY <3>1, <4>1 DEF PowersTo
      <4>3. QED  BY <3>1, <4>2
    <3>2. CASE n # 0
      <4>1. n - 1 \in Nat /\ n \in 1..n /\ n - 1 \in 0..n /\ n - 1 <= n - 1
        BY <3>2
      <4>2. Table(n)[n] = 2 * Table(n)[n - 1]
        <5>1. Table(n) \in PowersTo(n)
          BY <1>1
        <5> HIDE DEF Table
        <5>2. QED  BY <4>1, <5>1 DEF PowersTo
      <4>3. Table(n)[n - 1] = Table(n - 1)[n - 1]
        <5>1. Table(n) \in PowersTo(n) /\ Table(n - 1) \in PowersTo(n - 1)
          BY <1>1, <4>1
        <5> HIDE DEF Table
        <5>2. QED  BY <4>1, <5>1, PowersToAgree
      <4>4. power[n - 1] = Table(n - 1)[n - 1]
        BY <4>1
      <4> HIDE DEF Table, power
      <4>5. QED  BY <3>2, <4>2, <4>3, <4>4
    <3>3. QED  BY <3>1, <3>2
  <2> HIDE DEF Table
  <2>2. power = [n \in Nat |-> IF n = 0 THEN 1 ELSE 2 * power[n - 1]]
    BY <2>1
  <2>3. QED  BY <2>2
<1>3. Pow2 = CHOOSE f : f = Double(f)
  BY DEF Pow2
<1> HIDE DEF power, Double
<1>4. Pow2 = Double(Pow2)
  BY <1>2, <1>3
<1>5. QED  BY <1>4 DEF Double

LEMMA PowerOfZero == Pow2[0] = 1
BY Pow2Recursion

(* The backoff of an attempt is a natural number of units. *)
LEMMA BackoffIsNat ==
  ASSUME NEW n \in Nat
  PROVE  Pow2[n] \in Nat
<1> DEFINE S == {m \in Nat : Pow2[m] \in Nat}
<1>1. 0 \in S
  BY PowerOfZero
<1>2. ASSUME NEW m \in S PROVE m + 1 \in S
  <2>1. m + 1 \in Nat /\ m + 1 # 0 /\ (m + 1) - 1 = m /\ Pow2[m] \in Nat
    BY <1>2
  <2>2. Pow2[m + 1] = 2 * Pow2[m]
    BY <2>1, Pow2Recursion
  <2>3. QED  BY <2>1, <2>2
<1>3. S = Nat
  <2>1. S \in SUBSET Nat
    OBVIOUS
  <2> HIDE DEF S
  <2>2. QED  BY <1>1, <1>2, <2>1, Induct
<1>4. QED  BY <1>3

LEMMA PowerDoubles ==
  ASSUME NEW n \in Nat
  PROVE  Pow2[n + 1] = Pow2[n] + Pow2[n]
<1>1. n + 1 \in Nat /\ n + 1 # 0 /\ (n + 1) - 1 = n
  OBVIOUS
<1>2. Pow2[n + 1] = 2 * Pow2[n]
  BY <1>1, Pow2Recursion
<1>3. QED  BY <1>2, BackoffIsNat

LEMMA PowerGrows ==
  ASSUME NEW m \in Nat, NEW n \in Nat, m <= n
  PROVE  Pow2[m] <= Pow2[n]
<1> DEFINE S == {k \in Nat : Pow2[m] <= Pow2[m + k]}
<1>1. 0 \in S
  <2>1. m + 0 = m /\ Pow2[m] \in Nat
    BY BackoffIsNat
  <2>2. QED  BY <2>1
<1>2. ASSUME NEW k \in S PROVE k + 1 \in S
  <2>1. k \in Nat /\ m + k \in Nat /\ (m + k) + 1 = m + (k + 1) /\ Pow2[m] <= Pow2[m + k]
    BY <1>2
  <2>2. Pow2[m] \in Nat /\ Pow2[m + k] \in Nat
    BY <2>1, BackoffIsNat
  <2>3. Pow2[m + (k + 1)] = Pow2[m + k] + Pow2[m + k]
    BY <2>1, PowerDoubles
  <2>4. Pow2[m] <= Pow2[m + (k + 1)]
    BY <2>1, <2>2, <2>3
  <2>5. QED  BY <2>1, <2>4
<1>3. S = Nat
  <2>1. S \in SUBSET Nat
    OBVIOUS
  <2> HIDE DEF S
  <2>2. QED  BY <1>1, <1>2, <2>1, Induct
<1>4. n - m \in Nat /\ m + (n - m) = n
  OBVIOUS
<1>5. n - m \in S
  BY <1>3, <1>4
<1>6. QED  BY <1>4, <1>5

-----------------------------------------------------------------------------
(* The inductive invariant. *)
LEMMA InitIInv == Init => IInv
<1> SUFFICES ASSUME Init PROVE IInv
  OBVIOUS
<1>1. TypeOK
  BY HttpAssumption DEF Init, TypeOK, Clients, Results
<1>2. CountInv
  <2> SUFFICES ASSUME NEW r \in Requests PROVE Counted(r)
    BY DEF CountInv
  <2>1. QED  BY DEF Init, Counted
<1>3. PoolInv
  BY DEF Init, PoolInv, OpenClientIsCurrent
<1>4. QED  BY <1>1, <1>2, <1>3 DEF IInv

(* A call's own steps keep the types. *)
LEMMA TypeStep == IInv /\ [Next]_vars => TypeOK'
<1> SUFFICES ASSUME IInv, [Next]_vars PROVE TypeOK'
  OBVIOUS
<1> USE HttpAssumption DEF TypeOK, Clients, Results
<1>1. ASSUME NEW r \in Requests, Start(r) PROVE TypeOK'
  <2>1. client' \in 0..MaxClients /\ built' \in 0..MaxClients
    BY <1>1 DEF IInv, Start
  <2>2. sends[r] + 1 \in 0..(MaxRetries + 1)
    BY <1>1 DEF IInv, CountInv, Counted, Start
  <2>3. /\ pc' \in [Requests -> {"idle", "in_flight", "backoff", "done"}]
        /\ sends' \in [Requests -> 0..(MaxRetries + 1)]
        /\ result' \in [Requests -> Results]
    BY <1>1, <2>2 DEF IInv, Start, Send, Finish
  <2>4. bound' \in [Requests -> 0..MaxClients]
    BY <1>1, <2>1 DEF IInv, Start
  <2>5. QED  BY <1>1, <2>1, <2>3, <2>4 DEF IInv, Start
<1>2. ASSUME NEW r \in Requests, Success(r) \/ FinalStatus(r) \/ OtherError(r)
      PROVE  TypeOK'
  <2>1. executed[r] + 1 \in 0..(MaxRetries + 1) /\ executed[r] + 0 \in 0..(MaxRetries + 1)
    BY <1>2 DEF IInv, CountInv, Counted, Success, FinalStatus, OtherError, answering
  <2>2. executed' \in [Requests -> 0..(MaxRetries + 1)]
    BY <1>2, <2>1 DEF IInv, Success, FinalStatus, OtherError, MaybeExecuted
  <2>3. /\ pc' \in [Requests -> {"idle", "in_flight", "backoff", "done"}]
        /\ result' \in [Requests -> Results]
    BY <1>2 DEF IInv, Success, FinalStatus, OtherError, Finish
  <2>4. QED
    BY <1>2, <2>2, <2>3
    DEF IInv, Success, FinalStatus, OtherError, answering, pool
<1>3. ASSUME NEW r \in Requests, TransportError(r) \/ RetryStatus(r)
      PROVE  TypeOK'
  <2>1. Pow2[attempt[r]] \in Nat
    BY BackoffIsNat DEF IInv
  <2>2. executed' \in [Requests -> 0..(MaxRetries + 1)]
    <3>1. executed[r] + 1 \in 0..(MaxRetries + 1) /\ executed[r] + 0 \in 0..(MaxRetries + 1)
      BY <1>3 DEF IInv, CountInv, Counted, TransportError, RetryStatus, answering
    <3>2. QED
      BY <1>3, <3>1 DEF IInv, TransportError, RetryStatus, MaybeExecuted
  <2>3. slept' \in [Requests -> Nat]
    BY <1>3, <2>1 DEF IInv, TransportError, RetryStatus, RetryOrRaise, Finish
  <2>4. /\ pc' \in [Requests -> {"idle", "in_flight", "backoff", "done"}]
        /\ result' \in [Requests -> Results]
    BY <1>3 DEF IInv, TransportError, RetryStatus, RetryOrRaise, Finish
  <2>5. QED
    BY <1>3, <2>2, <2>3, <2>4 DEF IInv, TransportError, RetryStatus, answering, pool
<1>4. ASSUME NEW r \in Requests, Wake(r) PROVE TypeOK'
  <2>1. sends[r] + 1 \in 0..(MaxRetries + 1) /\ attempt[r] + 1 \in 0..MaxRetries
    BY <1>4 DEF IInv, CountInv, Counted, Wake
  <2>2. /\ pc' \in [Requests -> {"idle", "in_flight", "backoff", "done"}]
        /\ sends' \in [Requests -> 0..(MaxRetries + 1)]
        /\ result' \in [Requests -> Results]
    BY <1>4, <2>1 DEF IInv, Wake, Send, Finish
  <2>3. attempt' \in [Requests -> 0..MaxRetries]
    BY <1>4, <2>1 DEF IInv, Wake
  <2>4. QED  BY <1>4, <2>2, <2>3 DEF IInv, Wake, pool
<1>5. CASE Close
  <2>1. client \in 0..MaxClients /\ closed \subseteq 1..MaxClients
    BY DEF IInv
  <2>2. CASE CloseBegin
    <3>1. client \in 1..MaxClients  BY <2>1, <2>2 DEF CloseBegin
    <3>2. closed' \subseteq 1..MaxClients
      <4>1. closed' = closed \cup {client}  BY <2>2 DEF CloseBegin
      <4>2. QED  BY <2>1, <3>1, <4>1
    <3>3. closing' \in 0..MaxClients  BY <2>1, <2>2 DEF CloseBegin
    <3>4. UNCHANGED <<local, client, built>>  BY <2>2 DEF CloseBegin
    <3>5. QED  BY <3>2, <3>3, <3>4 DEF IInv, local
  <2>3. CASE CloseEnd \/ CloseFails
    <3>1. UNCHANGED <<local, built, closed>>  BY <2>3 DEF CloseEnd, CloseFails
    <3>2. client' \in 0..MaxClients /\ closing' \in 0..MaxClients
      <4>1. 0 \in 0..MaxClients  OBVIOUS
      <4>2. QED  BY <2>1, <2>3, <4>1 DEF CloseEnd, CloseFails
    <3>3. QED  BY <3>1, <3>2 DEF IInv, local
  <2>4. QED  BY <1>5, <2>2, <2>3 DEF Close
<1>6. CASE UNCHANGED vars
  BY <1>6 DEF IInv, vars, local, pool
<1>7. QED
  BY <1>1, <1>2, <1>3, <1>4, <1>5, <1>6 DEF Next, Answer

(* A step of call q keeps the count of every call r. *)
LEMMA CountStep == IInv /\ [Next]_vars => CountInv'
<1> SUFFICES ASSUME IInv, [Next]_vars, NEW r \in Requests
             PROVE  Counted(r)'
  BY DEF CountInv
<1> USE HttpAssumption DEF TypeOK
<1> USE DEF Allowed
<1>0. Counted(r) /\ TypeOK  BY DEF IInv, CountInv
<1>1. ASSUME NEW q \in Requests, Start(q) PROVE Counted(r)'
  BY <1>0, <1>1 DEF Counted, Start, Send, Finish
<1>2. ASSUME NEW q \in Requests, Success(q) \/ FinalStatus(q) \/ OtherError(q)
      PROVE  Counted(r)'
  BY <1>0, <1>2
  DEF Counted, Success, FinalStatus, OtherError, answering, MaybeExecuted, Finish
<1>3. ASSUME NEW q \in Requests, TransportError(q) \/ RetryStatus(q)
      PROVE  Counted(r)'
  BY <1>0, <1>3 DEF Counted, TransportError, RetryStatus, answering, MaybeExecuted,
                    RetryOrRaise, MayRetry, Finish
<1>4. ASSUME NEW q \in Requests, Wake(q) PROVE Counted(r)'
  BY <1>0, <1>4 DEF Counted, Wake, Send, Finish
<1>5. CASE Close
  BY <1>0, <1>5 DEF Counted, Close, CloseBegin, CloseEnd, CloseFails, local
<1>6. CASE UNCHANGED vars
  BY <1>0, <1>6 DEF Counted, vars, local
<1>7. QED
  BY <1>1, <1>2, <1>3, <1>4, <1>5, <1>6 DEF Next, Answer

(* Only get_client() and close_client() touch the singleton. *)
LEMMA PoolStep == IInv /\ [Next]_vars => PoolInv'
<1> SUFFICES ASSUME IInv, [Next]_vars PROVE PoolInv'
  OBVIOUS
<1> USE HttpAssumption DEF IInv, TypeOK, PoolInv, OpenClientIsCurrent, Clients
<1>1. ASSUME NEW r \in Requests, Start(r) PROVE PoolInv'
  BY <1>1 DEF Start
<1>2. ASSUME NEW r \in Requests, Answer(r) \/ Wake(r) PROVE PoolInv'
  BY <1>2 DEF Answer, Success, TransportError, RetryStatus, FinalStatus, OtherError,
              answering, Wake, pool
<1>3. CASE Close
  BY <1>3 DEF Close, CloseBegin, CloseEnd, CloseFails
<1>4. CASE UNCHANGED vars
  BY <1>4 DEF vars, pool
<1>5. QED  BY <1>1, <1>2, <1>3, <1>4 DEF Next

LEMMA Invariance == Spec => []IInv
<1>1. IInv /\ [Next]_vars => IInv'
  BY TypeStep, CountStep, PoolStep DEF IInv
<1>2. QED  BY InitIInv, <1>1, PTL DEF Spec

-----------------------------------------------------------------------------
(* The module is type correct. *)
THEOREM TypeCorrect == Spec => []TypeOK
<1>1. IInv => TypeOK  BY DEF IInv
<1>2. QED  BY Invariance, <1>1, PTL

(* The retry budget is neither exceeded nor cut short, for every budget. *)
THEOREM BudgetKept == Spec => []RetryBudget
<1>1. IInv => RetryBudget
  <2> SUFFICES ASSUME IInv, NEW r \in Requests
               PROVE  /\ executed[r] <= sends[r]
                      /\ sends[r] <= Allowed(r)
                      /\ result[r] = "gave_up" => sends[r] = Allowed(r)
    BY DEF RetryBudget
  <2>1. Counted(r) /\ TypeOK  BY DEF IInv, CountInv
  <2>2. QED  BY <2>1, HttpAssumption DEF Counted, TypeOK, Allowed
<1>2. QED  BY Invariance, <1>1, PTL

(* A POST or PATCH is handed to httpx, and so carried out, at most once. *)
PostOnce == \A r \in Requests \ Idempotent : sends[r] <= 1 /\ executed[r] <= 1

THEOREM PostAtMostOnce == Spec => []PostOnce
<1>1. IInv => PostOnce
  <2> SUFFICES ASSUME IInv, NEW r \in Requests \ Idempotent
               PROVE  sends[r] <= 1 /\ executed[r] <= 1
    BY DEF PostOnce
  <2>1. Counted(r) /\ TypeOK  BY DEF IInv, CountInv
  <2>2. QED  BY <2>1, HttpAssumption DEF Counted, TypeOK
<1>2. QED  BY Invariance, <1>1, PTL

(* No AsyncClient that still accepts requests is lost behind the singleton. *)
THEOREM NoLostClient == Spec => []OpenClientIsCurrent
<1>1. IInv => OpenClientIsCurrent  BY DEF IInv, PoolInv
<1>2. QED  BY Invariance, <1>1, PTL

-----------------------------------------------------------------------------
(* What a call has slept, told by its counter. *)
Slept(r) ==
    /\ pc[r] = "idle" => slept[r] = 0
    /\ pc[r] = "in_flight" => slept[r] = Pow2[attempt[r]] - 1
    /\ pc[r] = "backoff" => slept[r] = Pow2[attempt[r] + 1] - 1
    /\ slept[r] <= Pow2[MaxRetries] - 1

SleptInv == \A r \in Requests : Slept(r)

LEMMA SleptInit == Init => SleptInv
<1> SUFFICES ASSUME Init, NEW r \in Requests PROVE Slept(r)
  BY DEF SleptInv
<1>1. Pow2[0] <= Pow2[MaxRetries]
  <2>1. 0 \in Nat /\ MaxRetries \in Nat /\ 0 <= MaxRetries
    BY HttpAssumption
  <2>2. QED  BY <2>1, PowerGrows, Zenon
<1>2. Pow2[MaxRetries] \in Nat
  BY HttpAssumption, BackoffIsNat
<1>3. pc[r] = "idle" /\ slept[r] = 0
  BY DEF Init
<1>4. QED  BY <1>1, <1>2, <1>3, PowerOfZero DEF Slept

(* A step of call q keeps what every call r has slept in line. *)
LEMMA SleptStep == IInv /\ SleptInv /\ [Next]_vars => SleptInv'
<1> SUFFICES ASSUME IInv, SleptInv, [Next]_vars, NEW r \in Requests PROVE Slept(r)'
  BY DEF SleptInv
<1>0. Slept(r) /\ Counted(r) /\ TypeOK
  BY DEF IInv, CountInv, SleptInv
<1>1. ASSUME NEW q \in Requests, q # r, Start(q) \/ Answer(q) \/ Wake(q)
      PROVE  pc'[r] = pc[r] /\ attempt'[r] = attempt[r] /\ slept'[r] = slept[r]
  BY <1>0, <1>1 DEF TypeOK, Start, Send, Finish, Answer, Success, TransportError, RetryStatus,
                    FinalStatus, OtherError, answering, RetryOrRaise, Wake
<1>2. ASSUME Close \/ UNCHANGED vars
      PROVE  pc'[r] = pc[r] /\ attempt'[r] = attempt[r] /\ slept'[r] = slept[r]
  BY <1>2 DEF Close, CloseBegin, CloseEnd, CloseFails, vars, local
<1>3. ASSUME pc'[r] = pc[r] /\ attempt'[r] = attempt[r] /\ slept'[r] = slept[r]
      PROVE  Slept(r)'
  BY <1>0, <1>3 DEF Slept
<1>4. CASE Start(r)
  <2>1. pc'[r] \in {"in_flight", "done"} /\ attempt'[r] = 0 /\ slept'[r] = 0
    BY <1>0, <1>4 DEF TypeOK, Counted, Slept, Start, Send, Finish
  <2>2. slept[r] <= Pow2[MaxRetries] - 1 /\ slept[r] = 0
    BY <1>0, <1>4 DEF Slept, Start
  <2>3. QED  BY <2>1, <2>2, PowerOfZero DEF Slept
<1>5. CASE Success(r) \/ FinalStatus(r) \/ OtherError(r)
  <2>1. pc'[r] = "done" /\ slept'[r] = slept[r]
    BY <1>0, <1>5 DEF TypeOK, Success, FinalStatus, OtherError, Finish
  <2>2. QED  BY <1>0, <2>1 DEF Slept
<1>6. CASE TransportError(r) \/ RetryStatus(r)
  <2>1. pc[r] = "in_flight" /\ attempt'[r] = attempt[r]
    BY <1>6 DEF TransportError, RetryStatus, answering
  <2>2. CASE MayRetry(r)
    <3>1. pc'[r] = "backoff" /\ slept'[r] = slept[r] + Pow2[attempt[r]]
      BY <1>0, <1>6, <2>2 DEF TypeOK, TransportError, RetryStatus, RetryOrRaise
    <3>2. attempt[r] \in Nat /\ attempt[r] < MaxRetries /\ MaxRetries \in Nat
      BY <1>0, <2>2, HttpAssumption DEF TypeOK, MayRetry
    <3>3. slept[r] = Pow2[attempt[r]] - 1
      BY <1>0, <2>1 DEF Slept
    <3>4. Pow2[attempt[r] + 1] = Pow2[attempt[r]] + Pow2[attempt[r]]
      BY <3>2, PowerDoubles
    <3>5. Pow2[attempt[r] + 1] <= Pow2[MaxRetries]
      <4>1. attempt[r] + 1 \in Nat /\ attempt[r] + 1 <= MaxRetries
        BY <3>2
      <4>2. QED  BY <3>2, <4>1, PowerGrows
    <3>6. Pow2[attempt[r]] \in Nat /\ Pow2[MaxRetries] \in Nat
      BY <3>2, BackoffIsNat
    <3>7. /\ slept'[r] = Pow2[attempt[r] + 1] - 1
          /\ slept'[r] <= Pow2[MaxRetries] - 1
      BY <3>1, <3>3, <3>4, <3>5, <3>6
    <3>8. QED  BY <2>1, <3>1, <3>7 DEF Slept
  <2>3. CASE ~ MayRetry(r)
    <3>1. pc'[r] = "done" /\ slept'[r] = slept[r]
      BY <1>0, <1>6, <2>3 DEF TypeOK, TransportError, RetryStatus, RetryOrRaise, Finish
    <3>2. QED  BY <1>0, <3>1 DEF Slept
  <2>4. QED  BY <2>2, <2>3
<1>7. CASE Wake(r)
  <2>1. /\ pc[r] = "backoff" /\ pc'[r] \in {"in_flight", "done"}
        /\ attempt'[r] = attempt[r] + 1 /\ slept'[r] = slept[r]
    BY <1>0, <1>7 DEF TypeOK, Wake, Send, Finish
  <2>2. QED  BY <1>0, <2>1 DEF Slept
<1>8. QED
  BY <1>1, <1>2, <1>3, <1>4, <1>5, <1>6, <1>7 DEF Next, Answer

(* The backoff doubles from attempt to attempt, so what a call has slept    *)
(* before an attempt, and in total, is what the configuration promises.     *)
THEOREM BackoffRight == Spec => []BackoffDoubles
<1>1. SleptInv => BackoffDoubles
  BY DEF SleptInv, Slept, BackoffDoubles
<1>2. QED  BY Invariance, SleptInit, SleptStep, <1>1, PTL DEF Spec

-----------------------------------------------------------------------------
(***************************************************************************)
(* Refinement: request() is a ServerCall with a budget. While a call is    *)
(* under way nothing was told; what ends it is decided in the step that    *)
(* hears from the server, so it is true when it is told.                   *)
(***************************************************************************)
Places   == {"idle", "in_flight", "backoff", "done"}
UnderWay == {r \in Requests : pc[r] \in {"in_flight", "backoff"}}
ToldTo   == [r \in Requests |-> Outcome(result[r])]

Untold == \A r \in Requests : pc[r] # "done" => result[r] = "none"

LEMMA UntoldInvariant == Spec => []Untold
<1>1. Init => Untold
  BY DEF Init, Untold
<1>2. IInv /\ Untold /\ [Next]_vars => Untold'
  <2> SUFFICES ASSUME IInv, Untold, [Next]_vars, NEW r \in Requests, pc'[r] # "done"
               PROVE  result'[r] = "none"
    BY DEF Untold
  <2> USE DEF IInv, TypeOK, Untold
  <2>1. ASSUME NEW q \in Requests, Start(q) \/ Wake(q) PROVE result'[r] = "none"
    BY <2>1 DEF Start, Wake, Send, Finish
  <2>2. ASSUME NEW q \in Requests, Success(q) \/ FinalStatus(q) \/ OtherError(q)
        PROVE  result'[r] = "none"
    BY <2>2 DEF Success, FinalStatus, OtherError, Finish
  <2>3. ASSUME NEW q \in Requests, TransportError(q) \/ RetryStatus(q)
        PROVE  result'[r] = "none"
    BY <2>3 DEF TransportError, RetryStatus, answering, RetryOrRaise, Finish
  <2>4. CASE Close \/ UNCHANGED vars
    BY <2>4 DEF Close, CloseBegin, CloseEnd, CloseFails, vars, local
  <2>5. QED  BY <2>1, <2>2, <2>3, <2>4 DEF Next, Answer
<1>3. QED  BY <1>1, <1>2, Invariance, PTL DEF Spec

LEMMA StillUnderWay ==
  ASSUME NEW r \in Requests, pc \in [Requests -> Places], NEW p \in {"in_flight", "backoff"},
         pc' = [pc EXCEPT ![r] = p], result' = result, result[r] = "none"
  PROVE  Server!Continues(r)
<1>1. UnderWay' = UnderWay \cup {r}
  BY DEF UnderWay
<1>2. ToldTo' = [ToldTo EXCEPT ![r] = "nothing"]
  BY DEF ToldTo, Outcome
<1>3. QED  BY <1>1, <1>2 DEF Server!Continues, UnderWay, ToldTo

LEMMA Over ==
  ASSUME NEW r \in Requests, pc \in [Requests -> Places], result \in [Requests -> Results],
         NEW how \in Results \ {"none"}, Finish(r, how),
         how = "response" => executed'[r] > 0
  PROVE  Server!Ends(r)
<1>1. UnderWay' = UnderWay \ {r}
  BY DEF UnderWay, Finish
<1>2. ToldTo' = [ToldTo EXCEPT ![r] = Outcome(how)]
  BY DEF ToldTo, Finish
<1>3. ToldTo'[r] = Outcome(how)
  BY <1>2 DEF ToldTo
<1>4. /\ Outcome(how) \in Server!Outcomes
      /\ Outcome(how) # "refused"
      /\ Outcome(how) = "answered" => how = "response"
  BY DEF Outcome, Results, Server!Outcomes
<1>5. Server!Truthful(r)'
  BY <1>3, <1>4 DEF Server!Truthful, ToldTo
<1>6. QED  BY <1>1, <1>2, <1>4, <1>5 DEF Server!Ends, UnderWay, ToldTo

LEMMA ServerInit == Init => Server!Init
<1> SUFFICES ASSUME Init PROVE Server!Init
  OBVIOUS
<1>1. UnderWay = {} /\ ToldTo = [r \in Requests |-> "nothing"]
  BY DEF Init, UnderWay, ToldTo, Outcome
<1>2. QED  BY <1>1 DEF Init, Server!Init, UnderWay, ToldTo

LEMMA ServerStep ==
  IInv /\ Untold /\ [Next]_vars => [Server!Next]_(Server!vars)
<1> SUFFICES ASSUME IInv, Untold, [Next]_vars
             PROVE  Server!Next \/ UNCHANGED Server!vars
  OBVIOUS
<1>1. /\ TypeOK /\ pc \in [Requests -> Places] /\ result \in [Requests -> Results]
      /\ \A r \in Requests : Counted(r) /\ Allowed(r) \in Nat /\ Allowed(r) >= 1
  <2>1. \A r \in Requests : Allowed(r) \in Nat /\ Allowed(r) >= 1
    BY HttpAssumption DEF Allowed
  <2>2. QED  BY <2>1 DEF IInv, TypeOK, CountInv, Places
<1>2. \A r \in Requests : [q \in Requests |-> Allowed(q)][r] = Allowed(r)
  OBVIOUS
<1>3. ASSUME NEW r \in Requests, Start(r) PROVE Server!Begin(r)
  <2>1. /\ pc[r] = "idle" /\ result[r] = "none" /\ sends[r] = 0 /\ executed[r] = 0
        /\ executed' = executed
    BY <1>1, <1>3 DEF Start, Counted, Untold
  <2>2. executed' = [executed EXCEPT ![r] = 0]
    BY <1>1, <2>1 DEF TypeOK
  <2>3. CASE Finish(r, "closed") /\ UNCHANGED sends
    <3>1. Server!Ends(r)
      BY <1>1, <2>3, Over DEF Results
    <3>2. sends' = [sends EXCEPT ![r] = 0]
      BY <1>1, <2>1, <2>3 DEF TypeOK
    <3>3. \E n \in {0, 1} : /\ n <= [q \in Requests |-> Allowed(q)][r]
                            /\ sends' = [sends EXCEPT ![r] = n]
      BY <1>1, <1>2, <3>2
    <3>4. r \notin UnderWay
      BY <2>1 DEF UnderWay
    <3>5. QED  BY <2>2, <3>1, <3>3, <3>4 DEF Server!Begin, UnderWay
  <2>4. CASE /\ pc' = [pc EXCEPT ![r] = "in_flight"]
             /\ sends' = [sends EXCEPT ![r] = @ + 1]
             /\ UNCHANGED result
    <3>1. Server!Continues(r)
      BY <1>1, <2>1, <2>4, StillUnderWay
    <3>2. sends' = [sends EXCEPT ![r] = 1]
      BY <2>1, <2>4
    <3>3. QED  BY <1>1, <1>2, <2>1, <2>2, <3>1, <3>2 DEF Server!Begin
  <2>5. QED  BY <1>3, <2>3, <2>4 DEF Start, Send
<1>4. ASSUME NEW r \in Requests, answering(r), MaybeExecuted(r)
      PROVE  /\ executed' = executed \/ Server!Serves(r)
             /\ sends'[r] > 0 /\ r \in UnderWay /\ sends' = sends /\ result[r] = "none"
  <2>1. pc[r] = "in_flight" /\ sends' = sends /\ executed[r] < sends[r]
    BY <1>1, <1>4 DEF answering, Counted, TypeOK
  <2>2. executed' = executed \/ executed' = [executed EXCEPT ![r] = @ + 1]
    <3>1. PICK n \in {0, 1} : executed' = [executed EXCEPT ![r] = @ + n]
      BY <1>4 DEF MaybeExecuted
    <3>2. executed \in [Requests -> Nat]
      BY <1>1 DEF TypeOK
    <3>3. CASE n = 0
      <4>1. executed[r] + n = executed[r]
        BY <3>2, <3>3
      <4>2. QED  BY <3>1, <3>2, <4>1
    <3>4. QED  BY <3>1, <3>3
  <2>3. sends[r] > 0 /\ result[r] = "none"
    BY <1>1, <2>1 DEF Counted, TypeOK, Untold
  <2>4. QED  BY <2>1, <2>2, <2>3 DEF Server!Serves, UnderWay
<1>5. ASSUME NEW r \in Requests, Success(r) PROVE Server!Hear(r)
  <2>1. MaybeExecuted(r) /\ answering(r) /\ Finish(r, "response")
    BY <1>5 DEF Success, MaybeExecuted
  <2>2. executed' = [executed EXCEPT ![r] = @ + 1] /\ executed'[r] > 0
    BY <1>1, <1>5 DEF Success, TypeOK
  <2>3. Server!Ends(r)
    BY <1>1, <2>1, <2>2, Over DEF Results
  <2>4. QED  BY <1>4, <2>1, <2>3 DEF Server!Hear, UnderWay
<1>6. ASSUME NEW r \in Requests, FinalStatus(r) \/ OtherError(r) PROVE Server!Hear(r)
  <2>1. PICK how \in {"refused", "escaped"} :
           answering(r) /\ MaybeExecuted(r) /\ Finish(r, how)
    BY <1>6 DEF FinalStatus, OtherError
  <2>2. Server!Ends(r)
    BY <1>1, <1>4, <2>1, Over DEF Results
  <2>3. QED  BY <1>4, <2>1, <2>2 DEF Server!Hear, UnderWay
<1>7. ASSUME NEW r \in Requests, TransportError(r) \/ RetryStatus(r) PROVE Server!Hear(r)
  <2>1. answering(r) /\ MaybeExecuted(r) /\ RetryOrRaise(r)
    BY <1>7 DEF TransportError, RetryStatus
  <2>2. CASE Finish(r, "gave_up")
    <3>1. Server!Ends(r)
      BY <1>1, <1>4, <2>1, <2>2, Over DEF Results
    <3>2. QED  BY <1>4, <2>1, <3>1 DEF Server!Hear, UnderWay
  <2>3. CASE pc' = [pc EXCEPT ![r] = "backoff"] /\ UNCHANGED result
    <3>1. Server!Continues(r)
      BY <1>1, <1>4, <2>1, <2>3, StillUnderWay
    <3>2. QED  BY <1>4, <2>1, <3>1 DEF Server!Hear, UnderWay
  <2>4. QED  BY <2>1, <2>2, <2>3 DEF RetryOrRaise
<1>8. ASSUME NEW r \in Requests, Wake(r) PROVE Server!Ask(r) \/ Server!Hear(r)
  <2>1. /\ pc[r] = "backoff" /\ result[r] = "none" /\ r \in UnderWay
        /\ sends[r] < Allowed(r) /\ executed' = executed
    <3>1. pc[r] = "backoff" /\ executed' = executed
      BY <1>8 DEF Wake
    <3>2. r \in Idempotent /\ attempt[r] < MaxRetries /\ sends[r] = attempt[r] + 1
      BY <1>1, <3>1 DEF Counted
    <3>3. sends[r] < Allowed(r)
      <4>1. Allowed(r) = MaxRetries + 1
        BY <3>2 DEF Allowed
      <4>2. attempt[r] \in Nat /\ MaxRetries \in Nat
        BY <1>1, HttpAssumption DEF TypeOK
      <4>3. QED  BY <3>2, <4>1, <4>2
    <3>4. QED  BY <3>1, <3>3 DEF Untold, UnderWay
  <2>2. CASE Finish(r, "closed") /\ UNCHANGED sends
    <3>1. Server!Ends(r)
      BY <1>1, <2>2, Over DEF Results
    <3>2. QED  BY <2>1, <2>2, <3>1 DEF Server!Hear, UnderWay
  <2>3. CASE /\ pc' = [pc EXCEPT ![r] = "in_flight"]
             /\ sends' = [sends EXCEPT ![r] = @ + 1]
             /\ UNCHANGED result
    <3>1. Server!Continues(r)
      BY <1>1, <2>1, <2>3, StillUnderWay
    <3>2. QED  BY <1>2, <2>1, <2>3, <3>1 DEF Server!Ask, UnderWay
  <2>4. QED  BY <1>8, <2>2, <2>3 DEF Wake, Send
<1>9. CASE Close \/ UNCHANGED vars
  <2>1. UNCHANGED <<pc, sends, executed, result>>
    BY <1>9 DEF Close, CloseBegin, CloseEnd, CloseFails, vars, local
  <2>2. UnderWay' = UnderWay /\ ToldTo' = ToldTo
    BY <2>1 DEF UnderWay, ToldTo
  <2>3. QED  BY <2>1, <2>2 DEF Server!vars, UnderWay, ToldTo
<1>10. QED
  BY <1>3, <1>5, <1>6, <1>7, <1>8, <1>9 DEF Next, Answer, Server!Next

(* Every behaviour of request() is one of calls that ask their server no    *)
(* more often than they may and tell the truth about it.                    *)
THEOREM Refinement == Spec => ImplementsServerCall
<1>1. QED
  BY Invariance, UntoldInvariant, ServerInit, ServerStep, PTL
  DEF Spec, Server!Spec, ImplementsServerCall

-----------------------------------------------------------------------------
(***************************************************************************)
(* What ServerCall promises follows from its specification alone; here for *)
(* the calls of this module.                                               *)
(***************************************************************************)
Budgets == [r \in Requests |-> Allowed(r)]

AccountInv == /\ sends \in [Requests -> Nat]
              /\ executed \in [Requests -> Nat]
              /\ Server!Accountable

(* Nothing changes for the calls the step is not about. *)
LEMMA OthersAccountable ==
  ASSUME AccountInv, NEW r \in Requests,
         \/ Server!Continues(r) \/ Server!Ends(r)
         \/ UNCHANGED <<UnderWay, ToldTo>>,
         NEW q \in Requests \ {r}, sends'[q] = sends[q], executed'[q] = executed[q]
  PROVE  executed'[q] <= sends'[q] /\ sends'[q] <= Budgets[q] /\ Server!Truthful(q)'
<1>1. ToldTo'[q] = ToldTo[q]
  <2>1. CASE Server!Continues(r)
    <3>1. ToldTo' = [ToldTo EXCEPT ![r] = "nothing"]
      BY <2>1 DEF Server!Continues, ToldTo
    <3>2. QED  BY <3>1 DEF ToldTo
  <2>2. CASE Server!Ends(r)
    <3>1. PICK what : ToldTo' = [ToldTo EXCEPT ![r] = what]
      BY <2>2 DEF Server!Ends, ToldTo
    <3>2. QED  BY <3>1 DEF ToldTo
  <2>3. QED  BY <2>1, <2>2
<1>2. Server!Truthful(q) /\ executed[q] <= sends[q] /\ sends[q] <= Budgets[q]
  BY DEF AccountInv, Server!Accountable, Budgets
<1>3. QED  BY <1>1, <1>2 DEF Server!Truthful, ToldTo

LEMMA AccountStep ==
  AccountInv /\ [Server!Next]_(Server!vars) => AccountInv'
<1> SUFFICES ASSUME AccountInv, [Server!Next]_(Server!vars) PROVE AccountInv'
  OBVIOUS
<1>1. /\ sends \in [Requests -> Nat] /\ executed \in [Requests -> Nat]
      /\ \A r \in Requests : /\ executed[r] <= sends[r]
                             /\ sends[r] <= Budgets[r]
                             /\ Server!Truthful(r)
  BY DEF AccountInv, Server!Accountable, Budgets
<1>2. ASSUME NEW r \in Requests,
             sends' \in [Requests -> Nat], executed' \in [Requests -> Nat],
             \A q \in Requests \ {r} : sends'[q] = sends[q] /\ executed'[q] = executed[q],
             \/ Server!Continues(r) \/ Server!Ends(r) \/ UNCHANGED <<UnderWay, ToldTo>>,
             executed'[r] <= sends'[r], sends'[r] <= Budgets[r], Server!Truthful(r)'
      PROVE  AccountInv'
  <2>1. ASSUME NEW q \in Requests
        PROVE  executed'[q] <= sends'[q] /\ sends'[q] <= Budgets[q] /\ Server!Truthful(q)'
    BY <1>2, <2>1, OthersAccountable
  <2>2. QED  BY <1>2, <2>1 DEF AccountInv, Server!Accountable, Budgets
<1>3. ASSUME NEW r \in Requests, Server!Continues(r) \/ Server!Ends(r)
      PROVE  Server!Truthful(r)'
  <2>1. CASE Server!Continues(r)
    <3>1. ToldTo' = [ToldTo EXCEPT ![r] = "nothing"]
      BY <2>1 DEF Server!Continues, ToldTo
    <3>2. ToldTo'[r] = "nothing"
      BY <3>1 DEF ToldTo
    <3>3. QED  BY <3>2 DEF Server!Truthful, ToldTo
  <2>2. CASE Server!Ends(r)
    BY <2>2 DEF Server!Ends
  <2>3. QED  BY <1>3, <2>1, <2>2
<1>4. ASSUME NEW r \in Requests, Server!Begin(r) PROVE AccountInv'
  <2>1. PICK n \in {0, 1} : n <= Budgets[r] /\ sends' = [sends EXCEPT ![r] = n]
    BY <1>4 DEF Server!Begin, Budgets
  <2>2. executed' = [executed EXCEPT ![r] = 0] /\ (Server!Continues(r) \/ Server!Ends(r))
    BY <1>4 DEF Server!Begin
  <2>3. /\ sends' \in [Requests -> Nat] /\ executed' \in [Requests -> Nat]
        /\ \A q \in Requests \ {r} : sends'[q] = sends[q] /\ executed'[q] = executed[q]
        /\ executed'[r] <= sends'[r] /\ sends'[r] <= Budgets[r]
    BY <1>1, <2>1, <2>2
  <2>4. QED  BY <1>2, <1>3, <2>2, <2>3
<1>5. ASSUME NEW r \in Requests, Server!Ask(r) PROVE AccountInv'
  <2>1. /\ sends[r] < Budgets[r] /\ sends' = [sends EXCEPT ![r] = @ + 1]
        /\ executed' = executed /\ Server!Continues(r)
    BY <1>5 DEF Server!Ask, Budgets
  <2>2. Budgets[r] \in Nat
    BY HttpAssumption DEF Budgets, Allowed
  <2>3. /\ sends' \in [Requests -> Nat] /\ executed' \in [Requests -> Nat]
        /\ \A q \in Requests \ {r} : sends'[q] = sends[q] /\ executed'[q] = executed[q]
        /\ executed'[r] <= sends'[r] /\ sends'[r] <= Budgets[r]
    BY <1>1, <2>1, <2>2
  <2>4. QED  BY <1>2, <1>3, <2>1, <2>3
<1>6. ASSUME NEW r \in Requests, Server!Serves(r) \/ UNCHANGED executed, UNCHANGED sends
      PROVE  /\ sends' \in [Requests -> Nat] /\ executed' \in [Requests -> Nat]
             /\ \A q \in Requests \ {r} : sends'[q] = sends[q] /\ executed'[q] = executed[q]
             /\ executed[r] <= executed'[r] /\ executed'[r] <= sends'[r]
  <2>1. CASE UNCHANGED executed
    BY <1>1, <1>6, <2>1
  <2>2. CASE Server!Serves(r)
    <3>1. executed[r] < sends[r] /\ executed' = [executed EXCEPT ![r] = @ + 1]
      BY <2>2 DEF Server!Serves
    <3>2. QED  BY <1>1, <1>6, <3>1
  <2>3. QED  BY <1>6, <2>1, <2>2
<1>7. ASSUME NEW r \in Requests, Server!Hear(r) PROVE AccountInv'
  <2>1. /\ Server!Serves(r) \/ UNCHANGED executed
        /\ UNCHANGED sends /\ (Server!Continues(r) \/ Server!Ends(r))
    BY <1>7 DEF Server!Hear
  <2>2. sends'[r] <= Budgets[r]
    BY <1>1, <2>1
  <2>3. QED  BY <1>2, <1>3, <1>6, <2>1, <2>2
<1>8. ASSUME NEW r \in Requests, Server!ServeUnheard(r) PROVE AccountInv'
  <2>1. Server!Serves(r) /\ UNCHANGED sends /\ UNCHANGED <<UnderWay, ToldTo>>
    BY <1>8 DEF Server!ServeUnheard, UnderWay, ToldTo
  <2>2. /\ sends'[r] <= Budgets[r] /\ executed[r] <= executed'[r]
        /\ executed'[r] \in Nat /\ executed[r] \in Nat
    BY <1>1, <1>6, <2>1
  <2>3. Server!Truthful(r)'
    <3>1. ToldTo'[r] = ToldTo[r] /\ sends'[r] = sends[r] /\ Server!Truthful(r)
      BY <1>1, <2>1
    <3>2. /\ ToldTo[r] = "refused" => sends[r] = 0
          /\ ToldTo[r] = "answered" => executed[r] > 0
      BY <3>1 DEF Server!Truthful, ToldTo
    <3>3. executed[r] > 0 => executed'[r] > 0
      BY <2>2
    <3>4. QED  BY <3>1, <3>2, <3>3 DEF Server!Truthful, ToldTo
  <2>4. QED  BY <1>2, <1>6, <2>1, <2>2, <2>3
<1>9. CASE UNCHANGED Server!vars
  <2>1. UNCHANGED <<sends, executed>> /\ ToldTo' = ToldTo
    BY <1>9 DEF Server!vars, ToldTo
  <2>2. ASSUME NEW q \in Requests PROVE Server!Truthful(q)'
    BY <1>1, <2>1 DEF Server!Truthful, ToldTo
  <2>3. QED  BY <1>1, <2>1, <2>2 DEF AccountInv, Server!Accountable, Budgets
<1>10. QED
  BY <1>4, <1>5, <1>7, <1>8, <1>9 DEF Server!Next

(* ServerCall keeps its promise to callers: nothing is done more often than *)
(* it was asked for, or asked for more often than allowed, and what was     *)
(* told stays true, also when the server acts after the call has ended.     *)
THEOREM CallsAreAccountable == Server!Spec => []Server!Accountable
<1>1. Server!Init => AccountInv
  <2> SUFFICES ASSUME Server!Init PROVE AccountInv
    OBVIOUS
  <2>1. /\ sends = [r \in Requests |-> 0] /\ executed = [r \in Requests |-> 0]
        /\ ToldTo = [r \in Requests |-> "nothing"]
    BY DEF Server!Init, ToldTo
  <2>2. ASSUME NEW r \in Requests PROVE Server!Truthful(r)
    BY <2>1 DEF Server!Truthful, ToldTo
  <2>3. \A r \in Requests : 0 <= Budgets[r]
    BY HttpAssumption DEF Budgets, Allowed
  <2>4. QED  BY <2>1, <2>2, <2>3 DEF AccountInv, Server!Accountable, Budgets
<1>2. AccountInv => Server!Accountable
  BY DEF AccountInv
<1>3. QED  BY <1>1, <1>2, AccountStep, PTL DEF Server!Spec

(* So every caller of request() has this promise. *)
THEOREM RequestsAreAccountable == Spec => []Server!Accountable
<1>1. QED  BY Refinement, CallsAreAccountable, PTL DEF ImplementsServerCall

-----------------------------------------------------------------------------
(***************************************************************************)
(* The retry loop runs out. Fairness says that a step of a call is taken,  *)
(* which is TLC's to check; that each brings the call nearer to its end is *)
(* proved here.                                                            *)
(***************************************************************************)
(* The steps a call still has before it at most: two per further attempt,   *)
(* one that sends and one that hears.                                       *)
StepsLeft(r) == CASE pc[r] = "idle"      -> 2 * MaxRetries + 2
                  [] pc[r] = "in_flight" -> 2 * (MaxRetries - attempt[r]) + 1
                  [] pc[r] = "backoff"   -> 2 * (MaxRetries - attempt[r])
                  [] pc[r] = "done"      -> 0

(* Every step of a call uses one of them up at least, and nothing that      *)
(* other calls or close_client() do gives one back.                         *)
Nearer(r) == /\ pc'[r] # pc[r] => StepsLeft(r)' < StepsLeft(r)
             /\ pc'[r] = pc[r] => StepsLeft(r)' = StepsLeft(r)

RetriesRunOut == [][\A r \in Requests : Nearer(r)]_vars

LEMMA NearerStep == IInv /\ [Next]_vars => \A r \in Requests : Nearer(r)
<1> SUFFICES ASSUME IInv, [Next]_vars, NEW r \in Requests PROVE Nearer(r)
  OBVIOUS
<1>0. /\ pc \in [Requests -> {"idle", "in_flight", "backoff", "done"}]
      /\ attempt \in [Requests -> 0..MaxRetries]
      /\ MaxRetries \in Nat
      /\ pc[r] = "idle" => attempt[r] = 0
      /\ pc[r] = "backoff" => attempt[r] < MaxRetries
  BY HttpAssumption DEF IInv, TypeOK, CountInv, Counted
<1>1. attempt[r] \in Nat /\ attempt[r] <= MaxRetries
  BY <1>0
<1>2. ASSUME pc'[r] = pc[r], attempt'[r] = attempt[r] PROVE Nearer(r)
  BY <1>2 DEF Nearer, StepsLeft
<1>3. ASSUME NEW q \in Requests \ {r}, Start(q) \/ Answer(q) \/ Wake(q) PROVE Nearer(r)
  <2>1. pc'[r] = pc[r] /\ attempt'[r] = attempt[r]
    BY <1>0, <1>3 DEF Start, Answer, Wake, Success, TransportError, RetryStatus, FinalStatus,
                      OtherError, answering, RetryOrRaise, Finish, Send
  <2>2. QED
    BY <2>1, <1>2
<1>4. CASE Start(r)
  <2>1. pc[r] = "idle" /\ pc'[r] \in {"in_flight", "done"} /\ attempt'[r] = attempt[r]
    BY <1>0, <1>4 DEF Start, Send, Finish
  <2>2. QED
    BY <2>1, <1>0, <1>1 DEF Nearer, StepsLeft
<1>5. CASE Answer(r)
  <2>1. pc[r] = "in_flight" /\ pc'[r] \in {"backoff", "done"} /\ attempt'[r] = attempt[r]
    BY <1>0, <1>5 DEF Answer, Success, TransportError, RetryStatus, FinalStatus, OtherError,
                      answering, RetryOrRaise, Finish
  <2>2. QED
    BY <2>1, <1>0, <1>1 DEF Nearer, StepsLeft
<1>6. CASE Wake(r)
  <2>1. pc[r] = "backoff" /\ pc'[r] \in {"in_flight", "done"} /\ attempt'[r] = attempt[r] + 1
    BY <1>0, <1>6 DEF Wake, Send, Finish
  <2>2. QED
    BY <2>1, <1>0, <1>1 DEF Nearer, StepsLeft
<1>7. CASE Close \/ UNCHANGED vars
  <2>1. UNCHANGED local
    BY <1>7 DEF Close, CloseBegin, CloseEnd, CloseFails, vars
  <2>2. QED
    BY <2>1, <1>2 DEF local
<1>8. QED
  BY <1>3, <1>4, <1>5, <1>6, <1>7 DEF Next

(* For any budget a call takes at most two steps per attempt.               *)
THEOREM RetriesEnd == Spec => RetriesRunOut
<1>1. QED
  BY NearerStep, Invariance, PTL DEF Spec, RetriesRunOut
=============================================================================
