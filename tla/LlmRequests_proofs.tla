------------------------- MODULE LlmRequests_proofs -------------------------
(***************************************************************************)
(* Proofs about calls to model vendors and about parse_vectors().          *)
(*                                                                         *)
(* parse_vectors(): by induction over the answer its loop passes when each *)
(* item is well formed and no index comes twice. n items with distinct     *)
(* indexes below n are a bijection, so each text has exactly one vector    *)
(* and the order of the answer does not matter.                            *)
(*                                                                         *)
(* The system: while the application serves, every cached bundle is        *)
(* explained by the index (RegistryInv), the ghost first and the cache are *)
(* the same as long as caching is on (CacheInv), and the tables of the     *)
(* gateway agree with each other, with the failures of this startup and    *)
(* with the LangSmith switch (GatewayInv). No call is under way while the  *)
(* tables are being filled, so what a call took from them stays true until *)
(* the next shutdown.                                                      *)
(***************************************************************************)
EXTENDS LlmRequests, FunctionTheorems, FiniteSetTheorems, WellFoundedInduction, TLAPS

-----------------------------------------------------------------------------
(***************************************************************************)
(* Induction, without an operator parameter: a set of numbers with 0 that  *)
(* is closed under the successor has all of them.                          *)
(***************************************************************************)
LEMMA Induct ==
    ASSUME NEW S \in SUBSET Nat, 0 \in S, \A n \in S : n + 1 \in S
    PROVE  S = Nat
<1> DEFINE R == OpToRel(<, Nat)
           T == Nat \ S
<1>1. IsWellFoundedOn(R, Nat)
  BY NatLessThanWellFounded
<1>2. \A a, b \in Nat : <<a, b>> \in R <=> a < b
  BY DEF OpToRel
<1>3. SUFFICES ASSUME T # {} PROVE FALSE
  OBVIOUS
<1>4. T \subseteq Nat
  OBVIOUS
<1> HIDE DEF R
<1>5. PICK n \in T : \A m \in T : ~ (<<m, n>> \in R)
  BY <1>1, <1>3, <1>4, WFMin
<1>6. n \in Nat /\ n # 0
  BY <1>4
<1>7. n - 1 \in Nat /\ n - 1 < n /\ (n - 1) + 1 = n
  BY <1>6
<1>8. n - 1 \in S
  BY <1>2, <1>5, <1>6, <1>7
<1>9. QED
  BY <1>7, <1>8

-----------------------------------------------------------------------------
(***************************************************************************)
(* parse_vectors(): the loop and its closed form.                          *)
(***************************************************************************)
WellFormed(item, n) == item.index \in 0..(n - 1) /\ item.vector # NotNumeric

(* The first i items are well formed and no two of them share an index.     *)
Good(data, n, i) == /\ \A j \in 1..i : WellFormed(data[j], n)
                    /\ \A j, k \in 1..i : data[j].index = data[k].index => j = k

(* Which of the first i items has the index.                                *)
Position(data, i, index) == CHOOSE j \in 1..i : data[j].index = index

ByIndex(data, i) == [k \in {data[j].index : j \in 1..i} |->
                        data[Position(data, i, k)].vector]

ClosedForm(data, n, i) == IF Good(data, n, i)
                          THEN [passed |-> TRUE, indexed |-> ByIndex(data, i)]
                          ELSE Raised

LEMMA ClosedStart == ASSUME NEW data, NEW n PROVE ClosedForm(data, n, 0) = Start
<1>1. Good(data, n, 0)
  BY DEF Good
<1>2. {data[j].index : j \in 1..0} = {}
  OBVIOUS
<1>3. ByIndex(data, 0) = NoVectors
  BY <1>2 DEF ByIndex, NoVectors
<1>4. QED
  BY <1>1, <1>3 DEF ClosedForm, Start

(* An item passes if it extends a good prefix to a good one.                *)
LEMMA GoodGrows ==
    ASSUME NEW data, NEW n \in Nat, NEW i \in Nat, Good(data, n, i)
    PROVE  Good(data, n, i + 1) <=> Passes(data[i + 1], ByIndex(data, i), n)
<1>1. DOMAIN ByIndex(data, i) = {data[j].index : j \in 1..i}
  BY DEF ByIndex
<1>2. 1..(i + 1) = (1..i) \cup {i + 1} /\ i + 1 \notin 1..i
  OBVIOUS
<1>3. ASSUME Good(data, n, i + 1)
      PROVE  Passes(data[i + 1], ByIndex(data, i), n)
  <2>1. WellFormed(data[i + 1], n)
    BY <1>2, <1>3 DEF Good
  <2>2. \A j \in 1..i : data[j].index # data[i + 1].index
    BY <1>2, <1>3 DEF Good
  <2>3. QED
    BY <1>1, <2>1, <2>2 DEF Passes, WellFormed
<1>4. ASSUME Passes(data[i + 1], ByIndex(data, i), n)
      PROVE  Good(data, n, i + 1)
  <2>1. WellFormed(data[i + 1], n)
    BY <1>4 DEF Passes, WellFormed
  <2>2. \A j \in 1..i : data[j].index # data[i + 1].index
    BY <1>1, <1>4 DEF Passes
  <2>3. \A j \in 1..(i + 1) : WellFormed(data[j], n)
    BY <1>2, <2>1 DEF Good
  <2>4. ASSUME NEW j \in 1..(i + 1), NEW k \in 1..(i + 1), data[j].index = data[k].index
        PROVE  j = k
    <3>1. CASE j \in 1..i /\ k \in 1..i
      BY <2>4, <3>1 DEF Good
    <3>2. CASE j = i + 1 \/ k = i + 1
      BY <1>2, <2>2, <2>4, <3>2
    <3>3. QED
      BY <1>2, <3>1, <3>2
  <2>5. QED
    BY <2>3, <2>4 DEF Good
<1>5. QED
  BY <1>3, <1>4

(* In a good prefix an index has one position.                              *)
LEMMA GoodPosition ==
    ASSUME NEW data, NEW n, NEW i, Good(data, n, i), NEW j \in 1..i
    PROVE  Position(data, i, data[j].index) = j
BY DEF Good, Position

LEMMA ByIndexGrows ==
    ASSUME NEW data, NEW n \in Nat, NEW i \in Nat, Good(data, n, i), Good(data, n, i + 1)
    PROVE  ByIndex(data, i + 1) = Put(ByIndex(data, i), data[i + 1])
<1>1. 1..(i + 1) = (1..i) \cup {i + 1} /\ i + 1 \in 1..(i + 1)
  OBVIOUS
<1> DEFINE old == {data[j].index : j \in 1..i}
           new == {data[j].index : j \in 1..(i + 1)}
<1>2. new = old \cup {data[i + 1].index}
  BY <1>1
<1>3. ASSUME NEW k \in new
      PROVE  data[Position(data, i + 1, k)].vector
               = IF k = data[i + 1].index THEN data[i + 1].vector ELSE ByIndex(data, i)[k]
  <2>1. PICK j \in 1..(i + 1) : k = data[j].index
    BY <1>3
  <2>2. Position(data, i + 1, k) = j
    BY <2>1, GoodPosition
  <2>3. CASE j = i + 1
    BY <2>1, <2>2, <2>3
  <2>4. CASE j \in 1..i
    <3>1. Position(data, i, k) = j /\ k \in old
      BY <2>1, <2>4, GoodPosition
    <3>2. ByIndex(data, i)[k] = data[j].vector
      BY <3>1 DEF ByIndex
    <3>3. k # data[i + 1].index
      <4>1. j # i + 1
        BY <2>4
      <4>2. QED
        BY <1>1, <2>1, <4>1 DEF Good
    <3>4. QED
      BY <2>2, <3>2, <3>3
  <2>5. QED
    BY <1>1, <2>3, <2>4
<1>4. DOMAIN ByIndex(data, i) = old
  BY DEF ByIndex
<1>5. ByIndex(data, i + 1) = [k \in new |-> data[Position(data, i + 1, k)].vector]
  BY DEF ByIndex
<1>6. Put(ByIndex(data, i), data[i + 1])
        = [k \in new |-> IF k = data[i + 1].index THEN data[i + 1].vector
                         ELSE ByIndex(data, i)[k]]
  BY <1>2, <1>4 DEF Put
<1> HIDE DEF old, new
<1>7. QED
  BY <1>3, <1>5, <1>6

(* The closed form takes the turns of the loop.                             *)
LEMMA ClosedStep ==
    ASSUME NEW data, NEW n \in Nat, NEW i \in Nat
    PROVE  Take(ClosedForm(data, n, i), data[i + 1], n) = ClosedForm(data, n, i + 1)
<1>1. CASE Good(data, n, i) /\ Good(data, n, i + 1)
  <2>1. ClosedForm(data, n, i) = [passed |-> TRUE, indexed |-> ByIndex(data, i)]
    BY <1>1 DEF ClosedForm
  <2>2. Passes(data[i + 1], ByIndex(data, i), n)
    BY <1>1, GoodGrows
  <2>3. ByIndex(data, i + 1) = Put(ByIndex(data, i), data[i + 1])
    BY <1>1, ByIndexGrows
  <2>4. ClosedForm(data, n, i + 1) = [passed |-> TRUE, indexed |-> ByIndex(data, i + 1)]
    BY <1>1 DEF ClosedForm
  <2>5. Take([passed |-> TRUE, indexed |-> ByIndex(data, i)], data[i + 1], n)
          = [passed |-> TRUE, indexed |-> Put(ByIndex(data, i), data[i + 1])]
    BY <2>2 DEF Take
  <2>6. QED
    BY <2>1, <2>3, <2>4, <2>5, Zenon
<1>2. CASE Good(data, n, i) /\ ~ Good(data, n, i + 1)
  <2>1. ClosedForm(data, n, i) = [passed |-> TRUE, indexed |-> ByIndex(data, i)]
    BY <1>2 DEF ClosedForm
  <2>2. ~ Passes(data[i + 1], ByIndex(data, i), n)
    BY <1>2, GoodGrows
  <2>3. QED
    BY <1>2, <2>1, <2>2 DEF Take, ClosedForm
<1>3. CASE ~ Good(data, n, i)
  <2>1. \A j \in 1..i : j \in 1..(i + 1)
    OBVIOUS
  <2>2. ~ Good(data, n, i + 1)
    BY <1>3, <2>1 DEF Good
  <2>3. QED
    BY <1>3, <2>2 DEF Take, ClosedForm, Raised
<1>4. QED
  BY <1>1, <1>2, <1>3

(* embedding.py, parse_vectors(): what the loop is left with, for answers   *)
(* of any length. The recursive function exists because the closed form is  *)
(* one, and an induction over its turns shows that it is the only one.      *)
THEOREM LoopIsClosedForm ==
    ASSUME NEW T, NEW data \in Seq(T), NEW n \in Nat
    PROVE  Loop(data, n) = ClosedForm(data, n, Len(data))
<1> DEFINE turns   == 0..Len(data)
           Turn(f) == [i \in turns |-> IF i = 0 THEN Start ELSE Take(f[i - 1], data[i], n)]
           after   == CHOOSE f : f = Turn(f)
           closed  == [i \in turns |-> ClosedForm(data, n, i)]
<1>1. Len(data) \in Nat
  OBVIOUS
<1>2. closed = Turn(closed)
  <2>1. ASSUME NEW i \in turns
        PROVE  closed[i] = IF i = 0 THEN Start ELSE Take(closed[i - 1], data[i], n)
    <3>1. CASE i = 0
      BY <3>1, ClosedStart
    <3>2. CASE i # 0
      <4>1. i - 1 \in Nat /\ i - 1 \in turns /\ (i - 1) + 1 = i
        BY <1>1, <3>2
      <4>2. Take(ClosedForm(data, n, i - 1), data[i], n) = ClosedForm(data, n, i)
        BY <4>1, ClosedStep
      <4>3. QED
        BY <3>2, <4>1, <4>2
    <3>3. QED
      BY <3>1, <3>2
  <2> HIDE DEF turns
  <2>2. QED
    BY <2>1
<1>3. after = Turn(after)
  <2> HIDE DEF closed, Turn
  <2>1. QED
    BY <1>2
<1>4. Loop(data, n) = after[Len(data)]
  BY DEF Loop
<1> DEFINE S == {i \in Nat : i \in turns => after[i] = ClosedForm(data, n, i)}
<1> HIDE DEF after
<1>5. 0 \in S
  <2>1. 0 \in turns
    BY <1>1
  <2>2. after[0] = Start
    BY <1>3, <2>1
  <2>3. QED
    BY <2>2, ClosedStart
<1>6. ASSUME NEW i \in S PROVE i + 1 \in S
  <2>1. SUFFICES ASSUME i + 1 \in turns PROVE after[i + 1] = ClosedForm(data, n, i + 1)
    OBVIOUS
  <2>2. i \in Nat /\ i \in turns /\ i + 1 # 0 /\ (i + 1) - 1 = i
    BY <1>1, <2>1
  <2>3. after[i + 1] = Take(after[i], data[i + 1], n)
    BY <1>3, <2>1, <2>2
  <2>4. after[i] = ClosedForm(data, n, i)
    BY <2>2
  <2>5. QED
    BY <2>2, <2>3, <2>4, ClosedStep
<1>7. S = Nat
  <2>1. S \in SUBSET Nat
    OBVIOUS
  <2> HIDE DEF S
  <2>2. QED
    BY <1>5, <1>6, <2>1, Induct
<1>8. after[Len(data)] = ClosedForm(data, n, Len(data))
  BY <1>1, <1>7
<1>9. QED
  BY <1>4, <1>8

LEMMA ClosedLoop ==
    ASSUME NEW T, NEW data \in Seq(T), NEW n \in Nat
    PROVE  /\ Loop(data, n).passed <=> Good(data, n, Len(data))
           /\ Good(data, n, Len(data)) => Loop(data, n).indexed = ByIndex(data, Len(data))
BY LoopIsClosedForm DEF ClosedForm, Raised

IndexOf(data) == [i \in DOMAIN data |-> data[i].index]

LEMMA IndexesBiject ==
    ASSUME NEW T, NEW data \in Seq(T), NEW n \in Nat, Len(data) = n, Good(data, n, n)
    PROVE  IndexOf(data) \in Bijection(1..n, 0..(n - 1))
<1>1. DOMAIN data = 1..n
  OBVIOUS
<1>2. IndexOf(data) \in [1..n -> 0..(n - 1)]
  BY <1>1 DEF IndexOf, Good, WellFormed
<1>3. IndexOf(data) \in Injection(1..n, 0..(n - 1))
  BY <1>1, <1>2 DEF IndexOf, Good, Injection, IsInjective
<1>4. IsFiniteSet(1..n) /\ Cardinality(1..n) = n
  BY FS_Interval
<1>5. IsFiniteSet(0..(n - 1)) /\ Cardinality(0..(n - 1)) = n
  <2>1. 0 \in Int /\ n - 1 \in Int
    OBVIOUS
  <2>2. /\ IsFiniteSet(0..(n - 1))
        /\ Cardinality(0..(n - 1)) = IF 0 > n - 1 THEN 0 ELSE (n - 1) - 0 + 1
    BY <2>1, FS_Interval
  <2>3. QED
    BY <2>2
<1>6. IndexOf(data) \in Surjection(1..n, 0..(n - 1))
  BY <1>3, <1>4, <1>5, FS_Injection
<1>7. QED
  BY <1>3, <1>6 DEF Bijection

(* embedding.py, parse_vectors(): an answer of the right length that passes *)
(* the loop is always complete, so the test of set(indexed) after the loop  *)
(* never refuses an answer.                                                 *)
THEOREM LoopImpliesComplete ==
    ASSUME NEW T, NEW data \in Seq(T), NEW n \in Nat, Len(data) = n, Loop(data, n).passed
    PROVE  DOMAIN Loop(data, n).indexed = 0..(n - 1)
<1>1. Good(data, n, n) /\ Loop(data, n).indexed = ByIndex(data, n)
  BY ClosedLoop
<1>2. IndexOf(data) \in Surjection(1..n, 0..(n - 1)) /\ IndexOf(data) \in [1..n -> 0..(n - 1)]
  BY <1>1, IndexesBiject DEF Bijection, Surjection, Injection
<1>3. DOMAIN data = 1..n
  OBVIOUS
<1>4. {data[j].index : j \in 1..n} = 0..(n - 1)
  <2>1. ASSUME NEW k \in 0..(n - 1) PROVE \E j \in 1..n : data[j].index = k
    BY <1>2, <1>3, <2>1 DEF Surjection, IndexOf
  <2>2. ASSUME NEW j \in 1..n PROVE data[j].index \in 0..(n - 1)
    BY <1>1, <2>2 DEF Good, WellFormed
  <2>3. QED
    BY <2>1, <2>2
<1>5. QED
  BY <1>1, <1>4 DEF ByIndex

LEMMA AcceptedIsGood ==
    ASSUME NEW T, NEW data \in Seq(T), NEW n \in Nat
    PROVE  Accepted(data, n) <=> Len(data) = n /\ Good(data, n, n)
BY ClosedLoop, LoopImpliesComplete DEF Accepted

(* embedding.py, parse_vectors(): the k-th vector of the result is the one  *)
(* of the item that carries index k - 1, and there is only one such item.   *)
THEOREM ParsedByIndex ==
    ASSUME NEW T, NEW data \in Seq(T), NEW n \in Nat, Accepted(data, n),
           NEW i \in DOMAIN data
    PROVE  /\ data[i].index + 1 \in 1..n
           /\ ParseVectors(data, n)[data[i].index + 1] = data[i].vector
           /\ \A j \in DOMAIN data : data[j].index = data[i].index => j = i
<1>1. Len(data) = n /\ Good(data, n, n) /\ DOMAIN data = 1..n
  BY AcceptedIsGood
<1>2. data[i].index \in 0..(n - 1)
  BY <1>1 DEF Good, WellFormed
<1> DEFINE k == data[i].index + 1
<1>3. k \in 1..n /\ k - 1 = data[i].index
  BY <1>2
<1>4. Position(data, n, data[i].index) = i
  BY <1>1, GoodPosition
<1>5. ByIndex(data, n)[data[i].index] = data[i].vector
  BY <1>1, <1>4 DEF ByIndex
<1>6. ParseVectors(data, n)[k] = ByIndex(data, n)[k - 1]
  BY <1>1, <1>3, ClosedLoop DEF ParseVectors
<1>7. \A j \in DOMAIN data : data[j].index = data[i].index => j = i
  BY <1>1 DEF Good
<1>8. QED
  BY <1>3, <1>5, <1>6, <1>7

LEMMA EveryTextHasAnItem ==
    ASSUME NEW T, NEW data \in Seq(T), NEW n \in Nat, Accepted(data, n), NEW k \in 1..n
    PROVE  \E i \in DOMAIN data : data[i].index = k - 1
<1>1. DOMAIN data = 1..n /\ IndexOf(data) \in Surjection(1..n, 0..(n - 1))
  BY AcceptedIsGood, IndexesBiject DEF Bijection
<1>2. k - 1 \in 0..(n - 1)
  OBVIOUS
<1>3. QED
  BY <1>1, <1>2 DEF Surjection, IndexOf

(* embedding.py, parse_vectors(): an answer with the items of an accepted   *)
(* one in another order is accepted too, and gives the same vectors.        *)
THEOREM OrderIrrelevant ==
    ASSUME NEW T, NEW n \in Nat, NEW data \in Seq(T), NEW other \in Seq(T),
           Accepted(data, n), Len(other) = n,
           \A i \in DOMAIN data : \E j \in DOMAIN other : other[j] = data[i]
    PROVE  Accepted(other, n) /\ ParseVectors(other, n) = ParseVectors(data, n)
<1>1. DOMAIN data = 1..n /\ DOMAIN other = 1..n /\ Good(data, n, n)
  BY AcceptedIsGood
<1> DEFINE place == [i \in 1..n |-> CHOOSE j \in 1..n : other[j] = data[i]]
<1>2. \A i \in 1..n : place[i] \in 1..n /\ other[place[i]] = data[i]
  BY <1>1
<1>3. place \in Injection(1..n, 1..n)
  <2>1. ASSUME NEW i \in 1..n, NEW j \in 1..n, place[i] = place[j] PROVE i = j
    <3>1. data[i] = data[j]
      BY <1>2, <2>1
    <3>2. QED
      BY <1>1, <3>1 DEF Good
  <2>2. place \in [1..n -> 1..n]
    BY <1>2
  <2> HIDE DEF place
  <2>3. QED
    BY <2>1, <2>2 DEF Injection, IsInjective
<1> HIDE DEF place
<1>4. place \in Surjection(1..n, 1..n)
  <2>1. IsFiniteSet(1..n)
    BY FS_Interval
  <2>2. QED
    BY <1>3, <2>1, FS_Injection
<1>5. ASSUME NEW j \in 1..n
      PROVE  \E i \in 1..n : j = place[i] /\ other[j] = data[i]
  <2>1. PICK i \in 1..n : place[i] = j
    BY <1>4 DEF Surjection
  <2>2. QED
    BY <1>2, <2>1
<1>6. Good(other, n, n)
  <2>1. \A j \in 1..n : WellFormed(other[j], n)
    BY <1>1, <1>5 DEF Good
  <2>2. ASSUME NEW j \in 1..n, NEW k \in 1..n, other[j].index = other[k].index PROVE j = k
    <3>1. PICK a \in 1..n : j = place[a] /\ other[j] = data[a]
      BY <1>5
    <3>2. PICK b \in 1..n : k = place[b] /\ other[k] = data[b]
      BY <1>5
    <3>3. a = b
      BY <1>1, <2>2, <3>1, <3>2 DEF Good
    <3>4. QED
      BY <3>1, <3>2, <3>3
  <2>3. QED
    BY <2>1, <2>2 DEF Good
<1>7. Accepted(other, n)
  BY <1>6, AcceptedIsGood
<1>8. ASSUME NEW k \in 1..n
      PROVE  ParseVectors(other, n)[k] = ParseVectors(data, n)[k]
  <2>1. PICK i \in DOMAIN data : data[i].index = k - 1
    BY EveryTextHasAnItem
  <2>2. PICK j \in DOMAIN other : other[j] = data[i]
    OBVIOUS
  <2>3. data[i].index + 1 = k
    BY <2>1
  <2>4. ParseVectors(data, n)[k] = data[i].vector
    BY <2>3, ParsedByIndex
  <2>5. ParseVectors(other, n)[k] = other[j].vector
    BY <1>7, <2>2, <2>3, ParsedByIndex
  <2>6. QED
    BY <2>2, <2>4, <2>5
<1>9. QED
  BY <1>7, <1>8 DEF ParseVectors

-----------------------------------------------------------------------------
(***************************************************************************)
(* The inductive invariant.                                                *)
(***************************************************************************)
(* The loop has dealt with every provider that is not in unbuilt: each is   *)
(* in a table or among the failures.                                        *)
BuildInv ==
    /\ pc \in {"down", "init_llm"} => no_client = {} /\ no_model = {}
    /\ pc \in {"providers", "init_skills", "serving"} =>
          /\ llm_instances = Providers \ (unbuilt \cup no_client)
          /\ langchain_models = Providers \ (unbuilt \cup no_model)
          /\ unbuilt \cap no_model = {} /\ no_client \subseteq no_model
    /\ pc \in {"init_skills", "serving"} => unbuilt = {}

GatewayInv == /\ provider_configs = llm_instances
              /\ langsmith = "off" => ~ tracing
              /\ BuildInv

(* What the index says of a name holds of its file until somebody edits it. *)
IndexRight(n) ==
    skill_index[n] # NoMeta =>
       LET d == skill_index[n].dir
       IN  /\ d \in Dirs
           /\ written[d] = scanned[d] => /\ disk[d].name = n
                                         /\ disk[d].enabled = skill_index[n].enabled

RegistryInv ==
    /\ \A d \in Dirs : written[d] <= edits
    /\ pc = "serving" =>
          /\ \A d \in Dirs : scanned[d] <= written[d]
          /\ \A n \in SkillNames :
                /\ IndexRight(n)
                /\ skill_bundles[n] # NoBundle => Explained(n, skill_bundles[n])

CacheInv == settings_cache = "caching" => first = skill_bundles

StartInv == pc \in {"init_llm", "providers", "init_skills"} => \A c \in Calls : call[c].at # "await"

(* What holds of a record by itself.                                        *)
RecordInv(r) ==
    /\ r.kind = "embed" /\ r.at = "await" =>
          r.batch.texts \in 1..MAX_EMBEDDING_BATCH_SIZE
    /\ r.kind = "embed" /\ r.answer = "ok" =>
          r.batch.vectors = [k \in 1..r.batch.texts |-> k - 1]

(* What holds of the run of a call under way and the tables.                *)
RunInv(kind, run) ==
    /\ langsmith = "off" => ~ run.reported
    /\ kind = "skill" =>
          /\ run.name \in SkillNames
          /\ run.bundle \in Bundles
          /\ settings_cache = "caching" => run.bundle = first[run.name]
          /\ pc = "serving" => Explained(run.name, run.bundle)

FlightInv(r) == r.at = "await" => RunInv(r.kind, r.run)

CallInv == \A c \in Calls : RecordInv(call[c]) /\ FlightInv(call[c])

IInv == TypeOK /\ GatewayInv /\ RegistryInv /\ CacheInv /\ StartInv /\ CallInv

-----------------------------------------------------------------------------
(***************************************************************************)
(* Records.                                                                *)
(***************************************************************************)
LEMMA BundleIsThere == ASSUME NEW b \in Bundles PROVE b # NoBundle
BY SkillAssumption DEF Bundles, NoBundle, Dirs

LEMMA EmptyInVectors == <<>> \in Vectors
<1>1. <<>> = [k \in 1..0 |-> 0]
  OBVIOUS
<1>2. [k \in 1..0 |-> 0] \in [1..0 -> 0..(0 - 1)]
  OBVIOUS
<1>3. 0 \in 0..MAX_EMBEDDING_BATCH_SIZE
  BY EmbeddingAssumption
<1>4. QED
  BY <1>1, <1>2, <1>3 DEF Vectors

LEMMA NoBatchRight == NoBatch \in Batches /\ NoRun \in Runs
BY EmptyInVectors, EmbeddingAssumption DEF NoBatch, NoRun, Batches, Runs

LEMMA IdleRight == Idle \in Records /\ RecordInv(Idle) /\ FlightInv(Idle)
BY NoBatchRight
   DEF Idle, Records, RecordInv, FlightInv, Kinds, Answers, Refusals, Failures

LEMMA RefusedRight ==
    ASSUME NEW kind \in Kinds, NEW errno \in Refusals \cup Failures
    PROVE  /\ Refused(kind, errno) \in Records
           /\ RecordInv(Refused(kind, errno))
           /\ FlightInv(Refused(kind, errno))
BY NoBatchRight
   DEF Refused, Records, RecordInv, FlightInv, Answers, Refusals, Failures

LEMMA StartedRight ==
    ASSUME NEW kind \in Kinds, NEW batch \in Batches, NEW run \in Runs,
           kind = "embed" => batch.texts \in 1..MAX_EMBEDDING_BATCH_SIZE
    PROVE  /\ Started(kind, batch, run) \in Records
           /\ RecordInv(Started(kind, batch, run))
           /\ FlightInv(Started(kind, batch, run)) <=> RunInv(kind, run)
BY DEF Started, Records, RecordInv, FlightInv, Answers, Refusals, Failures

LEMMA EndedRight ==
    ASSUME NEW kind \in Kinds, NEW answer \in {"ok"} \cup Failures, NEW batch \in Batches,
           kind = "embed" /\ answer = "ok"
              => batch.vectors = [k \in 1..batch.texts |-> k - 1]
    PROVE  /\ Ended(kind, answer, batch) \in Records
           /\ RecordInv(Ended(kind, answer, batch))
           /\ FlightInv(Ended(kind, answer, batch))
BY NoBatchRight
   DEF Ended, Records, RecordInv, FlightInv, Answers, Refusals, Failures

-----------------------------------------------------------------------------
(***************************************************************************)
(* The errnos of the checks before a call.                                 *)
(***************************************************************************)
LEMMA TextInputsRight ==
    ASSUME NEW input \in TextInputs
    PROVE  /\ input.errno \in {"none", "LLM_INVALID_INPUT"}
           /\ input.errno = "none" => input.texts \in 1..MAX_EMBEDDING_BATCH_SIZE
BY DEF TextInputs, TextsErrno

LEMMA ImageInputsRight ==
    ASSUME NEW errno \in ImageInputs
    PROVE  errno \in {"none", "LLM_INVALID_INPUT", "crash"}
<1>1. \A image : ImageErrno(image) \in {"none", "LLM_INVALID_INPUT", "crash"}
  BY DEF ImageErrno
<1>2. \A images : ImagesErrno(images) \in {"none", "LLM_INVALID_INPUT", "crash"}
  BY <1>1 DEF ImagesErrno
<1>3. QED
  BY <1>2 DEF ImageInputs, MultimodalErrno

LEMMA VendorErrnoRight ==
    ASSUME NEW name, NEW able
    PROVE  VendorErrno(name, able)
              \in {"none", "LLM_NOT_INITIALIZED", "LLM_CAPABILITY_NOT_CONFIGURED",
                   "LLM_PROVIDER_NOT_FOUND"}
BY DEF VendorErrno, OrElse, GetProviderConfigErrno, Capability, GetLlmErrno,
       ResolveErrno

LEMMA LangchainErrnoRight ==
    ASSUME NEW name, NEW undeclared
    PROVE  LangchainErrno(name, undeclared) \in {"none", "LLM_NOT_INITIALIZED", undeclared}
BY DEF LangchainErrno, OrElse, Declared, GetLangchainErrno, ResolveErrno

LEMMA LoadErrnoRight ==
    ASSUME NEW n
    PROVE  LoadErrno(n) \in {"none", "SKILL_NOT_INITIALIZED", "SKILL_NOT_FOUND",
                            "SKILL_DISABLED", "SKILL_LOAD_FAILED", "crash"}
BY DEF LoadErrno, GetMetaErrno

(* A body that load() returns is explained by the index.                    *)
LEMMA LoadedExplained ==
    ASSUME TypeOK, RegistryInv, pc = "serving", NEW n \in SkillNames, LoadErrno(n) = "none"
    PROVE  Loaded(n) \in Bundles /\ Explained(n, Loaded(n))
<1>1. skill_index[n] # NoMeta /\ skill_index[n].enabled
  BY DEF LoadErrno, GetMetaErrno
<1> DEFINE d == skill_index[n].dir
<1>2. /\ d \in Dirs
      /\ written[d] = scanned[d] => /\ disk[d].name = n
                                    /\ disk[d].enabled = skill_index[n].enabled
  BY <1>1 DEF RegistryInv, IndexRight
<1>3. CASE Cached(n)
  BY <1>3 DEF Cached, Loaded, RegistryInv, TypeOK, SkillTypeOK
<1>4. CASE ~ Cached(n)
  <2>1. Loaded(n) = [dir |-> d, name |-> disk[d].name, enabled |-> disk[d].enabled,
                     edit |-> written[d]]
    BY <1>4 DEF Loaded, Parsed
  <2>2. disk[d] \in [kind : {"skill", "bad", "fatal"}, name : SkillNames,
                     enabled : BOOLEAN]
    BY <1>2, SkillAssumption DEF TypeOK, SkillTypeOK
  <2>3. written[d] \in 0..MaxEdits /\ scanned[d] <= written[d]
    BY <1>2 DEF TypeOK, SkillTypeOK, RegistryInv
  <2>4. Loaded(n) \in Bundles
    BY <1>2, <2>1, <2>2, <2>3 DEF Bundles
  <2>5. Explained(n, Loaded(n))
    <3>1. /\ Loaded(n).dir = d /\ Loaded(n).name = disk[d].name
          /\ Loaded(n).enabled = disk[d].enabled /\ Loaded(n).edit = written[d]
      BY <2>1
    <3>2. Loaded(n).edit >= scanned[Loaded(n).dir]
      BY <1>2, <2>3, <3>1 DEF TypeOK, SkillTypeOK
    <3>3. Loaded(n).edit = scanned[Loaded(n).dir]
             => Loaded(n).name = n /\ Loaded(n).enabled
      BY <1>1, <1>2, <3>1, Zenon
    <3>4. QED
      BY <3>1, <3>2, <3>3 DEF Explained
  <2>6. QED
    BY <2>4, <2>5
<1>5. QED
  BY <1>3, <1>4

-----------------------------------------------------------------------------
(***************************************************************************)
(* Steps of the calls.                                                     *)
(***************************************************************************)
tables == <<gateway, files, registry, pc, lives>>

(* A step that replaces one record and leaves the tables alone.             *)
LEMMA OneCall ==
    ASSUME IInv, NEW c \in Calls, NEW r \in Records, RecordInv(r), FlightInv(r),
           pc = "serving" \/ r.at # "await",
           call' = [call EXCEPT ![c] = r], UNCHANGED tables
    PROVE  IInv'
<1>1. TypeOK'
  BY DEF IInv, TypeOK, GatewayTypeOK, SkillTypeOK, tables, gateway, files, registry
<1>2. GatewayInv' /\ RegistryInv' /\ CacheInv'
  BY DEF IInv, GatewayInv, BuildInv, RegistryInv, CacheInv, IndexRight, Explained, tables, gateway,
         files, registry
<1>3. \A x \in Calls : call'[x] = IF x = c THEN r ELSE call[x]
  BY DEF IInv, TypeOK
<1>4. StartInv'
  BY <1>3 DEF IInv, StartInv, tables
<1>5. CallInv'
  <2> SUFFICES ASSUME NEW x \in Calls PROVE (RecordInv(call[x]) /\ FlightInv(call[x]))'
    BY DEF CallInv
  <2>1. RecordInv(call'[x]) /\ FlightInv(call'[x])
    BY <1>3 DEF IInv, CallInv
  <2>2. QED
    BY <2>1 DEF RecordInv, FlightInv, RunInv, Explained, tables, gateway, registry
<1>6. QED
  BY <1>1, <1>2, <1>4, <1>5 DEF IInv

(* Decide() with an errno that is right for its kind.                       *)
LEMMA DecideRight ==
    ASSUME IInv, NEW c \in Calls, pc = "serving", NEW kind \in Kinds, NEW batch, NEW run,
           NEW errno \in {"none"} \cup Refusals \cup Failures,
           errno = "none" =>
              /\ batch \in Batches /\ run \in Runs /\ RunInv(kind, run)
              /\ kind = "embed" => batch.texts \in 1..MAX_EMBEDDING_BATCH_SIZE,
           Decide(c, kind, errno, Started(kind, batch, run)), UNCHANGED tables
    PROVE  IInv'
<1>1. CASE errno = "none"
  <2>1. call' = [call EXCEPT ![c] = Started(kind, batch, run)]
    BY <1>1 DEF Decide
  <2>2. /\ Started(kind, batch, run) \in Records
        /\ RecordInv(Started(kind, batch, run))
        /\ FlightInv(Started(kind, batch, run))
    BY <1>1, StartedRight
  <2>3. QED
    BY <2>1, <2>2, OneCall
<1>2. CASE errno # "none"
  <2>1. call' = [call EXCEPT ![c] = Refused(kind, errno)]
    BY <1>2 DEF Decide
  <2>2. /\ Refused(kind, errno) \in Records
        /\ RecordInv(Refused(kind, errno))
        /\ FlightInv(Refused(kind, errno))
    BY <1>2, RefusedRight
  <2>3. Refused(kind, errno).at # "await"
    BY DEF Refused
  <2>4. QED
    BY <2>1, <2>2, <2>3, OneCall
<1>3. QED
  BY <1>1, <1>2

LEMMA NoRunRight == ASSUME NEW kind \in Kinds \ {"skill"} PROVE RunInv(kind, NoRun)
BY DEF RunInv, NoRun

LEMMA ReportedRight ==
    ASSUME IInv PROVE Reported \in BOOLEAN /\ (langsmith = "off" => ~ Reported)
BY DEF IInv, GatewayInv, BuildInv, TypeOK, GatewayTypeOK, Reported

LEMMA EmbedStep ==
    ASSUME IInv, NEW c \in Calls, pc = "serving", Embed(c), UNCHANGED tables
    PROVE  IInv'
<1>1. PICK input \in TextInputs, name \in Names :
         Decide(c, "embed", OrElse(input.errno, VendorErrno(name, Embedders)),
                Started("embed", [texts |-> input.texts, vectors |-> <<>>], NoRun))
  BY DEF Embed
<1> DEFINE errno == OrElse(input.errno, VendorErrno(name, Embedders))
<1>2. errno \in {"none", "LLM_INVALID_INPUT", "LLM_NOT_INITIALIZED",
                "LLM_CAPABILITY_NOT_CONFIGURED", "LLM_PROVIDER_NOT_FOUND"}
  BY TextInputsRight, VendorErrnoRight DEF OrElse
<1>3. errno = "none" => input.texts \in 1..MAX_EMBEDDING_BATCH_SIZE
  BY TextInputsRight DEF OrElse
<1>4. errno = "none" => [texts |-> input.texts, vectors |-> <<>>] \in Batches
  BY <1>3, EmptyInVectors, EmbeddingAssumption DEF Batches
<1>5. RunInv("embed", NoRun) /\ NoRun \in Runs
  BY NoRunRight, NoBatchRight DEF Kinds
<1> HIDE DEF errno
<1>6. QED
  BY <1>1, <1>2, <1>3, <1>4, <1>5, DecideRight DEF errno, Kinds, Refusals, Failures

LEMMA AnalyzeStep ==
    ASSUME IInv, NEW c \in Calls, pc = "serving", Analyze(c), UNCHANGED tables
    PROVE  IInv'
<1>1. PICK input \in ImageInputs, name \in Names :
         Decide(c, "analyze", OrElse(input, VendorErrno(name, Lookers)),
                Started("analyze", NoBatch, NoRun))
  BY DEF Analyze
<1> DEFINE errno == OrElse(input, VendorErrno(name, Lookers))
<1>2. errno \in {"none", "LLM_INVALID_INPUT", "crash", "LLM_NOT_INITIALIZED",
                "LLM_CAPABILITY_NOT_CONFIGURED", "LLM_PROVIDER_NOT_FOUND"}
  BY ImageInputsRight, VendorErrnoRight DEF OrElse
<1>3. RunInv("analyze", NoRun) /\ NoRun \in Runs /\ NoBatch \in Batches
  BY NoRunRight, NoBatchRight DEF Kinds
<1> HIDE DEF errno
<1>4. QED
  BY <1>1, <1>2, <1>3, DecideRight DEF errno, Kinds, Refusals, Failures

LEMMA ChatStep ==
    ASSUME IInv, NEW c \in Calls, pc = "serving", Chat(c), UNCHANGED tables
    PROVE  IInv'
<1> DEFINE errno == OrElse(Declared(zhipu, "LLM_CALL_FAILED"), GetLlmErrno(zhipu))
<1>1. Decide(c, "chat", errno, Started("chat", NoBatch, NoRun))
  BY DEF Chat
<1>2. errno \in {"none", "LLM_CALL_FAILED", "LLM_NOT_INITIALIZED", "LLM_PROVIDER_NOT_FOUND"}
  BY DEF OrElse, Declared, GetLlmErrno, ResolveErrno
<1>3. RunInv("chat", NoRun) /\ NoRun \in Runs /\ NoBatch \in Batches
  BY NoRunRight, NoBatchRight DEF Kinds
<1> HIDE DEF errno
<1>4. QED
  BY <1>1, <1>2, <1>3, DecideRight DEF Kinds, Refusals, Failures

LEMMA LangchainStep ==
    ASSUME IInv, NEW c \in Calls, pc = "serving", Langchain(c), UNCHANGED tables
    PROVE  IInv'
<1> DEFINE run == [NoRun EXCEPT !.reported = Reported]
<1>1. PICK name \in Names :
         Decide(c, "langchain", LangchainErrno(name, "LLM_CALL_FAILED"),
                Started("langchain", NoBatch, run))
  BY DEF Langchain
<1>2. LangchainErrno(name, "LLM_CALL_FAILED")
         \in {"none", "LLM_NOT_INITIALIZED", "LLM_CALL_FAILED"}
  BY LangchainErrnoRight
<1>3. run = [name |-> "none", bundle |-> NoBundle, reported |-> Reported]
  BY DEF NoRun
<1>4. run \in Runs /\ RunInv("langchain", run)
  BY <1>3, ReportedRight DEF Runs, RunInv
<1> HIDE DEF run
<1>5. QED
  BY <1>1, <1>2, <1>4, NoBatchRight, DecideRight DEF Kinds, Refusals, Failures

(* run_skill() also changes the cache of bodies: what load() returns and    *)
(* what the ghost records stay the same while caching is on.                *)
LEMMA LoadStep ==
    ASSUME IInv, pc = "serving", NEW n \in SkillNames, LoadErrno(n) = "none", Load(n)
    PROVE  /\ skill_bundles' \in [SkillNames -> Bundles \cup {NoBundle}]
           /\ first' \in [SkillNames -> Bundles \cup {NoBundle}]
           /\ \A m \in SkillNames :
                 skill_bundles'[m] # NoBundle => Explained(m, skill_bundles'[m])
           /\ \A m \in SkillNames : first[m] # NoBundle => first'[m] = first[m]
           /\ settings_cache = "caching" =>
                 first' = skill_bundles' /\ first'[n] = Loaded(n)
<1>1. Loaded(n) \in Bundles /\ Explained(n, Loaded(n))
  BY LoadedExplained DEF IInv
<1>2. /\ skill_bundles \in [SkillNames -> Bundles \cup {NoBundle}]
      /\ first \in [SkillNames -> Bundles \cup {NoBundle}]
  BY DEF IInv, TypeOK, SkillTypeOK
<1>3. skill_bundles' = IF settings_cache = "caching"
                       THEN [skill_bundles EXCEPT ![n] = Loaded(n)] ELSE skill_bundles
  BY DEF Load, CacheKey
<1>4. first' = IF first[n] = NoBundle THEN [first EXCEPT ![n] = Loaded(n)] ELSE first
  BY DEF Load
<1>5. \A m \in SkillNames : skill_bundles[m] # NoBundle => Explained(m, skill_bundles[m])
  BY DEF IInv, RegistryInv
<1>6. ASSUME settings_cache = "caching"
      PROVE  first' = skill_bundles' /\ first'[n] = Loaded(n)
  <2>1. first = skill_bundles
    BY <1>6 DEF IInv, CacheInv
  <2>2. CASE first[n] = NoBundle
    BY <1>2, <1>3, <1>4, <1>6, <2>1, <2>2
  <2>3. CASE first[n] # NoBundle
    <3>1. Loaded(n) = skill_bundles[n]
      BY <1>6, <2>1, <2>3 DEF Loaded, Cached
    <3>2. skill_bundles' = skill_bundles
      BY <1>2, <1>3, <3>1
    <3>3. QED
      BY <1>4, <2>1, <2>3, <3>1, <3>2
  <2>4. QED
    BY <2>2, <2>3
<1>7. QED
  BY <1>1, <1>2, <1>3, <1>4, <1>5, <1>6

LEMMA RunSkillStep ==
    ASSUME IInv, NEW c \in Calls, pc = "serving", RunSkill(c),
           UNCHANGED <<gateway, files, pc, lives>>
    PROVE  IInv'
<1>1. PICK n \in SkillNames, name \in Names :
         /\ Decide(c, "skill", OrElse(LoadErrno(n), LangchainErrno(name, "SKILL_RUN_FAILED")),
                   Started("skill", NoBatch, [name |-> n, bundle |-> Loaded(n),
                                           reported |-> Reported]))
         /\ IF LoadErrno(n) = "none" THEN Load(n) ELSE UNCHANGED registry
  BY DEF RunSkill
<1> DEFINE errno == OrElse(LoadErrno(n), LangchainErrno(name, "SKILL_RUN_FAILED"))
           run   == [name |-> n, bundle |-> Loaded(n), reported |-> Reported]
<1>2. errno \in {"none"} \cup Refusals \cup Failures
  BY LoadErrnoRight, LangchainErrnoRight DEF OrElse, Refusals, Failures
<1>3. CASE LoadErrno(n) # "none"
  <2>1. errno # "none"
    BY <1>3 DEF OrElse
  <2>2. UNCHANGED tables
    BY <1>1, <1>3 DEF tables
  <2> HIDE DEF errno, run
  <2>3. QED
    BY <1>1, <1>2, <2>1, <2>2, DecideRight DEF errno, run, Kinds
<1>4. CASE LoadErrno(n) = "none"
  <2>1. Load(n)
    BY <1>1, <1>4
  <2>2. UNCHANGED <<skill_index, settings_cache, scanned>>
    BY <2>1 DEF Load
  <2>3. Loaded(n) \in Bundles /\ Explained(n, Loaded(n))
    BY <1>4, LoadedExplained DEF IInv
  <2>4. run \in Runs
    BY <2>3, ReportedRight DEF Runs
  <2> DEFINE r == IF errno = "none" THEN Started("skill", NoBatch, run)
                                    ELSE Refused("skill", errno)
  <2>5. call' = [call EXCEPT ![c] = r]
    BY <1>1 DEF Decide
  <2>6. r \in Records /\ RecordInv(r)
    <3>1. CASE errno = "none"
      BY <2>4, <3>1, NoBatchRight, StartedRight DEF Kinds
    <3>2. CASE errno # "none"
      BY <1>2, <3>2, RefusedRight DEF Kinds
    <3>3. QED
      BY <3>1, <3>2
  <2>7. r.at = "await" => r.kind = "skill" /\ r.run = run
    BY DEF Started, Refused
  <2> HIDE DEF r, errno
  <2>8. \A x \in Calls : call'[x] = IF x = c THEN r ELSE call[x]
    BY <2>5 DEF IInv, TypeOK
  <2>9. TypeOK'
    BY <2>2, <2>5, <2>6, <2>1, <1>4, LoadStep
       DEF IInv, TypeOK, GatewayTypeOK, SkillTypeOK, gateway, files
  <2>10. GatewayInv' /\ StartInv'
    BY DEF IInv, GatewayInv, BuildInv, StartInv, gateway
  <2>11. RegistryInv'
    <3>1. \A m \in SkillNames :
             skill_bundles'[m] # NoBundle => Explained(m, skill_bundles'[m])
      BY <1>4, <2>1, LoadStep
    <3>2. ASSUME NEW m \in SkillNames
          PROVE  (skill_bundles[m] # NoBundle => Explained(m, skill_bundles[m]))'
      BY <2>2, <3>1 DEF Explained, NoBundle
    <3>3. ASSUME NEW m \in SkillNames PROVE IndexRight(m)'
      <4>1. IndexRight(m)
        BY DEF IInv, RegistryInv
      <4>2. QED
        BY <2>2, <4>1 DEF IndexRight, NoMeta, Dirs, files
    <3>4. (\A d \in Dirs : written[d] <= edits)' /\ (\A d \in Dirs : scanned[d] <= written[d])'
      BY <2>2 DEF IInv, RegistryInv, Dirs, files
    <3>5. QED
      BY <3>2, <3>3, <3>4 DEF RegistryInv
  <2>12. CacheInv'
    BY <2>1, <2>2, <1>4, LoadStep DEF CacheInv
  <2>13. ASSUME NEW x \in Calls PROVE (RecordInv(call[x]) /\ FlightInv(call[x]))'
    <3>1. CASE x = c
      <4>1. call'[x] = r
        BY <2>8, <3>1
      <4>2. call'[x].at = "await" =>
              /\ call'[x].run.name = n /\ call'[x].run.bundle = Loaded(n)
              /\ call'[x].run.reported = Reported
        BY <2>7, <4>1
      <4>3. settings_cache = "caching" => Loaded(n) = first'[n]
        BY <1>4, <2>1, LoadStep
      <4>4. langsmith' = "off" => ~ Reported
        BY ReportedRight DEF gateway
      <4>5. FlightInv(call[x])'
        BY <2>2, <2>3, <4>2, <4>3, <4>4 DEF FlightInv, RunInv, Explained
      <4>6. QED
        BY <2>6, <4>1, <4>5 DEF RecordInv
    <3>2. CASE x # c
      <4>1. call'[x] = call[x] /\ RecordInv(call[x]) /\ FlightInv(call[x])
        BY <2>8, <3>2 DEF IInv, CallInv
      <4>2. call[x].at = "await" /\ call[x].kind = "skill" /\ settings_cache = "caching"
               => first'[call[x].run.name] = first[call[x].run.name]
        <5>1. \A m \in SkillNames : first[m] # NoBundle => first'[m] = first[m]
          BY <1>4, <2>1, LoadStep
        <5>2. QED
          BY <4>1, <5>1, BundleIsThere DEF FlightInv, RunInv
      <4>3. FlightInv(call[x])'
        BY <2>2, <4>1, <4>2 DEF FlightInv, RunInv, Explained, gateway
      <4>4. QED
        BY <4>1, <4>3 DEF RecordInv
    <3>3. QED
      BY <3>1, <3>2
  <2>14. QED
    BY <2>9, <2>10, <2>11, <2>12, <2>13 DEF IInv, CallInv
<1>5. QED
  BY <1>3, <1>4

(* What parse_vectors() makes of a vendor's answer.                         *)
LEMMA ParsingsRight ==
    ASSUME NEW n \in 1..MAX_EMBEDDING_BATCH_SIZE, NEW p \in Parsings[n]
    PROVE  /\ p.answer \in {"ok", "LLM_INVALID_RESPONSE"}
           /\ p.vectors \in Vectors
           /\ p.answer = "ok" => p.vectors = [k \in 1..n |-> k - 1]
<1>0. n \in Nat /\ n - 1 \in Nat /\ n \in 0..MAX_EMBEDDING_BATCH_SIZE
  BY EmbeddingAssumption
<1>1. PICK data \in VendorAnswers(n) :
         p = IF Accepted(data, n)
             THEN [answer |-> "ok", vectors |-> ParseVectors(data, n)]
             ELSE [answer |-> "LLM_INVALID_RESPONSE", vectors |-> <<>>]
  BY DEF Parsings
<1>2. PICK m \in {n - 1, n} : data \in [1..m -> Items(n)]
  BY DEF VendorAnswers
<1>3. data \in Seq(Items(n))
  BY <1>0, <1>2
<1>4. CASE ~ Accepted(data, n)
  BY <1>1, <1>4, EmptyInVectors
<1>5. CASE Accepted(data, n)
  <2>1. ASSUME NEW i \in DOMAIN data PROVE data[i].vector = data[i].index
    <3>1. Good(data, n, n) /\ DOMAIN data = 1..n
      BY <1>0, <1>3, <1>5, AcceptedIsGood
    <3>2. data[i].vector # NotNumeric /\ data[i] \in Items(n)
      BY <1>2, <3>1 DEF Good, WellFormed
    <3>3. QED
      BY <3>2 DEF Items
  <2>2. ASSUME NEW k \in 1..n PROVE ParseVectors(data, n)[k] = k - 1
    <3>1. PICK i \in DOMAIN data : data[i].index = k - 1
      BY <1>0, <1>3, <1>5, EveryTextHasAnItem
    <3>2. ParseVectors(data, n)[data[i].index + 1] = data[i].vector
      BY <1>0, <1>3, <1>5, ParsedByIndex
    <3>3. data[i].index + 1 = k
      BY <3>1
    <3>4. QED
      BY <2>1, <3>1, <3>2, <3>3
  <2>3. ParseVectors(data, n) = [k \in 1..n |-> k - 1]
    BY <2>2 DEF ParseVectors
  <2>4. [k \in 1..n |-> k - 1] \in [1..n -> 0..(n - 1)]
    BY <1>0
  <2>5. QED
    BY <1>0, <1>1, <1>5, <2>3, <2>4 DEF Vectors
<1>6. QED
  BY <1>4, <1>5

LEMMA EndStep ==
    ASSUME IInv, NEW c \in Calls, NEW answer \in {"ok"} \cup Failures, NEW batch \in Batches,
           call[c].kind = "embed" /\ answer = "ok"
              => batch.vectors = [k \in 1..batch.texts |-> k - 1],
           End(c, answer, batch), UNCHANGED tables
    PROVE  IInv'
<1>1. call[c].kind \in Kinds
  BY DEF IInv, TypeOK, Records
<1>2. /\ Ended(call[c].kind, answer, batch) \in Records
      /\ RecordInv(Ended(call[c].kind, answer, batch))
      /\ FlightInv(Ended(call[c].kind, answer, batch))
  BY <1>1, EndedRight
<1>3. Ended(call[c].kind, answer, batch).at # "await"
  BY DEF Ended
<1>4. QED
  BY <1>2, <1>3, OneCall DEF End

LEMMA ReplyStep ==
    ASSUME IInv, NEW c \in Calls, Reply(c)
    PROVE  IInv'
<1>1. Answered(c) /\ UNCHANGED tables
  BY DEF Reply, Answer, tables
<1>2. call[c] \in Records /\ RecordInv(call[c]) /\ call[c].at = "await"
  BY <1>1 DEF IInv, TypeOK, CallInv, Answered
<1>3. CASE call[c].kind = "embed" /\ EmbedEnds(c)
  <2>1. call[c].batch \in Batches
        /\ call[c].batch.texts \in 1..MAX_EMBEDDING_BATCH_SIZE
    BY <1>2, <1>3 DEF Records, RecordInv
  <2>2. CASE \E answer \in {"LLM_CALL_FAILED", "crash"} : End(c, answer, call[c].batch)
    BY <1>1, <2>1, <2>2, EndStep DEF Failures
  <2>3. ASSUME NEW p \in Parsings[call[c].batch.texts],
               End(c, p.answer, [call[c].batch EXCEPT !.vectors = p.vectors])
        PROVE  IInv'
    <3> DEFINE n == call[c].batch.texts
               batch == [call[c].batch EXCEPT !.vectors = p.vectors]
    <3>1. /\ p.answer \in {"ok", "LLM_INVALID_RESPONSE"}
          /\ p.vectors \in Vectors
          /\ p.answer = "ok" => p.vectors = [k \in 1..n |-> k - 1]
      BY <2>1, <2>3, ParsingsRight
    <3>2. batch \in Batches /\ batch.texts = n /\ batch.vectors = p.vectors
      BY <2>1, <3>1 DEF Batches
    <3> HIDE DEF batch
    <3>3. QED
      BY <1>1, <2>3, <3>1, <3>2, EndStep DEF Failures, batch
  <2>4. QED
    BY <1>3, <2>2, <2>3 DEF EmbedEnds
<1>4. ASSUME NEW answer \in Endings(call[c].kind), End(c, answer, NoBatch)
      PROVE  IInv'
  <2>1. call[c].kind # "embed" /\ answer \in {"ok"} \cup Failures
    BY <1>2, <1>4 DEF Endings, Records, Kinds, Failures
  <2>2. QED
    BY <1>1, <1>4, <2>1, NoBatchRight, EndStep
<1>5. QED
  BY <1>1, <1>3, <1>4 DEF Answered

LEMMA BeginStep ==
    ASSUME IInv, NEW c \in Calls, Begin(c)
    PROVE  IInv'
<1>1. pc = "serving" /\ UNCHANGED <<gateway, files, pc, lives>>
  BY DEF Begin, MayBegin
<1>2. CASE UNCHANGED registry /\ (Embed(c) \/ Analyze(c) \/ Chat(c) \/ Langchain(c))
  <2>1. UNCHANGED tables
    BY <1>1, <1>2 DEF tables
  <2>2. QED
    BY <1>1, <1>2, <2>1, EmbedStep, AnalyzeStep, ChatStep, LangchainStep
<1>3. CASE RunSkill(c)
  BY <1>1, <1>3, RunSkillStep
<1>4. QED
  BY <1>2, <1>3 DEF Begin

-----------------------------------------------------------------------------
(***************************************************************************)
(* Steps of the lifespan.                                                  *)
(***************************************************************************)
(* The last of a set of directories, which the index takes.                 *)
LEMMA LastDir ==
    ASSUME NEW S \in SUBSET Dirs, S # {}
    PROVE  \E d \in S : \A e \in S : e <= d
<1> DEFINE R == {p \in Nat \X Nat : p[1] < p[2]}
           T == {NumDirs - d : d \in S}
<1>1. NumDirs \in Nat /\ S \subseteq 1..NumDirs
  BY SkillAssumption DEF Dirs
<1>2. T \subseteq Nat /\ T # {}
  <2>1. \A d \in S : NumDirs - d \in Nat
    BY <1>1
  <2>2. QED
    BY <2>1
<1>3. PICK x \in T : \A y \in T : ~ (<<y, x>> \in R)
  <2>1. IsWellFoundedOn(R, Nat)
    BY NatLessThanWellFounded DEF OpToRel
  <2> HIDE DEF R, T
  <2>2. QED
    BY <1>2, <2>1, WFMin
<1>4. \A y \in T : ~ (y < x)
  BY <1>2, <1>3
<1>5. PICK d \in S : x = NumDirs - d
  OBVIOUS
<1>6. ASSUME NEW e \in S PROVE e <= d
  <2>1. NumDirs - e \in T
    OBVIOUS
  <2>2. ~ (NumDirs - e < NumDirs - d)
    BY <1>4, <1>5, <2>1
  <2>3. QED
    BY <1>1, <2>2
<1>7. QED
  BY <1>6

(* The index of a scan that just ended says what the files say.             *)
LEMMA IndexOfScan ==
    ASSUME SkillTypeOK, NEW reached \in SUBSET Dirs
    PROVE  /\ Index(reached) \in [SkillNames -> Metas]
           /\ \A n \in SkillNames :
                 Index(reached)[n] # NoMeta =>
                    LET d == Index(reached)[n].dir
                    IN  /\ d \in Dirs
                        /\ disk[d].name = n
                        /\ disk[d].enabled = Index(reached)[n].enabled
<1> DEFINE Last(n) == CHOOSE d \in Claims(n, reached) :
                         \A e \in Claims(n, reached) : e <= d
           Entry(n) == [dir |-> Last(n), enabled |-> disk[Last(n)].enabled]
<1>1. ASSUME NEW n \in SkillNames
      PROVE  Index(reached)[n] = IF Claims(n, reached) = {} THEN NoMeta ELSE Entry(n)
  BY <1>1 DEF Index
<1>2. ASSUME NEW n \in SkillNames, Claims(n, reached) # {}
      PROVE  Last(n) \in Claims(n, reached)
  <2>1. Claims(n, reached) \in SUBSET Dirs
    BY DEF Claims
  <2>2. \E d \in Claims(n, reached) : \A e \in Claims(n, reached) : e <= d
    BY <1>2, <2>1, LastDir
  <2>3. QED
    BY <2>2
<1>3. ASSUME NEW n \in SkillNames, Claims(n, reached) # {}
      PROVE  /\ Last(n) \in Dirs /\ disk[Last(n)].name = n
             /\ disk[Last(n)].enabled \in BOOLEAN
  <2>1. Last(n) \in Dirs /\ disk[Last(n)].name = n
    BY <1>2, <1>3 DEF Claims
  <2>2. \A d \in Dirs : disk[d] \in [kind : {"skill", "bad", "fatal"},
                                     name : SkillNames, enabled : BOOLEAN]
    BY SkillAssumption DEF SkillTypeOK
  <2> HIDE DEF Last
  <2>3. QED
    BY <2>1, <2>2
<1> HIDE DEF Last
<1>4. NoMeta \in Metas
  BY SkillAssumption DEF NoMeta, Metas
<1>5. ASSUME NEW n \in SkillNames PROVE Index(reached)[n] \in Metas
  <2>1. Claims(n, reached) # {} => Entry(n) \in Metas
    BY <1>3, SkillAssumption DEF Metas, Dirs
  <2>2. QED
    BY <1>1, <1>4, <2>1
<1>6. Index(reached) \in [SkillNames -> Metas]
  <2>1. DOMAIN Index(reached) = SkillNames
    BY DEF Index
  <2>2. Index(reached) = [n \in SkillNames |-> Index(reached)[n]]
    BY DEF Index
  <2>3. QED
    BY <1>5, <2>2
<1>7. ASSUME NEW n \in SkillNames, Index(reached)[n] # NoMeta
      PROVE  LET d == Index(reached)[n].dir
             IN  /\ d \in Dirs
                 /\ disk[d].name = n
                 /\ disk[d].enabled = Index(reached)[n].enabled
  <2>1. Claims(n, reached) # {} /\ Index(reached)[n] = Entry(n)
    BY <1>1, <1>7
  <2>2. Index(reached)[n].dir = Last(n)
        /\ Index(reached)[n].enabled = disk[Last(n)].enabled
    BY <2>1
  <2>3. QED
    BY <1>3, <2>1, <2>2, Zenon
<1>8. QED
  BY <1>6, <1>7

(* The four tables of the registry are empty, or as a scan leaves them.     *)
LEMMA EmptyRight ==
    /\ Empty(NoMeta) \in [SkillNames -> Metas]
    /\ Empty(NoBundle) \in [SkillNames -> Bundles \cup {NoBundle}]
BY SkillAssumption DEF Empty, NoMeta, Metas

(* A step of the lifespan outside serving forgets no call and starts none.  *)
LEMMA BootStep ==
    ASSUME IInv, Boot PROVE IInv'
<1>1. \A c \in Calls : call'[c] = Idle
  BY DEF Boot
<1>2. TypeOK'
  <2>1. call' \in [Calls -> Records]
    BY IdleRight DEF Boot
  <2>2. lives' \in 0..MaxLives
    BY RequestsAssumption DEF IInv, TypeOK, Boot
  <2>3. GatewayTypeOK' /\ SkillTypeOK'
    BY DEF IInv, TypeOK, GatewayTypeOK, SkillTypeOK, Dirs, Boot, gateway, files, registry
  <2>4. pc' = "init_llm"
    BY DEF Boot
  <2>5. QED
    BY <2>1, <2>2, <2>3, <2>4 DEF TypeOK
<1>3. GatewayInv' /\ CacheInv'
  BY DEF IInv, GatewayInv, BuildInv, CacheInv, Boot, gateway, registry
<1>4. RegistryInv'
  BY DEF IInv, RegistryInv, Boot, files, registry
<1>5. StartInv'
  BY <1>1 DEF StartInv, Idle
<1>6. CallInv'
  BY <1>1, IdleRight DEF CallInv, RecordInv, FlightInv, Idle
<1>7. QED
  BY <1>2, <1>3, <1>4, <1>5, <1>6 DEF IInv

LEMMA StartLlmStep ==
    ASSUME IInv, StartLlm PROVE IInv'
<1>1. PICK enabled \in BOOLEAN : InitLlm(enabled)
  BY DEF StartLlm
<1>2. pc = "init_llm" /\ pc' = "providers" /\ UNCHANGED <<files, registry, lives, call>>
  BY DEF StartLlm
<1>3. \A c \in Calls : call[c].at # "await"
  BY <1>2 DEF IInv, StartInv
<1>4. GatewayTypeOK'
  BY <1>1 DEF IInv, TypeOK, GatewayTypeOK, InitLlm, Tracing
<1>5. TypeOK'
  <2>1. SkillTypeOK'
    BY <1>2 DEF IInv, TypeOK, SkillTypeOK, Dirs, files, registry
  <2>2. QED
    BY <1>2, <1>4, <2>1 DEF IInv, TypeOK
<1>6. GatewayInv'
  <2>1. BuildInv'
    BY <1>1, <1>2 DEF IInv, GatewayInv, BuildInv, InitLlm
  <2>2. langsmith' = (IF enabled THEN "on" ELSE "off") /\ tracing' = enabled
    BY <1>1 DEF InitLlm, Tracing
  <2>3. provider_configs' = llm_instances'
    BY <1>1 DEF InitLlm
  <2>4. QED
    BY <2>1, <2>2, <2>3 DEF GatewayInv
<1>7. RegistryInv' /\ CacheInv'
  BY <1>2 DEF IInv, RegistryInv, CacheInv, files, registry
<1>8. StartInv'
  BY <1>2, <1>3 DEF StartInv
<1>9. CallInv'
  BY <1>2, <1>3 DEF IInv, CallInv, RecordInv, FlightInv
<1>10. QED
  BY <1>5, <1>6, <1>7, <1>8, <1>9 DEF IInv

(* A turn of the loop puts its provider into a table or among the failures. *)
LEMMA BuildRight ==
    ASSUME IInv, pc = "providers", NEW name, NEW client \in BOOLEAN, NEW model \in BOOLEAN,
           BuildProvider(name, client, model), UNCHANGED pc
    PROVE  GatewayTypeOK' /\ GatewayInv'
<1>1. GatewayTypeOK /\ name \in unbuilt /\ name \in Providers
  BY DEF IInv, TypeOK, GatewayTypeOK, BuildProvider
<1>2. /\ unbuilt' = unbuilt \ {name} /\ (model => client)
      /\ UNCHANGED <<langsmith, tracing>>
  BY DEF BuildProvider
<1>3. /\ llm_instances' = IF client THEN llm_instances \cup {name} ELSE llm_instances
      /\ no_client' = IF client THEN no_client ELSE no_client \cup {name}
      /\ provider_configs' = IF client THEN provider_configs \cup {name} ELSE provider_configs
  BY DEF BuildProvider, Configured
<1>4. /\ langchain_models' = IF model THEN langchain_models \cup {name} ELSE langchain_models
      /\ no_model' = IF model THEN no_model ELSE no_model \cup {name}
  BY DEF BuildProvider
<1>5. /\ llm_instances = Providers \ (unbuilt \cup no_client)
      /\ langchain_models = Providers \ (unbuilt \cup no_model)
      /\ unbuilt \cap no_model = {} /\ no_client \subseteq no_model
      /\ provider_configs = llm_instances
      /\ langsmith = "off" => ~ tracing
  BY DEF IInv, GatewayInv, BuildInv
<1>6. GatewayTypeOK'
  BY <1>1, <1>2, <1>3, <1>4 DEF GatewayTypeOK
<1>7. /\ llm_instances' = Providers \ (unbuilt' \cup no_client')
      /\ provider_configs' = llm_instances'
  BY <1>1, <1>2, <1>3, <1>5
<1>8. /\ langchain_models' = Providers \ (unbuilt' \cup no_model')
      /\ unbuilt' \cap no_model' = {}
  BY <1>1, <1>2, <1>4, <1>5
<1>9. no_client' \subseteq no_model'
  BY <1>2, <1>3, <1>4, <1>5
<1>10. QED
  BY <1>2, <1>5, <1>6, <1>7, <1>8, <1>9 DEF GatewayInv, BuildInv

(* What is raised leaves the tables half filled, but alike.                 *)
LEMMA RaiseRight ==
    ASSUME IInv, NEW name, NEW client \in BOOLEAN, LoopRaises(name, client),
           pc' = "close_skills"
    PROVE  GatewayTypeOK' /\ GatewayInv'
<1>1. GatewayTypeOK /\ name \in Providers /\ unbuilt' = {}
  BY DEF IInv, TypeOK, GatewayTypeOK, LoopRaises
<1>2. /\ UNCHANGED <<langchain_models, langsmith, tracing, no_client, no_model>>
      /\ llm_instances' = IF client THEN llm_instances \cup {name} ELSE llm_instances
      /\ provider_configs' = IF client THEN provider_configs \cup {name} ELSE provider_configs
  BY DEF LoopRaises, Configured
<1>3. provider_configs = llm_instances /\ (langsmith = "off" => ~ tracing)
  BY DEF IInv, GatewayInv
<1>4. GatewayTypeOK'
  BY <1>1, <1>2 DEF GatewayTypeOK
<1>5. QED
  BY <1>2, <1>3, <1>4 DEF GatewayInv, BuildInv

LEMMA FillTablesStep ==
    ASSUME IInv, FillTables PROVE IInv'
<1>1. pc = "providers" /\ UNCHANGED <<files, registry, lives, call>>
  BY DEF FillTables
<1>2. pc' \in {"providers", "close_skills", "init_skills"}
  BY <1>1 DEF FillTables
<1>3. GatewayTypeOK' /\ GatewayInv'
  <2>1. ASSUME NEW name \in unbuilt, NEW client \in BOOLEAN, NEW model \in BOOLEAN,
               BuildProvider(name, client, model), UNCHANGED pc
        PROVE  GatewayTypeOK' /\ GatewayInv'
    BY <1>1, <2>1, BuildRight
  <2>2. ASSUME NEW name \in unbuilt, NEW client \in BOOLEAN, LoopRaises(name, client),
               pc' = "close_skills"
        PROVE  GatewayTypeOK' /\ GatewayInv'
    BY <2>2, RaiseRight
  <2>3. CASE unbuilt = {} /\ pc' = "init_skills" /\ UNCHANGED gateway
    BY <1>1, <2>3 DEF IInv, TypeOK, GatewayTypeOK, GatewayInv, BuildInv, gateway
  <2>4. QED
    BY <2>1, <2>2, <2>3 DEF FillTables
<1>4. \A c \in Calls : call[c].at # "await"
  BY <1>1 DEF IInv, StartInv
<1>5. TypeOK'
  <2>1. SkillTypeOK'
    BY <1>1 DEF IInv, TypeOK, SkillTypeOK, Dirs, files, registry
  <2>2. QED
    BY <1>1, <1>2, <1>3, <2>1 DEF IInv, TypeOK
<1>6. RegistryInv' /\ CacheInv'
  BY <1>1, <1>2 DEF IInv, RegistryInv, CacheInv, files, registry
<1>7. StartInv'
  BY <1>1, <1>4 DEF StartInv
<1>8. CallInv'
  BY <1>1, <1>4 DEF IInv, CallInv, RecordInv, FlightInv
<1>9. QED
  BY <1>3, <1>5, <1>6, <1>7, <1>8 DEF IInv

LEMMA StartSkillsStep ==
    ASSUME IInv, StartSkills PROVE IInv'
<1>1. PICK scan \in BOOLEAN, cache_loaded \in BOOLEAN :
         /\ InitSkills(scan, cache_loaded)
         /\ pc' \in {"serving", "close_skills"}
  BY DEF StartSkills
<1>2. pc = "init_skills" /\ UNCHANGED <<gateway, files, lives, call>>
  BY DEF StartSkills
<1>3. \A c \in Calls : call[c].at # "await"
  BY <1>2 DEF IInv, StartInv
<1>4. /\ skill_bundles' = Empty(NoBundle) /\ first' = Empty(NoBundle)
      /\ scanned' = written
      /\ settings_cache' \in {"caching", "reloading"}
      /\ scan => skill_index' = Index(Reached)
      /\ ~ scan => skill_index' = Empty(NoMeta)
  BY <1>1 DEF InitSkills, ClearBundles
<1>5. SkillTypeOK /\ Reached \in SUBSET Dirs
  BY DEF IInv, TypeOK, Reached
<1>6. skill_index' \in [SkillNames -> Metas]
  BY <1>4, <1>5, IndexOfScan, EmptyRight
<1>7. TypeOK'
  <2>1. GatewayTypeOK'
    BY <1>2 DEF IInv, TypeOK, GatewayTypeOK, gateway
  <2>2. /\ disk' \in [Dirs -> Contents] /\ written' \in [Dirs -> 0..MaxEdits]
        /\ scanned' \in [Dirs -> 0..MaxEdits] /\ edits' \in 0..MaxEdits
    BY <1>2, <1>4, <1>5 DEF SkillTypeOK, files
  <2>3. SkillTypeOK'
    BY <1>4, <1>6, <2>2, EmptyRight DEF SkillTypeOK, Dirs
  <2>4. QED
    BY <1>1, <1>2, <2>1, <2>3 DEF IInv, TypeOK
<1>8. GatewayInv' /\ CacheInv' /\ StartInv'
  BY <1>1, <1>2, <1>4 DEF IInv, GatewayInv, BuildInv, CacheInv, StartInv, gateway
<1>9. RegistryInv'
  <2>1. ASSUME NEW n \in SkillNames PROVE IndexRight(n)'
    <3>1. CASE ~ scan
      BY <1>4, <3>1 DEF IndexRight, Empty, NoMeta
    <3>2. CASE scan
      <4>1. skill_index'[n] = Index(Reached)[n]
        BY <1>4, <3>2
      <4>2. Index(Reached)[n] # NoMeta =>
               LET d == Index(Reached)[n].dir
               IN  /\ d \in Dirs /\ disk[d].name = n
                   /\ disk[d].enabled = Index(Reached)[n].enabled
        BY <1>5, IndexOfScan, Zenon
      <4>3. disk' = disk
        BY <1>2 DEF files
      <4>4. QED
        BY <4>1, <4>2, <4>3, Zenon DEF IndexRight, NoMeta, Dirs
    <3>3. QED
      BY <3>1, <3>2
  <2>2. \A n \in SkillNames : skill_bundles'[n] = NoBundle
    BY <1>4 DEF Empty
  <2>3. (\A d \in Dirs : written[d] <= edits)'
    BY <1>2 DEF IInv, RegistryInv, Dirs, files
  <2>4. (\A d \in Dirs : scanned[d] <= written[d])'
    BY <1>2, <1>4, <1>5 DEF SkillTypeOK, Dirs, files
  <2>5. QED
    BY <2>1, <2>2, <2>3, <2>4 DEF RegistryInv, NoBundle
<1>10. CallInv'
  BY <1>2, <1>3 DEF IInv, CallInv, RecordInv, FlightInv
<1>11. QED
  BY <1>7, <1>8, <1>9, <1>10 DEF IInv

LEMMA ShutdownStep ==
    ASSUME IInv, Shutdown PROVE IInv'
<1>1. /\ pc' = "close_skills"
      /\ call' = [c \in Calls |-> IF call[c].at = "await" THEN call[c] ELSE Idle]
      /\ UNCHANGED <<gateway, files, registry, lives>>
  BY DEF Shutdown
<1>2. ASSUME NEW c \in Calls
      PROVE  call'[c] = (IF call[c].at = "await" THEN call[c] ELSE Idle)
             /\ call'[c] \in {call[c], Idle}
  BY <1>1
<1>3. GatewayTypeOK' /\ SkillTypeOK'
  BY <1>1 DEF IInv, TypeOK, GatewayTypeOK, SkillTypeOK, gateway, files, registry
<1>4. call' \in [Calls -> Records]
  BY <1>1, IdleRight DEF IInv, TypeOK
<1>5. TypeOK'
  BY <1>1, <1>3, <1>4 DEF IInv, TypeOK
<1>6. GatewayInv' /\ CacheInv' /\ RegistryInv' /\ StartInv'
  BY <1>1 DEF IInv, GatewayInv, BuildInv, CacheInv, RegistryInv, StartInv, gateway, files, registry
<1>7. ASSUME NEW c \in Calls PROVE (RecordInv(call[c]) /\ FlightInv(call[c]))'
  <2>1. CASE call[c].at = "await"
    <3>1. call'[c] = call[c] /\ RecordInv(call[c]) /\ FlightInv(call[c])
      BY <1>2, <2>1 DEF IInv, CallInv
    <3>2. QED
      BY <1>1, <3>1 DEF RecordInv, FlightInv, RunInv, gateway, registry
  <2>2. CASE call[c].at # "await"
    <3>1. call'[c] = Idle
      BY <1>2, <2>2
    <3>2. QED
      BY <3>1, IdleRight DEF RecordInv, FlightInv, Idle
  <2>3. QED
    BY <2>1, <2>2
<1>8. QED
  BY <1>5, <1>6, <1>7 DEF IInv, CallInv

(* While the registry or the gateway is closed, calls may be under way.     *)
LEMMA StopSkillsStep ==
    ASSUME IInv, StopSkills PROVE IInv'
<1>1. /\ pc' = "close_llm" /\ CloseSkills
      /\ UNCHANGED <<gateway, files, lives, call>>
  BY DEF StopSkills
<1>2. /\ skill_index' = Empty(NoMeta) /\ skill_bundles' = Empty(NoBundle)
      /\ first' = Empty(NoBundle) /\ settings_cache' = "none"
      /\ scanned' = [d \in Dirs |-> 0]
  BY <1>1 DEF CloseSkills, ClearBundles
<1>3. scanned' \in [Dirs -> 0..MaxEdits]
  BY <1>2, SkillAssumption
<1>4. SkillTypeOK'
  BY <1>1, <1>2, <1>3, EmptyRight DEF IInv, TypeOK, SkillTypeOK, Dirs, files
<1>5. GatewayTypeOK'
  BY <1>1 DEF IInv, TypeOK, GatewayTypeOK, gateway
<1>6. TypeOK'
  BY <1>1, <1>4, <1>5 DEF IInv, TypeOK
<1>7. GatewayInv' /\ CacheInv' /\ RegistryInv' /\ StartInv'
  BY <1>1, <1>2
     DEF IInv, GatewayInv, BuildInv, CacheInv, RegistryInv, StartInv, Dirs, gateway, files
<1>8. ASSUME NEW c \in Calls PROVE (RecordInv(call[c]) /\ FlightInv(call[c]))'
  <2>1. RecordInv(call[c]) /\ FlightInv(call[c])
    BY DEF IInv, CallInv
  <2>2. QED
    BY <1>1, <1>2, <2>1 DEF RecordInv, FlightInv, RunInv, gateway
<1>9. QED
  BY <1>6, <1>7, <1>8 DEF IInv, CallInv

LEMMA StopLlmStep ==
    ASSUME IInv, StopLlm PROVE IInv'
<1>1. /\ pc' = "down" /\ CloseLlm
      /\ UNCHANGED <<files, registry, lives, call>>
  BY DEF StopLlm
<1>2. GatewayTypeOK' /\ SkillTypeOK'
  BY <1>1 DEF IInv, TypeOK, GatewayTypeOK, SkillTypeOK, CloseLlm, files, registry
<1>3. TypeOK'
  BY <1>1, <1>2 DEF IInv, TypeOK
<1>4. GatewayInv'
  BY <1>1 DEF CloseLlm, GatewayInv, BuildInv
<1>5. CacheInv' /\ RegistryInv' /\ StartInv'
  BY <1>1 DEF IInv, CacheInv, RegistryInv, StartInv, files, registry
<1>6. ASSUME NEW c \in Calls PROVE (RecordInv(call[c]) /\ FlightInv(call[c]))'
  <2>1. RecordInv(call[c]) /\ FlightInv(call[c])
    BY DEF IInv, CallInv
  <2>2. QED
    BY <1>1, <2>1 DEF RecordInv, FlightInv, RunInv, CloseLlm, registry
<1>7. QED
  BY <1>3, <1>4, <1>5, <1>6 DEF IInv, CallInv

(* An edited file is newer than the scan, so nothing is said of it.         *)
LEMMA EditStep ==
    ASSUME IInv, Edit PROVE IInv'
<1>1. PICK d \in Dirs : EditSkill(d)
  BY DEF Edit
<1>2. UNCHANGED <<gateway, registry, pc, lives, call>>
  BY DEF Edit
<1>3. PICK content \in Contents : disk' = [disk EXCEPT ![d] = content]
  BY <1>1 DEF EditSkill
<1>4. /\ edits < MaxEdits /\ edits' = edits + 1
      /\ written' = [written EXCEPT ![d] = edits + 1]
  BY <1>1 DEF EditSkill
<1>5. SkillTypeOK /\ MaxEdits \in Nat
  BY SkillAssumption DEF IInv, TypeOK
<1>6. /\ disk' \in [Dirs -> Contents] /\ edits' \in 0..MaxEdits
      /\ written' \in [Dirs -> 0..MaxEdits]
  BY <1>3, <1>4, <1>5 DEF SkillTypeOK
<1>7. SkillTypeOK'
  BY <1>2, <1>5, <1>6 DEF SkillTypeOK, Dirs, registry
<1>8. GatewayTypeOK'
  BY <1>2 DEF IInv, TypeOK, GatewayTypeOK, gateway
<1>9. TypeOK'
  BY <1>2, <1>7, <1>8 DEF IInv, TypeOK
<1>10. GatewayInv' /\ CacheInv' /\ StartInv'
  BY <1>2 DEF IInv, GatewayInv, BuildInv, CacheInv, StartInv, gateway, registry
<1>11. /\ \A e \in Dirs : written[e] <= edits
       /\ \A e \in Dirs : written'[e] = IF e = d THEN edits + 1 ELSE written[e]
       /\ \A e \in Dirs : e # d => disk'[e] = disk[e]
  BY <1>3, <1>4, <1>5 DEF IInv, RegistryInv, SkillTypeOK
<1>12. \A e \in Dirs : written'[e] <= edits'
  BY <1>4, <1>5, <1>11 DEF SkillTypeOK
<1>13. ASSUME pc = "serving", NEW e \in Dirs
       PROVE  scanned'[e] <= written'[e] /\ scanned'[d] # written'[d]
  <2>1. scanned[e] <= written[e] /\ scanned[d] <= written[d]
    BY <1>13 DEF IInv, RegistryInv
  <2>2. written[d] <= edits /\ written[e] <= edits
    BY <1>11
  <2>3. /\ scanned[d] \in Nat /\ written[d] \in Nat /\ edits \in Nat
        /\ scanned[e] \in Nat /\ written[e] \in Nat
    BY <1>5 DEF SkillTypeOK
  <2>4. QED
    BY <1>2, <1>11, <2>1, <2>2, <2>3 DEF registry
<1>14. ASSUME pc = "serving", NEW n \in SkillNames PROVE IndexRight(n)'
  <2>1. IndexRight(n)
    BY <1>14 DEF IInv, RegistryInv
  <2>2. UNCHANGED <<skill_index, scanned>>
    BY <1>2 DEF registry
  <2>3. CASE skill_index[n].dir = d
    BY <1>13, <1>14, <2>1, <2>2, <2>3 DEF IndexRight, NoMeta, Dirs
  <2>4. CASE skill_index[n].dir # d
    BY <1>11, <2>1, <2>2, <2>4 DEF IndexRight, NoMeta, Dirs
  <2>5. QED
    BY <2>3, <2>4
<1>15. RegistryInv'
  <2>1. (\A e \in Dirs : written[e] <= edits)'
    BY <1>12 DEF Dirs
  <2>2. ASSUME pc' = "serving"
        PROVE  /\ (\A e \in Dirs : scanned[e] <= written[e])'
               /\ \A n \in SkillNames :
                     IndexRight(n)'
                     /\ (skill_bundles[n] # NoBundle => Explained(n, skill_bundles[n]))'
    <3>1. pc = "serving"
      BY <1>2, <2>2
    <3>2. (\A e \in Dirs : scanned[e] <= written[e])'
      BY <1>13, <3>1 DEF Dirs
    <3>3. \A n \in SkillNames :
             (skill_bundles[n] # NoBundle => Explained(n, skill_bundles[n]))'
      BY <1>2, <3>1 DEF IInv, RegistryInv, Explained, NoBundle, registry
    <3>4. QED
      BY <1>14, <3>1, <3>2, <3>3
  <2>3. QED
    BY <2>1, <2>2 DEF RegistryInv
<1>16. ASSUME NEW c \in Calls PROVE (RecordInv(call[c]) /\ FlightInv(call[c]))'
  <2>1. RecordInv(call[c]) /\ FlightInv(call[c])
    BY DEF IInv, CallInv
  <2>2. QED
    BY <1>2, <2>1 DEF RecordInv, FlightInv, RunInv, Explained, gateway, registry
<1>17. QED
  BY <1>9, <1>10, <1>15, <1>16 DEF IInv, CallInv

-----------------------------------------------------------------------------
(***************************************************************************)
(* The invariant is inductive, and implies the properties.                 *)
(***************************************************************************)
LEMMA InitIInv == ASSUME Init PROVE IInv
<1>1. SkillTypeOK
  <2>1. /\ disk \in Layouts /\ written = [d \in Dirs |-> 0] /\ edits = 0
        /\ skill_index = Empty(NoMeta) /\ skill_bundles = Empty(NoBundle)
        /\ settings_cache = "none" /\ scanned = [d \in Dirs |-> 0]
        /\ first = Empty(NoBundle)
    BY DEF Init, SkillInit
  <2>2. disk \in [Dirs -> Contents] /\ 0 \in 0..MaxEdits
    BY <2>1, SkillAssumption DEF Dirs
  <2>3. QED
    BY <2>1, <2>2, EmptyRight DEF SkillTypeOK
<1>2. TypeOK
  <2>1. GatewayTypeOK
    BY DEF Init, GatewayInit, GatewayTypeOK
  <2>2. lives \in 0..MaxLives
    BY RequestsAssumption DEF Init
  <2>3. call \in [Calls -> Records]
    BY IdleRight DEF Init
  <2>4. QED
    BY <1>1, <2>1, <2>2, <2>3 DEF Init, TypeOK
<1>3. GatewayInv
  BY DEF Init, GatewayInit, GatewayInv, BuildInv
<1>4. CacheInv /\ RegistryInv /\ StartInv
  BY DEF Init, SkillInit, CacheInv, RegistryInv, StartInv
<1>5. CallInv
  BY IdleRight DEF Init, CallInv
<1>6. QED
  BY <1>2, <1>3, <1>4, <1>5 DEF IInv

LEMMA NextIInv == ASSUME IInv, [Next]_vars PROVE IInv'
<1>1. CASE Boot
  BY <1>1, BootStep
<1>2. CASE StartLlm
  BY <1>2, StartLlmStep
<1>11. CASE FillTables
  BY <1>11, FillTablesStep
<1>3. CASE StartSkills
  BY <1>3, StartSkillsStep
<1>4. CASE Shutdown
  BY <1>4, ShutdownStep
<1>5. CASE StopSkills
  BY <1>5, StopSkillsStep
<1>6. CASE StopLlm
  BY <1>6, StopLlmStep
<1>7. CASE Edit
  BY <1>7, EditStep
<1>8. ASSUME NEW c \in Calls, Begin(c) \/ Reply(c) PROVE IInv'
  BY <1>8, BeginStep, ReplyStep
<1>9. CASE UNCHANGED vars
  <2>1. UNCHANGED <<gateway, files, registry, pc, lives, call>>
    BY <1>9 DEF vars
  <2>2. TypeOK'
    BY <2>1 DEF IInv, TypeOK, GatewayTypeOK, SkillTypeOK, gateway, files, registry
  <2>3. GatewayInv' /\ CacheInv' /\ RegistryInv' /\ StartInv'
    BY <2>1 DEF IInv, GatewayInv, BuildInv, CacheInv, RegistryInv, IndexRight, Explained, StartInv,
                gateway, files, registry
  <2>4. CallInv'
    BY <2>1 DEF IInv, CallInv, RecordInv, FlightInv, RunInv, Explained, gateway, registry
  <2>5. QED
    BY <2>2, <2>3, <2>4 DEF IInv
<1>10. QED
  BY <1>1, <1>2, <1>3, <1>4, <1>5, <1>6, <1>7, <1>8, <1>9, <1>11 DEF Next

THEOREM Invariance == Spec => []IInv
<1>1. Init => IInv
  BY InitIInv
<1>2. IInv /\ [Next]_vars => IInv'
  BY NextIInv
<1>3. QED
  BY <1>1, <1>2, PTL DEF Spec

(* The tables, the registry and the calls have their types.                 *)
THEOREM TypeCorrect == Spec => []TypeOK
<1>1. IInv => TypeOK
  BY DEF IInv
<1>2. QED
  BY <1>1, Invariance, PTL

(* registry.py, load(): a skill that runs has a body the index explains, of *)
(* this life's scan or a later edit.                                        *)
THEOREM RunsAreExplained == Spec => []RunExplained
<1>1. IInv => RunExplained
  BY DEF IInv, CallInv, FlightInv, RunInv, RunExplained
<1>2. QED
  BY <1>1, Invariance, PTL

(* registry.py, skill_bundles: with cache_loaded, all runs of a skill in    *)
(* one life have the same body.                                             *)
THEOREM CachedBodiesAreOne == Spec => []CachedBodiesAgree
<1>1. IInv => CachedBodiesAgree
  BY DEF IInv, CallInv, FlightInv, RunInv, CachedBodiesAgree
<1>2. QED
  BY <1>1, Invariance, PTL

(* gateway.py, configure_langsmith_tracing(): with the switch off, no run   *)
(* under way is reported to LangSmith, whatever the environment said.       *)
THEOREM DisabledIsQuiet == Spec => []QuietWhenDisabled
<1>1. IInv => QuietWhenDisabled
  BY DEF IInv, CallInv, FlightInv, RunInv, QuietWhenDisabled
<1>2. QED
  BY <1>1, Invariance, PTL

(* gateway.py, init_llm(): a provider that cannot be built costs itself and *)
(* nobody else, for any number of providers, failures and startups that     *)
(* were given up halfway.                                                   *)
THEOREM FailuresStayApart == Spec => []OwnFailureOnly
<1>1. IInv => OwnFailureOnly
  <2> SUFFICES ASSUME IInv, pc = "serving", NEW p \in Providers
               PROVE  /\ GetLlmErrno(p) # "none" <=> p \in no_client
                      /\ GetProviderConfigErrno(p) # "none" <=> p \in no_client
                      /\ GetLangchainErrno(p) # "none" <=> p \in no_model
    BY DEF OwnFailureOnly
  <2>1. ProviderOf(p) = p
    BY GatewayAssumption DEF ProviderOf
  <2>2. /\ llm_instances = Providers \ no_client
        /\ provider_configs = Providers \ no_client
        /\ langchain_models = Providers \ no_model
    BY DEF IInv, GatewayInv, BuildInv
  <2>3. no_client \subseteq no_model
    BY DEF IInv, GatewayInv, BuildInv
  <2>4. QED
    BY <2>1, <2>2, <2>3
       DEF GetLlmErrno, GetProviderConfigErrno, GetLangchainErrno, ResolveErrno
<1>2. QED
  BY <1>1, Invariance, PTL

(* embedding.py, parse_vectors(): a successful embed() returns the vectors  *)
(* in the order of its texts, in whatever order the vendor sent them.       *)
THEOREM VectorsAreInOrder == Spec => []VectorsInOrder
<1>1. IInv => VectorsInOrder
  BY DEF IInv, CallInv, RecordInv, VectorsInOrder
<1>2. QED
  BY <1>1, Invariance, PTL
=============================================================================
