---------------------- MODULE VectorRepository_proofs ----------------------
(***************************************************************************)
(* Proofs about VectorWrite and VectorRepository, for writes of any length *)
(* and batches of any size.                                                *)
(*                                                                         *)
(* Two facts carry the argument for the write. The rows on the wire are    *)
(* those up to the end of the current batch, and the rows Milvus wrote     *)
(* before the current batch lie below its offset: so a confirmed count     *)
(* adds rows that were not counted before. A delete beside the write       *)
(* meets it at some offset, a multiple of the batch size: every row it     *)
(* took lies below, every row that came later above (CutAt).               *)
(***************************************************************************)
EXTENDS VectorRepository, FiniteSetTheorems, TLAPS

(* While a batch awaits its answer. *)
Awaiting == /\ outcome = "none"
            /\ offset < rows
            /\ total = Cardinality(wrote)
            /\ \A r \in wrote : r <= offset

(* Once the write is over. *)
Ended == /\ outcome # "none"
         /\ outcome = "returned" => /\ offset >= rows
                                    /\ total = Cardinality(wrote)

Idle == outcome = "none" /\ offset = 0 /\ total = 0 /\ wrote = {}

WriteInv == /\ wrote \subseteq 1..rows
            /\ pc = "idle" => Idle
            /\ pc = "await" => Awaiting
            /\ pc = "done" => Ended

IInv == TypeOK /\ SentPrefixOnce /\ WriteInv

-----------------------------------------------------------------------------
LEMMA FiniteRows ==
  ASSUME NEW S, S \subseteq AllRows
  PROVE  IsFiniteSet(S) /\ Cardinality(S) \in Nat
<1>1. IsFiniteSet(AllRows)
  BY FS_Interval, VectorAssumption DEF AllRows
<1>2. QED  BY <1>1, FS_Subset, FS_CardinalityType

(* What a batch confirms is added to what was confirmed before it. *)
LEMMA ConfirmedCount ==
  ASSUME NEW S, S \subseteq AllRows, NEW T, T \subseteq AllRows, S \cap T = {}
  PROVE  Cardinality(S \cup T) = Cardinality(S) + Cardinality(T)
<1>1. IsFiniteSet(S) /\ IsFiniteSet(T) /\ Cardinality(S) \in Nat /\ Cardinality(T) \in Nat
  BY FiniteRows
<1>2. Cardinality(S \cap T) = 0  BY FS_EmptySet
<1>3. Cardinality(S \cup T) = Cardinality(S) + Cardinality(T) - Cardinality(S \cap T)
  BY <1>1, FS_Union
<1>4. QED  BY <1>1, <1>2, <1>3

LEMMA InitIInv == Init => IInv
<1> SUFFICES ASSUME Init PROVE IInv
  OBVIOUS
<1>1. TypeOK
  BY VectorAssumption DEF Init, TypeOK, AllRows, Outcomes
<1>2. SentPrefixOnce
  BY DEF Init, SentPrefixOnce, SentUpTo, BatchWasSent, AllRows
<1>3. WriteInv
  BY DEF Init, WriteInv, Idle
<1>4. QED  BY <1>1, <1>2, <1>3 DEF IInv

-----------------------------------------------------------------------------
(* The head of the loop, entered with everything below at already sent. *)
LEMMA LoopHead ==
  ASSUME NEW at \in 0..(MaxRows + MaxBatch),
         rows \in 0..MaxRows, size \in 1..MaxBatch, UNCHANGED <<rows, size>>,
         sends \in [AllRows -> Nat],
         \A r \in AllRows : sends[r] = IF r <= rows /\ r <= at THEN 1 ELSE 0,
         outcome = "none",
         SendOrReturn(at)
  PROVE  /\ SentPrefixOnce'
         /\ offset' = at
         /\ sends' \in [AllRows -> Nat]
         /\ \/ pc' = "await" /\ outcome' = "none" /\ at < rows
            \/ pc' = "done" /\ outcome' = "returned" /\ at >= rows
            \/ pc' = "done" /\ outcome' = "not_initialized"
<1> USE VectorAssumption DEF AllRows
<1>1. CASE at >= rows \/ client = "none"
  BY <1>1 DEF SendOrReturn, Finish, SentPrefixOnce, SentUpTo, BatchWasSent
<1>2. CASE at < rows /\ client # "none"
  <2>1. pc' = "await" /\ outcome' = "none" /\ offset' = at
    BY <1>2 DEF SendOrReturn
  <2>2. sends' = [r \in AllRows |-> sends[r] + IF r \in Batch(at) THEN 1 ELSE 0]
    BY <1>2 DEF SendOrReturn
  <2>3. ASSUME NEW r \in AllRows
        PROVE  sends'[r] = IF r <= rows /\ r <= at + size THEN 1 ELSE 0
    BY <2>2, <2>3 DEF Batch
  <2>4. sends' \in [AllRows -> Nat]  BY <2>2
  <2>5. SentPrefixOnce'
    BY <2>1, <2>3 DEF SentPrefixOnce, SentUpTo, BatchWasSent
  <2>6. QED  BY <1>2, <2>1, <2>4, <2>5
<1>3. QED  BY <1>1, <1>2

(* The batch Milvus answers for lies inside the rows, above what it wrote   *)
(* for earlier batches.                                                     *)
LEMMA BatchFresh ==
  ASSUME IInv, pc = "await", NEW done \in SUBSET Batch(offset)
  PROVE  /\ done \subseteq 1..rows
         /\ done \subseteq AllRows
         /\ wrote \cap done = {}
         /\ \A r \in done : r <= offset + size
BY VectorAssumption DEF IInv, TypeOK, WriteInv, Awaiting, Batch, AllRows

LEMMA FirstStep == IInv /\ Write => IInv'
<1> SUFFICES ASSUME IInv, Write PROVE IInv'
  OBVIOUS
<1> USE VectorAssumption
<1>1. 0 \in 0..(MaxRows + MaxBatch)  OBVIOUS
<1>2. /\ pc = "idle" /\ outcome = "none" /\ offset = 0 /\ total = 0 /\ wrote = {}
      /\ UNCHANGED <<rows, size, wrote, total, client>>
  BY DEF Write, IInv, WriteInv, Idle
<1>3. \A r \in AllRows : sends[r] = IF r <= rows /\ r <= 0 THEN 1 ELSE 0
  BY <1>2 DEF IInv, SentPrefixOnce, SentUpTo, BatchWasSent
<1>4. /\ SentPrefixOnce'
      /\ offset' = 0
      /\ sends' \in [AllRows -> Nat]
      /\ \/ pc' = "await" /\ outcome' = "none" /\ 0 < rows
         \/ pc' = "done" /\ outcome' = "returned" /\ 0 >= rows
         \/ pc' = "done" /\ outcome' = "not_initialized"
  BY <1>1, <1>2, <1>3, LoopHead DEF Write, IInv, TypeOK
<1>5. TypeOK'
  BY <1>1, <1>2, <1>4 DEF IInv, TypeOK, Outcomes
<1>6. WriteInv'
  BY <1>2, <1>4, FS_EmptySet DEF WriteInv, Awaiting, Ended, IInv, TypeOK
<1>7. QED  BY <1>4, <1>5, <1>6 DEF IInv

LEMMA ConfirmedStep == IInv /\ Confirmed => IInv'
<1> SUFFICES ASSUME IInv, Confirmed PROVE IInv'
  OBVIOUS
<1> USE VectorAssumption
<1>1. PICK done \in SUBSET Batch(offset) : /\ wrote' = wrote \cup done
                                           /\ total' = total + Cardinality(done)
  BY DEF Confirmed
<1>2. /\ pc = "await" /\ SendOrReturn(offset + size) /\ UNCHANGED <<rows, size, client>>
      /\ Awaiting
  BY DEF Confirmed, IInv, WriteInv
<1>3. offset + size \in 0..(MaxRows + MaxBatch)
  BY <1>2 DEF IInv, TypeOK, Awaiting
<1>4. \A r \in AllRows : sends[r] = IF r <= rows /\ r <= offset + size THEN 1 ELSE 0
  BY <1>2 DEF IInv, SentPrefixOnce, SentUpTo, BatchWasSent
<1>5. /\ SentPrefixOnce'
      /\ offset' = offset + size
      /\ sends' \in [AllRows -> Nat]
      /\ \/ pc' = "await" /\ outcome' = "none" /\ offset + size < rows
         \/ pc' = "done" /\ outcome' = "returned" /\ offset + size >= rows
         \/ pc' = "done" /\ outcome' = "not_initialized"
  BY <1>2, <1>3, <1>4, LoopHead DEF IInv, TypeOK, Awaiting
<1>6. /\ done \subseteq 1..rows /\ done \subseteq AllRows /\ wrote \cap done = {}
      /\ \A r \in done : r <= offset + size
  BY <1>2, BatchFresh
<1>7. /\ Cardinality(done) \in Nat
      /\ total' = Cardinality(wrote')
  BY <1>1, <1>2, <1>6, FiniteRows, ConfirmedCount DEF IInv, TypeOK, Awaiting
<1>8. TypeOK'
  BY <1>1, <1>2, <1>3, <1>5, <1>6, <1>7 DEF IInv, TypeOK, Outcomes
<1>9. WriteInv'
  <2>1. wrote' \subseteq 1..rows'  BY <1>1, <1>2, <1>6 DEF IInv, WriteInv
  <2>2. \A r \in wrote' : r <= offset'
    BY <1>1, <1>2, <1>5, <1>6 DEF IInv, TypeOK, Awaiting, AllRows
  <2>3. QED  BY <1>2, <1>5, <1>7, <2>1, <2>2 DEF WriteInv, Awaiting, Ended
<1>10. QED  BY <1>5, <1>8, <1>9 DEF IInv

LEMMA FailureStep == IInv /\ (InvalidResponse \/ SdkError) => IInv'
<1> SUFFICES ASSUME IInv, InvalidResponse \/ SdkError PROVE IInv'
  OBVIOUS
<1> USE VectorAssumption
<1>1. PICK done \in SUBSET Batch(offset) : wrote' = wrote \cup done
  BY DEF InvalidResponse, SdkError
<1>2. /\ pc = "await" /\ pc' = "done"
      /\ outcome' \in {"invalid_response", "operation_failed"}
      /\ UNCHANGED <<rows, size, offset, total, client, sends>>
  BY DEF InvalidResponse, SdkError, Finish
<1>3. done \subseteq 1..rows /\ done \subseteq AllRows
  BY <1>2, BatchFresh
<1>4. TypeOK'
  BY <1>1, <1>2, <1>3 DEF IInv, TypeOK, Outcomes
<1>5. SentPrefixOnce'
  BY <1>2 DEF IInv, SentPrefixOnce, SentUpTo, BatchWasSent
<1>6. WriteInv'
  BY <1>1, <1>2, <1>3 DEF IInv, WriteInv, Ended
<1>7. QED  BY <1>4, <1>5, <1>6 DEF IInv

LEMMA Inductive == IInv /\ [Next]_vars => IInv'
<1> SUFFICES ASSUME IInv, [Next]_vars PROVE IInv'
  OBVIOUS
<1>1. CASE CloseBegin \/ CloseEnd
  BY <1>1 DEF CloseBegin, CloseEnd, write, IInv, TypeOK, SentPrefixOnce, SentUpTo,
              BatchWasSent, WriteInv, Idle, Awaiting, Ended
<1>2. CASE UNCHANGED vars
  BY <1>2 DEF vars, write, IInv, TypeOK, SentPrefixOnce, SentUpTo, BatchWasSent,
              WriteInv, Idle, Awaiting, Ended
<1>3. QED
  BY <1>1, <1>2, FirstStep, ConfirmedStep, FailureStep DEF Next, Answered

LEMMA Invariance == Spec => []IInv
BY InitIInv, Inductive, PTL DEF Spec

-----------------------------------------------------------------------------
(* The returned number is the number of rows Milvus wrote. *)
LEMMA CountIsTrue == IInv => ReturnIsConfirmed
<1> SUFFICES ASSUME IInv, outcome = "returned"
             PROVE  total = Cardinality(wrote) /\ (total = rows => wrote = 1..rows)
  BY DEF ReturnIsConfirmed
<1>1. total = Cardinality(wrote) /\ wrote \subseteq 1..rows
  BY VectorAssumption DEF IInv, TypeOK, WriteInv, Idle, Awaiting, Ended
<1>2. IsFiniteSet(1..rows) /\ Cardinality(1..rows) = rows
  BY FS_Interval DEF IInv, TypeOK
<1>3. QED  BY <1>1, <1>2, FS_Subset

(* Beside the other call the write is what it is alone: a step of the       *)
(* repository is one of the write or of the client, or none of theirs.      *)
LEMMA StepOfWrite == [RepositoryNext]_repoVars => [Next]_vars
BY DEF RepositoryNext, WriteStep, CloseStep, Call, Remove, OtherAnswered, Returned, Malformed,
       Raised, Fails, Next, repoVars

(* The repository implements the write on its own: whatever the other call  *)
(* does, the write keeps to its specification.                              *)
LEMMA ImplementsWrite == RepositorySpec => Spec
<1>1. RepositoryInit => Init
  BY DEF RepositoryInit
<1>2. QED  BY <1>1, StepOfWrite, PTL DEF RepositorySpec, Spec

-----------------------------------------------------------------------------
(* The other call. *)
OtherTyped == /\ op \in Operations \cup {"none"}
              /\ target \subseteq AllRows
              /\ stage \in {"idle", "asking", "removed", "done"}
              /\ ending \in Outcomes

(* What is in the collection: all that was written but for rows the other   *)
(* call selects, and all of it until that call has removed something.       *)
Kept == /\ collection \subseteq wrote
        /\ wrote \ target \subseteq collection
        /\ stage = "idle" => target = {}
        /\ stage \in {"idle", "asking"} => collection = wrote
        /\ stage # "done" => ending = "none"

(* The offset is that of a batch. *)
AtBatch == \E k \in Nat : offset = k * size

(* The removal met the write at the start of batch m. *)
CutAt(m) == /\ m * size <= offset
            /\ \A r \in wrote \ collection : r <= m * size
            /\ \A r \in collection \cap target : r > m * size

Cut == Untorn /\ outcome \in {"none", "returned"} /\ stage \notin {"idle", "asking"}
         => collection = wrote \/ \E m \in Nat : CutAt(m)

OtherInv == OtherTyped /\ Kept /\ AtBatch /\ Cut

LEMMA InitOther == RepositoryInit => OtherInv
<1> SUFFICES ASSUME RepositoryInit PROVE OtherInv
  OBVIOUS
<1>1. OtherTyped /\ Kept /\ Cut
  BY DEF RepositoryInit, Init, OtherTyped, Kept, Cut, Outcomes
<1>2. size \in Nat /\ offset = 0 * size
  BY VectorAssumption DEF RepositoryInit, Init
<1>3. AtBatch
  BY <1>2 DEF AtBatch
<1>4. QED  BY <1>1, <1>3 DEF OtherInv

LEMMA NextBatch == ASSUME NEW k \in Nat, NEW s \in Nat PROVE (k + 1) * s = k * s + s
OBVIOUS

(* Products of the batch size keep their order. *)
LEMMA BatchOrder ==
  ASSUME NEW k \in Nat, NEW m \in Nat, NEW s \in Nat, k <= m PROVE k * s <= m * s
OBVIOUS

LEMMA AtBatchStep == IInv /\ AtBatch /\ [Next]_vars => AtBatch'
<1> SUFFICES ASSUME IInv, AtBatch, [Next]_vars PROVE AtBatch'
  OBVIOUS
<1>1. PICK k \in Nat : offset = k * size
  BY DEF AtBatch
<1>2. size \in Nat /\ size' = size
  BY VectorAssumption DEF IInv, TypeOK, Next, Write, Answered, Confirmed, InvalidResponse,
       SdkError, CloseBegin, CloseEnd, vars, write
<1>3. offset' = offset \/ offset' = 0 \/ offset' = offset + size
  BY DEF Next, Write, Answered, Confirmed, InvalidResponse, SdkError, SendOrReturn,
         CloseBegin, CloseEnd, vars, write
<1>4. (k + 1) * size = k * size + size /\ 0 * size = 0
  BY <1>2, NextBatch
<1>5. \E j \in Nat : offset' = j * size
  <2>1. k + 1 \in Nat /\ 0 \in Nat
    OBVIOUS
  <2>2. offset' \in {k * size, 0 * size, (k + 1) * size}
    BY <1>1, <1>3, <1>4
  <2>3. QED  BY <2>1, <2>2
<1>6. QED  BY <1>2, <1>5 DEF AtBatch

(* While the write has not failed, what it wrote lies below its offset. *)
LEMMA WroteBelow ==
  ASSUME IInv, outcome \in {"none", "returned"} PROVE \A r \in wrote : r <= offset
BY VectorAssumption DEF IInv, TypeOK, WriteInv, Idle, Awaiting, Ended

LEMMA WriteOther == IInv /\ OtherInv /\ WriteStep => OtherInv'
<1> SUFFICES ASSUME IInv, OtherInv, WriteStep PROVE OtherInv'
  OBVIOUS
<1>1. /\ Write \/ Answered
      /\ collection' = collection \cup (wrote' \ wrote)
      /\ UNCHANGED <<op, target, stage, ending>>
  BY DEF WriteStep, other
<1>2. wrote \subseteq wrote' /\ size' = size /\ size \in Nat
  BY <1>1, VectorAssumption
  DEF Write, Answered, Confirmed, InvalidResponse, SdkError, IInv, TypeOK
<1>3. OtherTyped' /\ Kept'
  BY <1>1, <1>2 DEF OtherInv, OtherTyped, Kept
<1>4. AtBatch'
  BY <1>1, AtBatchStep DEF OtherInv, Next
<1>5. ASSUME Untorn, outcome' \in {"none", "returned"}, stage \notin {"idle", "asking"},
             collection # wrote
      PROVE  \E m \in Nat : CutAt(m)'
  <2>1. outcome = "none"
    BY <1>1 DEF Write, Answered, Confirmed, InvalidResponse, SdkError, IInv, WriteInv, Idle,
                Awaiting
  <2>2. PICK m \in Nat : CutAt(m)
    BY <1>5, <2>1 DEF OtherInv, Cut
  <2>3. m * size \in Nat
    BY <1>2
  <2>4. /\ offset' >= offset
        /\ \A r \in wrote' \ wrote : r > offset
    <3>1. CASE Write
      <4>1. offset = 0 /\ offset' = 0 /\ wrote' = wrote
        BY <3>1 DEF Write, SendOrReturn, IInv, WriteInv, Idle
      <4>2. QED  BY <4>1
    <3>2. CASE Confirmed
      <4>1. offset' = offset + size /\ offset \in Nat
        BY <3>2, VectorAssumption DEF Confirmed, SendOrReturn, IInv, TypeOK
      <4>2. \A r \in wrote' \ wrote : r \in Batch(offset)
        BY <3>2 DEF Confirmed
      <4>3. QED  BY <1>2, <4>1, <4>2 DEF Batch, AllRows
    <3>3. CASE InvalidResponse \/ SdkError
      BY <1>5, <3>3 DEF InvalidResponse, SdkError, Finish
    <3>4. QED  BY <1>1, <3>1, <3>2, <3>3 DEF Answered
  <2>5. offset \in Nat /\ offset' \in Nat
    <3>1. TypeOK'
      BY <1>1, Inductive DEF IInv, Next
    <3>2. QED  BY <3>1, VectorAssumption DEF IInv, TypeOK
  <2>6. m * size <= offset'
    BY <2>2, <2>3, <2>4, <2>5 DEF CutAt
  <2>7. \A r \in wrote' \ collection' : r <= m * size
    BY <1>1, <1>2, <2>2 DEF CutAt
  <2>8. ASSUME NEW r \in collection' \cap target PROVE r > m * size
    <3>1. CASE r \in collection
      BY <2>2, <2>8, <3>1 DEF CutAt
    <3>2. CASE r \in wrote' \ wrote
      <4>1. r > offset
        BY <2>4, <3>2
      <4>2. m * size <= offset
        BY <2>2 DEF CutAt
      <4>3. r \in Nat
        <5>1. target \subseteq AllRows
          BY DEF OtherInv, OtherTyped
        <5>2. r \in AllRows
          BY <5>1, <2>8
        <5>3. QED  BY <5>2, VectorAssumption DEF AllRows
      <4>4. QED  BY <2>3, <2>5, <4>1, <4>2, <4>3
    <3>3. QED  BY <1>1, <2>8, <3>1, <3>2
  <2>9. QED  BY <1>1, <1>2, <2>6, <2>7, <2>8 DEF CutAt
<1>6. Cut'
  <2>1. collection = wrote => collection' = wrote'
    BY <1>1, <1>2
  <2>2. QED  BY <1>1, <1>5, <2>1 DEF Cut, Untorn
<1>7. QED  BY <1>3, <1>4, <1>6 DEF OtherInv

(* The other call asks or is refused; nothing is removed yet. *)
LEMMA CallOther == OtherInv /\ Call => OtherInv'
<1> SUFFICES ASSUME OtherInv, Call PROVE OtherInv'
  OBVIOUS
<1>1. /\ stage = "idle" /\ collection = wrote /\ target = {} /\ ending = "none"
      /\ UNCHANGED <<vars, collection>>
  BY DEF Call, OtherInv, Kept
<1>2. ASSUME NEW o \in Operations, NEW rowset \in SUBSET AllRows, Ask(o, rowset) \/ Refuse(o)
      PROVE  OtherTyped' /\ Kept'
  BY <1>1, <1>2 DEF Ask, Refuse, Done, OtherInv, OtherTyped, Kept, Outcomes, vars, write
<1>3. ASSUME NEW ids \in SUBSET AllRows, NEW filter \in Filters, Delete(ids, filter)
      PROVE  OtherTyped' /\ Kept'
  <2>1. UNION filter \in SUBSET AllRows
    BY DEF Filters
  <2>2. QED  BY <1>2, <1>3, <2>1 DEF Delete, Operations, Removals
<1>4. ASSUME NEW limit, Query(limit) PROVE OtherTyped' /\ Kept'
  BY <1>2, <1>4 DEF Query, Operations
<1>5. ASSUME NEW vectors, NEW limit, Search(vectors, limit) PROVE OtherTyped' /\ Kept'
  <2>1. CASE vectors = 0
    BY <1>1, <1>5, <2>1 DEF Search, Done, OtherInv, OtherTyped, Kept, Outcomes, Operations,
                            vars, write
  <2>2. CASE vectors # 0
    BY <1>2, <1>5, <2>2 DEF Search, Operations
  <2>3. QED  BY <2>1, <2>2
<1>6. ASSUME NEW dimension, CreateCollection(dimension) PROVE OtherTyped' /\ Kept'
  BY <1>2, <1>6 DEF CreateCollection, Operations
<1>7. ASSUME Ask("drop_collection", AllRows) PROVE OtherTyped' /\ Kept'
  BY <1>2, <1>7 DEF Operations, Removals
<1>8. ASSUME NEW o \in PassedOn, Ask(o, {}) PROVE OtherTyped' /\ Kept'
  BY <1>2, <1>8 DEF Operations
<1>9. OtherTyped' /\ Kept'
  BY <1>3, <1>4, <1>5, <1>6, <1>7, <1>8 DEF Call
<1>10. AtBatch' /\ Cut'
  BY <1>1 DEF OtherInv, AtBatch, Cut, vars, write
<1>11. QED  BY <1>9, <1>10 DEF OtherInv

(* A removal meets the write at the offset of the batch under way. *)
LEMMA RemoveOther == IInv /\ OtherInv /\ Remove => OtherInv'
<1> SUFFICES ASSUME IInv, OtherInv, Remove PROVE OtherInv'
  OBVIOUS
<1>1. /\ stage = "asking" /\ stage' = "removed" /\ collection = wrote
      /\ collection' = collection \ target
      /\ UNCHANGED <<vars, op, target, ending>>
  BY DEF Remove, OtherInv, Kept
<1>2. OtherTyped' /\ Kept' /\ AtBatch'
  BY <1>1 DEF OtherInv, OtherTyped, Kept, AtBatch, vars, write
<1>3. ASSUME outcome \in {"none", "returned"} PROVE \E m \in Nat : CutAt(m)'
  <2>1. PICK k \in Nat : offset = k * size
    BY DEF OtherInv, AtBatch
  <2>2. \A r \in wrote : r <= offset
    BY <1>3, WroteBelow
  <2>3. offset \in Nat
    BY VectorAssumption DEF IInv, TypeOK
  <2>4. CutAt(k)'
    BY <1>1, <2>1, <2>2, <2>3 DEF CutAt, vars, write
  <2>5. QED  BY <2>4
<1>4. Cut'
  BY <1>1, <1>3 DEF Cut, vars, write
<1>5. QED  BY <1>2, <1>4 DEF OtherInv

LEMMA AnsweredOther == OtherInv /\ OtherAnswered => OtherInv'
<1> SUFFICES ASSUME OtherInv, OtherAnswered PROVE OtherInv'
  OBVIOUS
<1>1. UNCHANGED <<vars, op, target>> /\ stage' = "done"
  BY DEF OtherAnswered, Returned, Malformed, Raised, Fails, Done
<1>2. AtBatch'
  BY <1>1 DEF OtherInv, AtBatch, vars, write
<1>3. CASE Returned
  <2>1. collection' = collection /\ ending' = "returned" /\ stage \in {"asking", "removed"}
    BY <1>3 DEF Returned, Done
  <2>2. OtherTyped' /\ Kept'
    BY <1>1, <2>1 DEF OtherInv, OtherTyped, Kept, Outcomes, vars, write
  <2>3. Cut'
    <3>1. CASE stage = "asking"
      BY <1>1, <2>1, <3>1 DEF OtherInv, Kept, Cut, vars, write
    <3>2. CASE stage = "removed"
      <4>1. Untorn
        BY <3>2 DEF OtherInv, Kept, Untorn
      <4>2. QED  BY <1>1, <2>1, <3>2, <4>1 DEF OtherInv, Cut, CutAt, vars, write
    <3>3. QED  BY <2>1, <3>1, <3>2
  <2>4. QED  BY <1>2, <2>2, <2>3 DEF OtherInv
<1>4. CASE Malformed \/ Raised
  <2>1. ending' \in {"invalid_response", "operation_failed"}
    BY <1>4 DEF Malformed, Raised, Fails, Done
  <2>2. OtherTyped' /\ Cut'
    BY <1>1, <2>1 DEF OtherInv, OtherTyped, Cut, Untorn, Outcomes
  <2>3. collection' \subseteq collection /\ collection \ target \subseteq collection'
    BY <1>4 DEF Malformed, Raised, Fails
  <2>4. Kept'
    BY <1>1, <2>3 DEF OtherInv, Kept, vars, write
  <2>5. QED  BY <1>2, <2>2, <2>4 DEF OtherInv
<1>5. QED  BY <1>3, <1>4 DEF OtherAnswered

LEMMA InductiveOther == IInv /\ OtherInv /\ [RepositoryNext]_repoVars => OtherInv'
<1> SUFFICES ASSUME IInv, OtherInv, [RepositoryNext]_repoVars PROVE OtherInv'
  OBVIOUS
<1>1. CASE CloseStep
  <2>1. UNCHANGED <<write, collection, other>>
    BY <1>1 DEF CloseStep, CloseBegin, CloseEnd
  <2>2. QED  BY <2>1 DEF OtherInv, OtherTyped, Kept, AtBatch, Cut, CutAt, Untorn, write, other
<1>2. CASE UNCHANGED repoVars
  BY <1>2 DEF OtherInv, OtherTyped, Kept, AtBatch, Cut, CutAt, Untorn, write, other, vars, repoVars
<1>3. QED
  BY <1>1, <1>2, WriteOther, CallOther, RemoveOther, AnsweredOther DEF RepositoryNext

LEMMA RepositoryInvariance == RepositorySpec => [](IInv /\ OtherInv)
<1>1. IInv /\ [RepositoryNext]_repoVars => IInv'
  BY StepOfWrite, Inductive
<1>2. RepositoryInit => IInv
  BY InitIInv DEF RepositoryInit
<1>3. QED  BY <1>1, <1>2, InitOther, InductiveOther, PTL DEF RepositorySpec

-----------------------------------------------------------------------------
(* The module is type correct. *)
THEOREM TypeCorrect == RepositorySpec => []RepositoryTypeOK
<1>1. IInv /\ OtherInv => RepositoryTypeOK
  <2>1. ASSUME IInv, OtherInv PROVE collection \subseteq AllRows
    BY <2>1 DEF IInv, TypeOK, OtherInv, Kept
  <2>2. QED  BY <2>1 DEF IInv, OtherInv, OtherTyped, RepositoryTypeOK
<1>2. QED  BY RepositoryInvariance, <1>1, PTL

(* Batches partition a prefix of the rows, each sent exactly once. *)
THEOREM PrefixOnce == RepositorySpec => []SentPrefixOnce
<1>1. IInv => SentPrefixOnce  BY DEF IInv
<1>2. QED  BY RepositoryInvariance, <1>1, PTL

(* The returned number is the number of rows Milvus wrote, and a delete or  *)
(* drop beside the write parts it between two batches.                      *)
THEOREM Vouches == RepositorySpec => []CountVouches
<1>1. ASSUME IInv, OtherInv, outcome = "returned", Untorn, NEW k \in 0..MaxRows
      PROVE  \/ Batch(k * size) \cap target \cap collection = {}
             \/ wrote \cap Batch(k * size) \subseteq collection
  <2>1. CASE collection = wrote
    BY <2>1
  <2>2. CASE collection # wrote
    <3>1. PICK m \in Nat : CutAt(m)
      BY <1>1, <2>2 DEF OtherInv, Kept, Cut
    <3>2. k \in Nat /\ size \in Nat /\ k * size \in Nat /\ m * size \in Nat
      BY VectorAssumption, <1>1 DEF IInv, TypeOK
    <3>3. CASE k < m
      <4>1. k + 1 \in Nat /\ k + 1 <= m
        BY <3>2, <3>3
      <4>2. k * size + size <= m * size
        BY <3>2, <4>1, BatchOrder, NextBatch
      <4>3. \A r \in Batch(k * size) : r <= m * size
        BY <3>2, <4>2 DEF Batch, AllRows
      <4>4. \A r \in Batch(k * size) : r \notin collection \cap target
        BY <3>1, <3>2, <4>3 DEF CutAt, Batch, AllRows
      <4>5. QED  BY <4>4
    <3>4. CASE m <= k
      <4>1. m * size <= k * size
        BY <3>2, <3>4, BatchOrder
      <4>2. \A r \in Batch(k * size) : ~ (r <= m * size)
        BY <3>2, <4>1 DEF Batch, AllRows
      <4>3. QED  BY <3>1, <4>2 DEF CutAt
    <3>5. QED  BY <3>2, <3>3, <3>4
  <2>3. QED  BY <2>1, <2>2
<1>2. ASSUME OtherInv PROVE wrote \ target \subseteq collection
  BY <1>2 DEF OtherInv, Kept
<1>3. IInv /\ OtherInv => CountVouches
  BY <1>1, <1>2, CountIsTrue DEF CountVouches
<1>4. QED  BY RepositoryInvariance, <1>3, PTL

-----------------------------------------------------------------------------
(***************************************************************************)
(* What a write leaves behind when it stops in the middle.                 *)
(***************************************************************************)
(* The rows of the batches that were confirmed.                             *)
Sure == {r \in wrote : r <= offset}

(* Wherever a write stops, its sum of confirmed counts is the number of     *)
(* rows written before the last batch it reached, and only rows of that one *)
(* batch are in doubt: a caller who knows how far it got need not look      *)
(* elsewhere. A write that finds the client gone, or returns, leaves none   *)
(* in doubt.                                                                *)
DoubtConfined ==
    /\ total = Cardinality(Sure)
    /\ wrote \ Sure \subseteq Batch(offset)
    /\ outcome \notin {"operation_failed", "invalid_response"} => wrote = Sure

LEMMA DoubtWrite == IInv /\ Write => DoubtConfined'
<1> SUFFICES ASSUME IInv, Write PROVE DoubtConfined'
  OBVIOUS
<1>1. wrote' = {} /\ total' = 0
  BY DEF Write, IInv, WriteInv, Idle
<1>2. Sure' = {}
  BY <1>1 DEF Sure
<1>3. QED
  BY <1>1, <1>2, FS_EmptySet DEF DoubtConfined

LEMMA DoubtConfirmed == IInv /\ Confirmed => DoubtConfined'
<1> SUFFICES ASSUME IInv, Confirmed PROVE DoubtConfined'
  OBVIOUS
<1>1. PICK done \in SUBSET Batch(offset) : /\ wrote' = wrote \cup done
                                           /\ total' = total + Cardinality(done)
  BY DEF Confirmed
<1>2. pc = "await" /\ offset' = offset + size /\ Awaiting
  BY DEF Confirmed, SendOrReturn, IInv, WriteInv
<1>3. /\ done \subseteq AllRows /\ wrote \cap done = {}
      /\ \A r \in done : r <= offset + size
  BY <1>2, BatchFresh
<1>4. total' = Cardinality(wrote')
  BY <1>1, <1>2, <1>3, ConfirmedCount DEF IInv, TypeOK, Awaiting
<1>5. \A r \in wrote' : r <= offset'
  BY <1>1, <1>2, <1>3, VectorAssumption DEF IInv, TypeOK, Awaiting, AllRows
<1>6. Sure' = wrote'
  BY <1>5 DEF Sure
<1>7. QED
  BY <1>4, <1>6 DEF DoubtConfined

LEMMA DoubtFailure == IInv /\ (InvalidResponse \/ SdkError) => DoubtConfined'
<1> SUFFICES ASSUME IInv, InvalidResponse \/ SdkError PROVE DoubtConfined'
  OBVIOUS
<1>1. PICK done \in SUBSET Batch(offset) : wrote' = wrote \cup done
  BY DEF InvalidResponse, SdkError
<1>2. /\ pc = "await" /\ Awaiting
      /\ outcome' \in {"invalid_response", "operation_failed"}
      /\ UNCHANGED <<rows, size, offset, total>>
  BY DEF InvalidResponse, SdkError, Finish, IInv, WriteInv
<1>3. \A r \in done : ~ (r <= offset)
  BY <1>1, VectorAssumption DEF Batch, AllRows, IInv, TypeOK
<1>4. \A r \in wrote : r <= offset
  BY <1>2 DEF Awaiting
<1>5. Sure' = wrote
  BY <1>1, <1>2, <1>3, <1>4 DEF Sure
<1>6. total' = Cardinality(wrote)
  BY <1>2 DEF Awaiting
<1>7. wrote' \ Sure' \subseteq Batch(offset)'
  BY <1>1, <1>2, <1>5 DEF Batch
<1>8. QED
  BY <1>2, <1>5, <1>6, <1>7 DEF DoubtConfined

LEMMA DoubtStep == IInv /\ DoubtConfined /\ [Next]_vars => DoubtConfined'
<1> SUFFICES ASSUME IInv, DoubtConfined, [Next]_vars PROVE DoubtConfined'
  OBVIOUS
<1>1. CASE CloseBegin \/ CloseEnd \/ UNCHANGED vars
  <2>1. UNCHANGED write
    BY <1>1 DEF CloseBegin, CloseEnd, vars
  <2>2. QED
    BY <2>1 DEF write, DoubtConfined, Sure, Batch
<1>2. QED
  BY <1>1, DoubtWrite, DoubtConfirmed, DoubtFailure DEF Next, Answered

(* A failed insert() or upsert() leaves one batch in doubt, for every       *)
(* number of rows and every batch size, and also beside any other call.     *)
THEOREM OneBatchInDoubt == RepositorySpec => []DoubtConfined
<1>1. Init => DoubtConfined
  <2> SUFFICES ASSUME Init PROVE DoubtConfined
    OBVIOUS
  <2>1. wrote = {} /\ total = 0 /\ Sure = {}
    BY DEF Init, Sure
  <2>2. QED
    BY <2>1, FS_EmptySet DEF DoubtConfined
<1>2. Spec => []DoubtConfined
  BY <1>1, Invariance, DoubtStep, PTL DEF Spec
<1>3. QED
  BY <1>2, ImplementsWrite, PTL
=============================================================================
