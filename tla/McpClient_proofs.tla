-------------------------- MODULE McpClient_proofs --------------------------
(***************************************************************************)
(* Proofs about McpClient, for every finite set of tasks and every         *)
(* max_concurrency. The slots are conserved because a release either frees *)
(* one or hands it to a caller that really waits, so the queue and the     *)
(* program counters have to agree: QueueAgrees is part of the induction.   *)
(* The errno is right because an operation reaches the wire only in a      *)
(* session that is initialized, and only once.                             *)
(***************************************************************************)
EXTENDS McpClient, FiniteSetTheorems, SequenceTheorems, TLAPS

(* What a call has done so far, by where it is. *)
Told(c) ==
    /\ executed[c] <= sends[c]
    /\ c \notin initialized => sends[c] = 0
    /\ pc[c] \in {"waiting", "granted", "connecting"} =>
           c \notin initialized /\ result[c] = "none"
    /\ pc[c] = "operating" => c \in initialized /\ result[c] = "none"
    /\ pc[c] = "closing" => result[c] \in {"ok", "error", "cancelled"}
    /\ result[c] = "CONNECT_FAILED" => c \notin initialized
    /\ result[c] = "ok" => executed[c] = 1

ToldInv == \A c \in Callers : Told(c)

SlotCount == value + Cardinality(Holders) = MaxConcurrency

(* Nobody queues while a slot is free, and only those who wait queue. *)
QueueAgrees == /\ waiters # <<>> => value = 0
               /\ \A c \in Callers :
                     pc[c] = "waiting" <=> \E i \in DOMAIN waiters : waiters[i] = c
               /\ \A i, j \in DOMAIN waiters : waiters[i] = waiters[j] => i = j

SlotTypes == /\ value \in 0..MaxConcurrency
             /\ waiters \in Seq(Callers)
             /\ pc \in [Callers -> Places]

SlotInv == SlotTypes /\ SlotCount /\ QueueAgrees

CallTypes == /\ initialized \subseteq Callers
             /\ result \in [Callers -> Results]
             /\ sends \in [Callers -> 0..1]
             /\ executed \in [Callers -> 0..1]

IInv == SlotInv /\ CallTypes /\ ToldInv

Holding == {"granted"} \cup InSession

-----------------------------------------------------------------------------
(* Taking one element out of a sequence. *)
LEMMA RemoveAtFacts ==
  ASSUME NEW S, NEW s \in Seq(S), NEW i \in 1..Len(s)
  PROVE  /\ RemoveAt(s, i) \in Seq(S)
         /\ Len(RemoveAt(s, i)) = Len(s) - 1
         /\ \A j \in 1..(Len(s) - 1) :
               RemoveAt(s, i)[j] = IF j < i THEN s[j] ELSE s[j + 1]
<1> DEFINE a == SubSeq(s, 1, i - 1)
           b == SubSeq(s, i + 1, Len(s))
<1>1. Len(s) \in Nat /\ i \in Nat
  OBVIOUS
<1>2. /\ a \in Seq(S)
      /\ Len(a) = i - 1
      /\ \A j \in 1..(i - 1) : a[j] = s[j]
  BY <1>1, SubSeqProperties
<1>3. /\ b \in Seq(S)
      /\ Len(b) = Len(s) - i
      /\ \A j \in 1..(Len(s) - i) : b[j] = s[i + j]
  BY <1>1, SubSeqProperties
<1> HIDE DEF a, b
<1>4. /\ a \o b \in Seq(S)
      /\ Len(a \o b) = Len(s) - 1
      /\ \A j \in 1..(Len(s) - 1) :
            (a \o b)[j] = IF j <= i - 1 THEN a[j] ELSE b[j - (i - 1)]
  <2>1. /\ a \o b \in Seq(S)
        /\ Len(a \o b) = Len(a) + Len(b)
        /\ \A j \in 1..(Len(a) + Len(b)) :
              (a \o b)[j] = IF j <= Len(a) THEN a[j] ELSE b[j - Len(a)]
    BY <1>2, <1>3, ConcatProperties
  <2>2. Len(a) + Len(b) = Len(s) - 1
    BY <1>1, <1>2, <1>3
  <2>3. QED
    BY <2>1, <2>2, <1>2
<1>5. ASSUME NEW j \in 1..(Len(s) - 1)
      PROVE  (a \o b)[j] = IF j < i THEN s[j] ELSE s[j + 1]
  <2>1. CASE j < i
    BY <2>1, <1>1, <1>2, <1>4
  <2>2. CASE ~(j < i)
    <3>1. j - (i - 1) \in 1..(Len(s) - i) /\ i + (j - (i - 1)) = j + 1
      BY <2>2, <1>1
    <3>2. (a \o b)[j] = b[j - (i - 1)]
      BY <2>2, <1>1, <1>4
    <3>3. b[j - (i - 1)] = s[i + (j - (i - 1))]
      BY <3>1, <1>3
    <3>4. QED  BY <2>2, <3>1, <3>2, <3>3
  <2>3. QED  BY <2>1, <2>2
<1>6. RemoveAt(s, i) = a \o b
  BY DEF RemoveAt, a, b
<1>7. QED  BY <1>4, <1>5, <1>6

(* The callers that hold a slot are finitely many. *)
LEMMA HoldersFinite ==
  /\ IsFiniteSet(Holders)
  /\ Cardinality(Holders) \in Nat
<1>1. Holders \subseteq Callers
  BY DEF Holders
<1>2. QED  BY <1>1, McpAssumption, FS_Subset, FS_CardinalityType

(* A step that only moves a holder on to another holding place. *)
LEMMA StayStep ==
  ASSUME SlotInv, NEW c \in Callers, NEW p \in Holding,
         pc[c] \in Holding, Goto(c, p), UNCHANGED slots
  PROVE  SlotInv'
<1> USE DEF SlotInv, SlotTypes
<1>1. Holding \subseteq Places /\ "waiting" \notin Holding
  BY DEF Holding, Places, InSession
<1>2. SlotTypes'
  BY <1>1 DEF Goto, slots
<1>3. Holders' = Holders
  BY DEF Goto, Holders, Holding
<1>4. SlotCount'
  BY <1>3 DEF SlotCount, slots
<1>5. \A d \in Callers : pc'[d] = "waiting" <=> pc[d] = "waiting"
  BY <1>1 DEF Goto
<1>6. QueueAgrees'
  BY <1>5 DEF QueueAgrees, slots
<1>7. QED  BY <1>2, <1>4, <1>6

(* Releasing a slot frees it or hands it to the head of the queue. *)
LEMMA ReleaseStep ==
  ASSUME SlotInv, NEW c \in Callers, pc[c] \in Holding, Release(c, "idle")
  PROVE  /\ SlotInv'
         /\ pc'[c] = "idle"
         /\ \A d \in Callers \ {c} :
               pc'[d] = pc[d] \/ (pc[d] = "waiting" /\ pc'[d] = "granted")
<1> USE DEF SlotInv, SlotTypes
<1>1. /\ Holding \subseteq Places
      /\ {"idle", "waiting"} \cap Holding = {}
      /\ {"idle", "granted"} \subseteq Places
      /\ "granted" \in Holding
  BY DEF Holding, Places, InSession
<1>2. c \in Holders /\ pc[c] # "waiting"
  BY <1>1 DEF Holders, Holding
<1>3. CASE waiters = <<>>
  <2>1. value' = value + 1 /\ Goto(c, "idle") /\ waiters' = waiters
    BY <1>3 DEF Release
  <2>2. Holders' = Holders \ {c}
    BY <2>1, <1>1 DEF Goto, Holders, Holding
  <2>3. Cardinality(Holders') = Cardinality(Holders) - 1
    BY <2>2, <1>2, HoldersFinite, FS_RemoveElement
  <2>4. Cardinality(Holders) \in Nat /\ Cardinality(Holders') \in Nat
    BY <2>2, HoldersFinite, FS_RemoveElement, FS_CardinalityType
  <2>5. SlotCount' /\ value' \in 0..MaxConcurrency
    BY <2>1, <2>3, <2>4, McpAssumption DEF SlotCount
  <2>6. waiters' \in Seq(Callers) /\ pc' \in [Callers -> Places]
    BY <2>1, <1>1 DEF Goto
  <2>7. /\ pc'[c] = "idle"
        /\ \A d \in Callers \ {c} : pc'[d] = pc[d]
    BY <2>1 DEF Goto
  <2>8. QueueAgrees'
    BY <2>1, <2>7, <1>2, <1>3 DEF QueueAgrees
  <2>9. QED  BY <2>5, <2>6, <2>7, <2>8
<1>4. CASE waiters # <<>>
  <2> DEFINE h == Head(waiters)
  <2>1. /\ waiters' = Tail(waiters)
        /\ pc' = [pc EXCEPT ![c] = "idle", ![h] = "granted"]
        /\ value' = value
    BY <1>4 DEF Release
  <2>2. /\ h = waiters[1]
        /\ h \in Callers
        /\ Tail(waiters) \in Seq(Callers)
        /\ Len(Tail(waiters)) = Len(waiters) - 1
        /\ \A i \in 1..Len(Tail(waiters)) : Tail(waiters)[i] = waiters[i + 1]
        /\ Len(waiters) \in Nat \ {0}
    BY <1>4, HeadTailProperties, EmptySeq, LenProperties
  <2>3. pc[h] = "waiting" /\ h # c
    BY <2>2, <1>2 DEF QueueAgrees
  <2> HIDE DEF h
  <2>4. /\ pc'[c] = "idle" /\ pc'[h] = "granted"
        /\ \A d \in Callers \ {c, h} : pc'[d] = pc[d]
        /\ pc' \in [Callers -> Places]
    BY <2>1, <2>2, <2>3, <1>1
  <2>5. h \notin Holders /\ Holders' = (Holders \ {c}) \cup {h}
    BY <2>2, <2>3, <2>4, <1>1 DEF Holders, Holding
  <2>6. /\ IsFiniteSet(Holders \ {c})
        /\ Cardinality(Holders \ {c}) = Cardinality(Holders) - 1
    BY <1>2, HoldersFinite, FS_RemoveElement
  <2>7. Cardinality(Holders') = Cardinality(Holders \ {c}) + 1
    BY <2>5, <2>6, FS_AddElement
  <2>8. SlotCount'
    BY <2>1, <2>6, <2>7, HoldersFinite DEF SlotCount
  <2>9. value' = 0
    BY <2>1, <1>4 DEF QueueAgrees
  <2>10. \A i, j \in DOMAIN waiters' : waiters'[i] = waiters'[j] => i = j
    <3> SUFFICES ASSUME NEW i \in 1..(Len(waiters) - 1),
                        NEW j \in 1..(Len(waiters) - 1),
                        waiters[i + 1] = waiters[j + 1]
                 PROVE  i = j
      BY <2>1, <2>2
    <3>1. i + 1 \in DOMAIN waiters /\ j + 1 \in DOMAIN waiters
      BY <2>2
    <3>2. i + 1 = j + 1
      BY <3>1 DEF QueueAgrees
    <3>3. QED  BY <3>2
  <2>11. ASSUME NEW d \in Callers
         PROVE  pc'[d] = "waiting" <=> \E i \in DOMAIN waiters' : waiters'[i] = d
    <3>1. pc'[d] = "waiting" <=> pc[d] = "waiting" /\ d # h
      BY <2>3, <2>4, <1>2
    <3>2. pc[d] = "waiting" <=> \E i \in 1..Len(waiters) : waiters[i] = d
      BY <2>2 DEF QueueAgrees
    <3>3. ASSUME NEW i \in 1..Len(waiters), waiters[i] = d, d # h
          PROVE  \E k \in DOMAIN waiters' : waiters'[k] = d
      <4>1. i # 1 /\ i - 1 \in 1..Len(Tail(waiters))
        BY <3>3, <2>2
      <4>2. waiters'[i - 1] = waiters[(i - 1) + 1] /\ (i - 1) + 1 = i
        BY <4>1, <2>1, <2>2
      <4>3. i - 1 \in DOMAIN waiters'
        BY <4>1, <2>1, <2>2
      <4>4. waiters'[i - 1] = d
        BY <4>2, <3>3
      <4>5. QED  BY <4>3, <4>4
    <3>4. ASSUME NEW k \in DOMAIN waiters', waiters'[k] = d
          PROVE  d # h /\ \E i \in 1..Len(waiters) : waiters[i] = d
      <4>1. k \in 1..(Len(waiters) - 1) /\ d = waiters[k + 1]
        BY <3>4, <2>1, <2>2
      <4>2. k + 1 \in DOMAIN waiters /\ 1 \in DOMAIN waiters /\ k + 1 # 1
        BY <4>1, <2>2
      <4>3. waiters[k + 1] # waiters[1]
        BY <4>2 DEF QueueAgrees
      <4>4. QED  BY <4>1, <4>2, <4>3, <2>2
    <3>5. QED  BY <3>1, <3>2, <3>3, <3>4
  <2>12. QueueAgrees'
    BY <2>9, <2>10, <2>11 DEF QueueAgrees
  <2>13. value' \in 0..MaxConcurrency /\ waiters' \in Seq(Callers)
    BY <2>1, <2>2
  <2>14. QED  BY <2>3, <2>4, <2>8, <2>12, <2>13
<1>5. QED  BY <1>3, <1>4

(* A waiter that leaves the queue leaves no trace in it. *)
LEMMA LeaveQueueStep ==
  ASSUME SlotInv, NEW c \in Callers, pc[c] = "waiting", Goto(c, "idle"),
         NEW i \in DOMAIN waiters, waiters[i] = c,
         waiters' = RemoveAt(waiters, i), value' = value
  PROVE  SlotInv'
<1> USE DEF SlotInv, SlotTypes
<1>1. Len(waiters) \in Nat /\ i \in 1..Len(waiters)
  BY LenProperties
<1>2. /\ waiters' \in Seq(Callers)
      /\ Len(waiters') = Len(waiters) - 1
      /\ \A j \in 1..(Len(waiters) - 1) :
            waiters'[j] = IF j < i THEN waiters[j] ELSE waiters[j + 1]
  BY <1>1, RemoveAtFacts
<1>3. DOMAIN waiters' = 1..(Len(waiters) - 1)
  BY <1>2
<1>4. /\ pc'[c] = "idle"
      /\ \A d \in Callers \ {c} : pc'[d] = pc[d]
      /\ pc' \in [Callers -> Places]
  BY DEF Goto, Places
<1>5. Holders' = Holders
  BY <1>4 DEF Holders, InSession
<1>6. SlotCount'
  BY <1>5 DEF SlotCount
<1>7. value' = 0
  BY <1>1 DEF QueueAgrees
<1> DEFINE at(j) == IF j < i THEN j ELSE j + 1
<1>8. \A j \in DOMAIN waiters' :
         /\ at(j) \in DOMAIN waiters
         /\ at(j) # i
         /\ waiters'[j] = waiters[at(j)]
  BY <1>1, <1>2, <1>3
<1>9. \A j, k \in DOMAIN waiters' : waiters'[j] = waiters'[k] => j = k
  <2> SUFFICES ASSUME NEW j \in DOMAIN waiters', NEW k \in DOMAIN waiters',
                      waiters'[j] = waiters'[k]
               PROVE  j = k
    OBVIOUS
  <2>1. at(j) = at(k)
    <3> HIDE DEF at
    <3>1. QED  BY <1>8 DEF QueueAgrees
  <2>2. QED  BY <2>1, <1>1, <1>3
<1>10. ASSUME NEW d \in Callers
       PROVE  pc'[d] = "waiting" <=> \E j \in DOMAIN waiters' : waiters'[j] = d
  <2>1. pc'[d] = "waiting" <=> pc[d] = "waiting" /\ d # c
    BY <1>4
  <2>2. pc[d] = "waiting" <=> \E k \in DOMAIN waiters : waiters[k] = d
    BY DEF QueueAgrees
  <2>3. ASSUME NEW k \in DOMAIN waiters, waiters[k] = d, d # c
        PROVE  \E j \in DOMAIN waiters' : waiters'[j] = d
    <3>1. k # i /\ k \in 1..Len(waiters)
      BY <2>3
    <3>2. CASE k < i
      <4>1. k \in DOMAIN waiters' /\ at(k) = k
        BY <3>1, <3>2, <1>1, <1>3
      <4>2. QED  BY <4>1, <1>8, <2>3
    <3>3. CASE k > i
      <4>1. k - 1 \in DOMAIN waiters' /\ at(k - 1) = k
        BY <3>1, <3>3, <1>1, <1>3
      <4>2. QED  BY <4>1, <1>8, <2>3
    <3>4. QED  BY <3>1, <3>2, <3>3, <1>1
  <2>4. ASSUME NEW j \in DOMAIN waiters', waiters'[j] = d
        PROVE  d # c /\ \E k \in DOMAIN waiters : waiters[k] = d
    <3> HIDE DEF at
    <3>1. at(j) \in DOMAIN waiters /\ at(j) # i /\ waiters[at(j)] = d
      BY <1>8, <2>4
    <3>2. QED  BY <3>1 DEF QueueAgrees
  <2>5. QED  BY <2>1, <2>2, <2>3, <2>4
<1>11. QueueAgrees'
  BY <1>7, <1>9, <1>10 DEF QueueAgrees
<1>12. QED  BY <1>2, <1>4, <1>6, <1>7, <1>11, McpAssumption

(* A new call takes a free slot or joins the queue when there is none. *)
LEMMA CallStep ==
  ASSUME SlotInv, NEW c \in Callers, Call(c)
  PROVE  SlotInv'
<1> USE DEF SlotInv, SlotTypes
<1>1. {"connecting", "waiting"} \subseteq Places
  BY DEF Places, InSession
<1>2. pc[c] = "idle" /\ c \notin Holders
  BY DEF Call, Holders, InSession
<1>3. CASE value > 0
  <2>1. value' = value - 1 /\ Goto(c, "connecting") /\ waiters' = waiters
    BY <1>3 DEF Call
  <2>2. /\ pc'[c] = "connecting"
        /\ \A d \in Callers \ {c} : pc'[d] = pc[d]
        /\ pc' \in [Callers -> Places]
    BY <2>1, <1>1 DEF Goto
  <2>3. Holders' = Holders \cup {c}
    BY <2>2 DEF Holders, InSession
  <2>4. Cardinality(Holders') = Cardinality(Holders) + 1
    BY <2>3, <1>2, HoldersFinite, FS_AddElement
  <2>5. value' \in 0..MaxConcurrency
    BY <2>1, <1>3, McpAssumption
  <2>6. SlotCount'
    BY <2>1, <2>4, HoldersFinite, McpAssumption DEF SlotCount
  <2>7. waiters = <<>>
    BY <1>3 DEF QueueAgrees
  <2>8. QueueAgrees'
    BY <2>1, <2>2, <2>7, <1>2 DEF QueueAgrees
  <2>9. QED  BY <2>1, <2>2, <2>5, <2>6, <2>8
<1>4. CASE ~(value > 0)
  <2>1. value' = value /\ Goto(c, "waiting") /\ waiters' = Append(waiters, c)
    BY <1>4 DEF Call
  <2>2. /\ pc'[c] = "waiting"
        /\ \A d \in Callers \ {c} : pc'[d] = pc[d]
        /\ pc' \in [Callers -> Places]
    BY <2>1, <1>1 DEF Goto
  <2>3. Holders' = Holders
    BY <2>2, <1>2 DEF Holders, InSession
  <2>4. SlotCount'
    BY <2>1, <2>3 DEF SlotCount
  <2>5. /\ waiters' \in Seq(Callers)
        /\ Len(waiters') = Len(waiters) + 1
        /\ \A i \in 1..Len(waiters) : waiters'[i] = waiters[i]
        /\ waiters'[Len(waiters) + 1] = c
        /\ Len(waiters) \in Nat
    BY <2>1, AppendProperties
  <2>6. /\ DOMAIN waiters = 1..Len(waiters)
        /\ DOMAIN waiters' = 1..(Len(waiters) + 1)
    BY <2>5
  <2>7. \A i \in DOMAIN waiters : waiters[i] # c
    BY <1>2 DEF QueueAgrees
  <2>8. \A i, j \in DOMAIN waiters' : waiters'[i] = waiters'[j] => i = j
    <3> SUFFICES ASSUME NEW i \in 1..(Len(waiters) + 1),
                        NEW j \in 1..(Len(waiters) + 1),
                        waiters'[i] = waiters'[j]
                 PROVE  i = j
      BY <2>6
    <3>1. CASE i \in DOMAIN waiters /\ j \in DOMAIN waiters
      BY <3>1, <2>5, <2>6 DEF QueueAgrees
    <3>2. CASE i \notin DOMAIN waiters
      <4>1. i = Len(waiters) + 1
        BY <3>2, <2>5, <2>6
      <4>2. QED  BY <4>1, <2>5, <2>6, <2>7
    <3>3. CASE j \notin DOMAIN waiters
      <4>1. j = Len(waiters) + 1
        BY <3>3, <2>5, <2>6
      <4>2. QED  BY <4>1, <2>5, <2>6, <2>7
    <3>4. QED  BY <3>1, <3>2, <3>3
  <2>9. ASSUME NEW d \in Callers
        PROVE  pc'[d] = "waiting" <=> \E i \in DOMAIN waiters' : waiters'[i] = d
    <3>1. CASE d = c
      <4>1. Len(waiters) + 1 \in DOMAIN waiters'
        BY <2>5, <2>6
      <4>2. QED  BY <4>1, <3>1, <2>2, <2>5
    <3>2. CASE d # c
      <4>1. pc'[d] = "waiting" <=> \E i \in DOMAIN waiters : waiters[i] = d
        BY <3>2, <2>2 DEF QueueAgrees
      <4>2. ASSUME NEW i \in DOMAIN waiters, waiters[i] = d
            PROVE  i \in DOMAIN waiters' /\ waiters'[i] = d
        BY <4>2, <2>5, <2>6
      <4>3. ASSUME NEW i \in DOMAIN waiters', waiters'[i] = d
            PROVE  i \in DOMAIN waiters /\ waiters[i] = d
        BY <4>3, <3>2, <2>5, <2>6
      <4>4. QED  BY <4>1, <4>2, <4>3
    <3>3. QED  BY <3>1, <3>2
  <2>10. value' = 0
    BY <2>1, <1>4, McpAssumption
  <2>11. QueueAgrees'
    BY <2>8, <2>9, <2>10 DEF QueueAgrees
  <2>12. value' \in 0..MaxConcurrency
    BY <2>1
  <2>13. QED  BY <2>2, <2>4, <2>5, <2>11, <2>12
<1>5. QED  BY <1>3, <1>4

-----------------------------------------------------------------------------
LEMMA InitIInv == Init => IInv
<1> SUFFICES ASSUME Init PROVE IInv
  OBVIOUS
<1>1. SlotTypes
  <2>1. waiters \in Seq(Callers)
    BY EmptySeq DEF Init
  <2>2. value \in 0..MaxConcurrency
    BY McpAssumption DEF Init
  <2>3. QED  BY <2>1, <2>2 DEF Init, SlotTypes, Places
<1>2. SlotCount
  <2>1. Holders = {}
    BY DEF Init, Holders, InSession
  <2>2. QED  BY <2>1, McpAssumption, FS_EmptySet DEF Init, SlotCount
<1>3. QueueAgrees
  BY EmptySeq DEF Init, QueueAgrees
<1>4. CallTypes
  BY DEF Init, CallTypes, Results
<1>5. ToldInv
  <2> SUFFICES ASSUME NEW c \in Callers PROVE Told(c)
    BY DEF ToldInv
  <2>1. QED  BY DEF Init, Told, Errnos
<1>6. QED  BY <1>1, <1>2, <1>3, <1>4, <1>5 DEF IInv, SlotInv

(* Every step keeps the slots and the queue. *)
LEMMA SlotStep == IInv /\ [Next]_vars => SlotInv'
<1> SUFFICES ASSUME IInv, [Next]_vars PROVE SlotInv'
  OBVIOUS
<1> USE DEF IInv
<1>1. InSession \subseteq Holding /\ "granted" \in Holding
  BY DEF Holding
<1>2. {"connecting", "operating", "closing"} \subseteq Holding
  BY DEF Holding, InSession
<1>3. ASSUME NEW c \in Callers, Call(c) PROVE SlotInv'
  BY <1>3, CallStep
<1>4. ASSUME NEW c \in Callers, Resume(c) PROVE SlotInv'
  BY <1>4, <1>1, <1>2, StayStep DEF Resume
<1>5. ASSUME NEW c \in Callers, Initialize(c) PROVE SlotInv'
  BY <1>5, <1>2, StayStep DEF Initialize
<1>6. ASSUME NEW c \in Callers, ConnectFails(c) PROVE SlotInv'
  BY <1>6, <1>2, StayStep DEF ConnectFails
<1>7. ASSUME NEW c \in Callers, Answer(c) PROVE SlotInv'
  BY <1>7, <1>2, StayStep DEF Answer
<1>8. ASSUME NEW c \in Callers, OperationFails(c) PROVE SlotInv'
  BY <1>8, <1>2, StayStep DEF OperationFails
<1>9. ASSUME NEW c \in Callers, CancelSession(c) PROVE SlotInv'
  BY <1>9, <1>1, <1>2, StayStep DEF CancelSession
<1>10. ASSUME NEW c \in Callers, NEW r, Leave(c, r) PROVE SlotInv'
  BY <1>10, <1>2, ReleaseStep DEF Leave
<1>11. ASSUME NEW c \in Callers, Closed(c) \/ CloseFails(c) PROVE SlotInv'
  BY <1>10, <1>11 DEF Closed, CloseFails
<1>12. ASSUME NEW c \in Callers, CancelQueued(c) PROVE SlotInv'
  <2>1. CASE pc[c] = "granted"
    BY <2>1, <1>1, <1>12, ReleaseStep DEF CancelQueued
  <2>2. CASE pc[c] = "waiting"
    <3>1. /\ Goto(c, "idle") /\ value' = value
          /\ \E i \in DOMAIN waiters :
                waiters[i] = c /\ waiters' = RemoveAt(waiters, i)
      BY <2>2, <1>12 DEF CancelQueued
    <3>2. QED  BY <3>1, <2>2, LeaveQueueStep
  <2>3. QED  BY <2>1, <2>2, <1>12 DEF CancelQueued
<1>13. CASE UNCHANGED <<slots, pc>>
  BY <1>13 DEF slots, SlotInv, SlotTypes, SlotCount, Holders, QueueAgrees
<1>14. ASSUME NEW c \in Callers, ServerExecutes(c) PROVE SlotInv'
  BY <1>13, <1>14 DEF ServerExecutes
<1>15. CASE UNCHANGED vars
  BY <1>13, <1>15 DEF vars
<1>15a. ASSUME NEW c \in Callers, Send(c) PROVE SlotInv'
  BY <1>13, <1>15a DEF Send
<1>16. QED
  BY <1>3, <1>4, <1>5, <1>6, <1>7, <1>8, <1>9, <1>11, <1>12, <1>14, <1>15, <1>15a
  DEF Next, Progress

(* A caller that keeps its record, wherever the queue moved it. *)
LEMMA OtherCaller ==
  ASSUME NEW d \in Callers, Told(d),
         pc'[d] = pc[d] \/ (pc[d] = "waiting" /\ pc'[d] = "granted"),
         d \in initialized' <=> d \in initialized,
         result'[d] = result[d], sends'[d] = sends[d], executed'[d] = executed[d]
  PROVE  Told(d)'
BY DEF Told

(* Every step keeps the types and the account of each call. *)
LEMMA CallInvStep == IInv /\ [Next]_vars => CallTypes' /\ ToldInv'
<1> SUFFICES ASSUME IInv, [Next]_vars PROVE CallTypes' /\ ToldInv'
  OBVIOUS
<1> USE DEF IInv, SlotInv, SlotTypes, CallTypes
<1>1. /\ \A c \in Callers : Told(c)
      /\ {"none", "ok", "error", "cancelled"} \cup Errnos = Results
      /\ Errnos = {"CONNECT_FAILED", "CALL_FAILED"}
  BY DEF ToldInv, Results, Errnos
<1>2. ASSUME NEW c \in Callers, Call(c) PROVE CallTypes' /\ ToldInv'
  <2>1. /\ initialized' = initialized \ {c}
        /\ result' = [result EXCEPT ![c] = "none"]
        /\ sends' = [sends EXCEPT ![c] = 0]
        /\ executed' = [executed EXCEPT ![c] = 0]
    BY <1>2 DEF Call
  <2>2. /\ pc'[c] \in {"connecting", "waiting"}
        /\ \A d \in Callers \ {c} : pc'[d] = pc[d]
    BY <1>2 DEF Call, Goto
  <2>3. CallTypes'
    BY <2>1, <1>1
  <2>4. Told(c)'
    BY <2>1, <2>2 DEF Told
  <2>5. ASSUME NEW d \in Callers \ {c} PROVE Told(d)'
    BY <2>1, <2>2, <2>5, <1>1, OtherCaller
  <2>6. QED  BY <2>3, <2>4, <2>5 DEF ToldInv
<1>3. ASSUME NEW c \in Callers, Resume(c) PROVE CallTypes' /\ ToldInv'
  <2>1. pc[c] = "granted" /\ pc' = [pc EXCEPT ![c] = "connecting"]
    BY <1>3 DEF Resume, Goto
  <2>2. UNCHANGED <<initialized, result, sends, executed>>
    BY <1>3 DEF Resume
  <2>3. Told(c)'
    BY <2>1, <2>2, <1>1 DEF Told
  <2>4. ASSUME NEW d \in Callers \ {c} PROVE Told(d)'
    BY <2>1, <2>2, <2>4, <1>1, OtherCaller
  <2>5. QED  BY <2>2, <2>3, <2>4 DEF ToldInv
<1>4. ASSUME NEW c \in Callers, Initialize(c) PROVE CallTypes' /\ ToldInv'
  <2>1. pc[c] = "connecting" /\ pc' = [pc EXCEPT ![c] = "operating"]
    BY <1>4 DEF Initialize, Goto
  <2>2. /\ initialized' = initialized \cup {c}
        /\ UNCHANGED <<result, sends, executed>>
    BY <1>4 DEF Initialize
  <2>3. result[c] = "none"
    BY <2>1, <1>1 DEF Told
  <2>4. CallTypes'
    BY <2>2
  <2>5. Told(c)'
    BY <2>1, <2>2, <2>3, <1>1 DEF Told
  <2>6. ASSUME NEW d \in Callers \ {c} PROVE Told(d)'
    BY <2>1, <2>2, <2>6, <1>1, OtherCaller
  <2>7. QED  BY <2>4, <2>5, <2>6 DEF ToldInv
<1>5. ASSUME NEW c \in Callers,
             ConnectFails(c) \/ Answer(c) \/ OperationFails(c) \/ CancelSession(c)
      PROVE  CallTypes' /\ ToldInv'
  <2>1. /\ pc[c] \in {"connecting", "operating", "closing"}
        /\ pc' = [pc EXCEPT ![c] = "closing"]
        /\ UNCHANGED <<initialized, sends, executed>>
    BY <1>5 DEF ConnectFails, Answer, OperationFails, CancelSession, Goto, InSession
  <2>2. PICK r \in {"ok", "error", "cancelled"} :
           /\ result' = [result EXCEPT ![c] = r]
           /\ r = "ok" => pc[c] = "operating" /\ executed[c] = 1
    BY <1>5 DEF ConnectFails, Answer, OperationFails, CancelSession
  <2>3. CallTypes'
    BY <2>1, <2>2, <1>1
  <2>4. Told(c)'
    BY <2>1, <2>2, <1>1 DEF Told
  <2>5. ASSUME NEW d \in Callers \ {c} PROVE Told(d)'
    BY <2>1, <2>2, <2>5, <1>1, OtherCaller
  <2>6. QED  BY <2>3, <2>4, <2>5 DEF ToldInv
<1>6. ASSUME NEW c \in Callers, ServerExecutes(c) PROVE CallTypes' /\ ToldInv'
  <2>1. /\ executed[c] < sends[c]
        /\ executed' = [executed EXCEPT ![c] = @ + 1]
        /\ UNCHANGED <<pc, initialized, result, sends>>
    BY <1>6 DEF ServerExecutes
  <2>2. executed[c] = 0 /\ sends[c] = 1
    BY <2>1
  <2>3. CallTypes'
    BY <2>1, <2>2
  <2>4. Told(c)'
    BY <2>1, <2>2, <1>1 DEF Told
  <2>5. ASSUME NEW d \in Callers \ {c} PROVE Told(d)'
    BY <2>1, <2>5, <1>1, OtherCaller
  <2>6. QED  BY <2>3, <2>4, <2>5 DEF ToldInv
<1>6a. ASSUME NEW c \in Callers, Send(c) PROVE CallTypes' /\ ToldInv'
  <2>1. /\ c \in initialized /\ sends[c] = 0 /\ pc[c] \in {"operating", "closing"}
        /\ sends' = [sends EXCEPT ![c] = 1]
        /\ UNCHANGED <<pc, initialized, result, executed>>
    BY <1>6a DEF Send
  <2>2. executed[c] = 0
    BY <2>1, <1>1 DEF Told
  <2>3. CallTypes'
    BY <2>1
  <2>4. Told(c)'
    BY <2>1, <2>2, <1>1 DEF Told
  <2>5. ASSUME NEW d \in Callers \ {c} PROVE Told(d)'
    BY <2>1, <2>5, <1>1, OtherCaller
  <2>6. QED  BY <2>3, <2>4, <2>5 DEF ToldInv
<1>7. ASSUME NEW c \in Callers, NEW r \in {result[c], "error"}, Leave(c, r)
      PROVE  CallTypes' /\ ToldInv'
  <2>1. /\ pc[c] = "closing"
        /\ result' = [result EXCEPT ![c] = Classify(c, r)]
        /\ Release(c, "idle")
        /\ UNCHANGED <<initialized, sends, executed>>
    BY <1>7 DEF Leave
  <2>2. /\ pc'[c] = "idle"
        /\ \A d \in Callers \ {c} :
              pc'[d] = pc[d] \/ (pc[d] = "waiting" /\ pc'[d] = "granted")
    BY <2>1, ReleaseStep DEF Holding, InSession
  <2>3. result[c] \in {"ok", "error", "cancelled"}
    BY <2>1, <1>1 DEF Told
  <2>4. \/ r = result[c] /\ r # "error" /\ Classify(c, r) = result[c]
        \/ Classify(c, r) = "CALL_FAILED"
        \/ c \notin initialized /\ Classify(c, r) = "CONNECT_FAILED"
    BY <2>3, <1>7 DEF Classify
  <2>5. Classify(c, r) \in Results
    BY <2>4, <1>1
  <2>6. CallTypes'
    BY <2>1, <2>5
  <2>7. Told(c)'
    BY <2>1, <2>2, <2>4, <1>1 DEF Told
  <2>8. ASSUME NEW d \in Callers \ {c} PROVE Told(d)'
    BY <2>1, <2>2, <2>8, <1>1, OtherCaller
  <2>9. QED  BY <2>6, <2>7, <2>8 DEF ToldInv
<1>8. ASSUME NEW c \in Callers, Closed(c) \/ CloseFails(c)
      PROVE  CallTypes' /\ ToldInv'
  BY <1>7, <1>8 DEF Closed, CloseFails
<1>9. ASSUME NEW c \in Callers, CancelQueued(c) PROVE CallTypes' /\ ToldInv'
  <2>1. /\ pc[c] \in {"waiting", "granted"}
        /\ result' = [result EXCEPT ![c] = "cancelled"]
        /\ UNCHANGED <<initialized, sends, executed>>
    BY <1>9 DEF CancelQueued
  <2>2. /\ pc'[c] = "idle"
        /\ \A d \in Callers \ {c} :
              pc'[d] = pc[d] \/ (pc[d] = "waiting" /\ pc'[d] = "granted")
    <3>1. CASE pc[c] = "granted"
      BY <3>1, <1>9, ReleaseStep DEF CancelQueued, Holding
    <3>2. CASE pc[c] = "waiting"
      BY <3>2, <1>9 DEF CancelQueued, Goto
    <3>3. QED  BY <2>1, <3>1, <3>2
  <2>3. CallTypes'
    BY <2>1, <1>1
  <2>4. Told(c)'
    BY <2>1, <2>2, <1>1 DEF Told
  <2>5. ASSUME NEW d \in Callers \ {c} PROVE Told(d)'
    BY <2>1, <2>2, <2>5, <1>1, OtherCaller
  <2>6. QED  BY <2>3, <2>4, <2>5 DEF ToldInv
<1>10. CASE UNCHANGED vars
  <2>1. UNCHANGED <<pc, initialized, result, sends, executed>>
    BY <1>10 DEF vars
  <2>2. QED  BY <2>1 DEF ToldInv, Told
<1>11. QED
  BY <1>2, <1>3, <1>4, <1>5, <1>6, <1>6a, <1>8, <1>9, <1>10 DEF Next, Progress

LEMMA Inductive == Spec => []IInv
<1>1. IInv /\ [Next]_vars => IInv'
  BY SlotStep, CallInvStep DEF IInv
<1>2. QED  BY InitIInv, <1>1, PTL DEF Spec

-----------------------------------------------------------------------------
(* execute() keeps its types: the semaphore's counter stays within bounds   *)
(* and no call sends its operation twice.                                   *)
THEOREM TypeCorrect == Spec => []TypeOK
<1>1. IInv => TypeOK
  BY DEF IInv, SlotInv, SlotTypes, CallTypes, TypeOK
<1>2. QED  BY Inductive, <1>1, PTL

(* No error, teardown failure or cancellation loses a slot of the           *)
(* semaphore or gives one out twice, and nobody queues while one is free,   *)
(* for any number of tasks.                                                 *)
THEOREM Slots == Spec => []SlotsConserved
<1>1. IInv => SlotsConserved
  BY DEF IInv, SlotInv, SlotCount, QueueAgrees, SlotsConserved
<1>2. QED  BY Inductive, <1>1, PTL

(* The errno a caller of execute() sees says whether the server can have    *)
(* been asked.                                                              *)
THEOREM ErrnoRight == Spec => []ErrnoTellsEffect
<1>1. IInv => ErrnoTellsEffect
  <2> SUFFICES ASSUME IInv, NEW c \in Callers
               PROVE  /\ result[c] = "CONNECT_FAILED" => sends[c] = 0 /\ executed[c] = 0
                      /\ result[c] = "ok" => executed[c] = 1
                      /\ executed[c] <= sends[c] /\ sends[c] <= 1
    BY DEF ErrnoTellsEffect
  <2>1. Told(c) /\ executed[c] \in 0..1 /\ sends[c] \in 0..1
    BY DEF IInv, ToldInv, CallTypes
  <2>2. QED  BY <2>1 DEF Told
<1>2. QED  BY Inductive, <1>1, PTL

-----------------------------------------------------------------------------
(***************************************************************************)
(* Refinement: a caller of execute() makes a ServerCall that may ask once. *)
(* What the caller was told is decided when the call ends, so inside the   *)
(* session a result may still change unseen.                               *)
(***************************************************************************)
Running == {c \in Callers : pc[c] # "idle"}
ToldTo  == [c \in Callers |-> IF pc[c] = "idle" THEN Outcome(result[c]) ELSE "nothing"]

(* What a step of call c leaves of the others' calls.                       *)
Bystanders(c) == \A d \in Callers \ {c} : /\ pc'[d] = "idle" <=> pc[d] = "idle"
                                          /\ pc[d] = "idle" => result'[d] = result[d]

LEMMA StillRunning ==
  ASSUME NEW c \in Callers, pc'[c] # "idle", Bystanders(c)
  PROVE  Server!Continues(c)
<1>1. Running' = Running \cup {c}
  BY DEF Running, Bystanders
<1>2. ToldTo' = [ToldTo EXCEPT ![c] = "nothing"]
  <2>1. ASSUME NEW d \in Callers
        PROVE  (IF pc'[d] = "idle" THEN Outcome(result'[d]) ELSE "nothing")
                 = IF d = c THEN "nothing" ELSE ToldTo[d]
    BY DEF ToldTo, Bystanders
  <2>2. ToldTo' = [d \in Callers |-> IF pc'[d] = "idle" THEN Outcome(result'[d])
                                     ELSE "nothing"]
    BY DEF ToldTo
  <2>3. DOMAIN ToldTo = Callers
    BY DEF ToldTo
  <2> HIDE DEF ToldTo
  <2>4. QED  BY <2>1, <2>2, <2>3
<1>3. QED  BY <1>1, <1>2 DEF Server!Continues, Running, ToldTo

LEMMA Over ==
  ASSUME NEW c \in Callers, pc'[c] = "idle", Bystanders(c),
         Outcome(result'[c]) \in Server!Outcomes, Server!Truthful(c)'
  PROVE  Server!Ends(c)
<1>1. Running' = Running \ {c}
  BY DEF Running, Bystanders
<1>2. ToldTo' = [ToldTo EXCEPT ![c] = Outcome(result'[c])]
  <2>1. ASSUME NEW d \in Callers
        PROVE  (IF pc'[d] = "idle" THEN Outcome(result'[d]) ELSE "nothing")
                 = IF d = c THEN Outcome(result'[c]) ELSE ToldTo[d]
    BY DEF ToldTo, Bystanders
  <2>2. ToldTo' = [d \in Callers |-> IF pc'[d] = "idle" THEN Outcome(result'[d])
                                     ELSE "nothing"]
    BY DEF ToldTo
  <2>3. DOMAIN ToldTo = Callers
    BY DEF ToldTo
  <2> HIDE DEF ToldTo
  <2>4. QED  BY <2>1, <2>2, <2>3
<1>3. QED  BY <1>1, <1>2 DEF Server!Ends, Running, ToldTo

LEMMA Unchanged ==
  ASSUME NEW c \in Callers, Bystanders(c), pc[c] # "idle", pc'[c] # "idle",
         UNCHANGED <<sends, executed>>
  PROVE  UNCHANGED Server!vars
<1>1. Running' = Running
  BY DEF Running, Bystanders
<1>2. ToldTo' = ToldTo
  <2>1. ASSUME NEW d \in Callers
        PROVE  (IF pc'[d] = "idle" THEN Outcome(result'[d]) ELSE "nothing")
                 = IF pc[d] = "idle" THEN Outcome(result[d]) ELSE "nothing"
    BY DEF Bystanders
  <2>2. QED  BY <2>1 DEF ToldTo
<1>3. QED  BY <1>1, <1>2 DEF Server!vars, Running, ToldTo

LEMMA ServerInit == Init => Server!Init
<1> SUFFICES ASSUME Init PROVE Server!Init
  OBVIOUS
<1>1. Running = {} /\ ToldTo = [c \in Callers |-> "nothing"]
  BY DEF Init, Running, ToldTo, Outcome
<1>2. QED  BY <1>1 DEF Init, Server!Init, Running, ToldTo

(* The outcome of a call that has ended is true: its account says so. *)
LEMMA ToldIsTrue ==
  ASSUME NEW c \in Callers, pc'[c] = "idle", Told(c)', sends'[c] \in 0..1
  PROVE  Server!Truthful(c)'
<1>1. ToldTo'[c] = Outcome(result'[c])
  BY DEF ToldTo
<1>2. /\ Outcome(result'[c]) = "refused" => result'[c] = "CONNECT_FAILED"
      /\ Outcome(result'[c]) = "answered" => result'[c] = "ok"
  BY DEF Outcome
<1>3. /\ ToldTo'[c] = "refused" => sends'[c] = 0
      /\ ToldTo'[c] = "answered" => executed'[c] > 0
  BY <1>1, <1>2 DEF Told
<1>4. QED  BY <1>3 DEF Server!Truthful, ToldTo

LEMMA ServerStep ==
  IInv /\ IInv' /\ [Next]_vars => [Server!Next]_(Server!vars)
<1> SUFFICES ASSUME IInv, IInv', [Next]_vars
             PROVE  Server!Next \/ UNCHANGED Server!vars
  OBVIOUS
<1>1. /\ SlotInv /\ pc \in [Callers -> Places]
      /\ result \in [Callers -> Results]
      /\ sends \in [Callers -> 0..1] /\ executed \in [Callers -> 0..1]
      /\ \A c \in Callers : Told(c) /\ Told(c)' /\ sends'[c] \in 0..1
  BY DEF IInv, SlotInv, SlotTypes, CallTypes, ToldInv
<1>2. ASSUME NEW c \in Callers, Call(c) PROVE Server!Begin(c)
  <2>1. /\ pc[c] = "idle" /\ pc'[c] # "idle"
        /\ sends' = [sends EXCEPT ![c] = 0]
        /\ executed' = [executed EXCEPT ![c] = 0]
    BY <1>1, <1>2 DEF Call, Goto
  <2>2. Bystanders(c)
    BY <1>1, <1>2 DEF Call, Goto, Bystanders
  <2>3. Server!Continues(c)
    BY <2>1, <2>2, StillRunning
  <2>4. [d \in Callers |-> 1][c] = 1
    OBVIOUS
  <2>5. QED  BY <2>1, <2>3, <2>4 DEF Server!Begin
<1>3. ASSUME NEW c \in Callers,
             \/ Resume(c) \/ Initialize(c) \/ ConnectFails(c)
             \/ Answer(c) \/ OperationFails(c) \/ CancelSession(c)
      PROVE  UNCHANGED Server!vars
  <2>1. pc[c] # "idle" /\ pc'[c] # "idle" /\ UNCHANGED <<sends, executed>>
    BY <1>1, <1>3 DEF Resume, Initialize, ConnectFails, Answer, OperationFails,
                      CancelSession, Goto, InSession
  <2>2. Bystanders(c)
    BY <1>1, <1>3 DEF Resume, Initialize, ConnectFails, Answer, OperationFails,
                      CancelSession, Goto, Bystanders
  <2>3. QED  BY <2>1, <2>2, Unchanged
<1>4. ASSUME NEW c \in Callers, Send(c) PROVE Server!Ask(c)
  <2>1. /\ pc[c] # "idle" /\ pc'[c] # "idle" /\ sends[c] < 1
        /\ sends' = [sends EXCEPT ![c] = @ + 1]
        /\ UNCHANGED executed
    <3>1. sends[c] = 0 /\ sends' = [sends EXCEPT ![c] = 1] /\ 0 + 1 = 1
      BY <1>4 DEF Send
    <3>2. sends' = [sends EXCEPT ![c] = @ + 1]
      BY <3>1
    <3>3. QED  BY <1>4, <3>1, <3>2 DEF Send
  <2>2. Bystanders(c)
    BY <1>4 DEF Send, Bystanders
  <2>3. Server!Continues(c)
    BY <2>1, <2>2, StillRunning
  <2>4. QED  BY <2>1, <2>3 DEF Server!Ask
<1>5. ASSUME NEW c \in Callers, ServerExecutes(c) PROVE Server!ServeUnheard(c)
  BY <1>5 DEF ServerExecutes, Server!ServeUnheard, Server!Serves
<1>6. ASSUME NEW c \in Callers, pc[c] # "idle", pc'[c] = "idle", Bystanders(c),
             Outcome(result'[c]) \in Server!Outcomes, UNCHANGED <<sends, executed>>
      PROVE  Server!Hear(c)
  <2>1. Server!Truthful(c)'
    BY <1>1, <1>6, ToldIsTrue
  <2>2. Server!Ends(c)
    BY <1>6, <2>1, Over
  <2>3. QED  BY <1>6, <2>2 DEF Server!Hear
<1>7. ASSUME NEW c \in Callers, NEW r \in {result[c], "error"}, Leave(c, r)
      PROVE  Server!Hear(c)
  <2>1. pc[c] = "closing" /\ Release(c, "idle")
        /\ result' = [result EXCEPT ![c] = Classify(c, r)] /\ UNCHANGED <<sends, executed>>
    BY <1>7 DEF Leave
  <2>2. /\ pc'[c] = "idle"
        /\ \A d \in Callers \ {c} :
              pc'[d] = pc[d] \/ (pc[d] = "waiting" /\ pc'[d] = "granted")
    BY <1>1, <2>1, ReleaseStep DEF Holding, InSession
  <2>3. Bystanders(c)
    BY <1>1, <2>1, <2>2 DEF Bystanders
  <2>4. r \in {"ok", "error", "cancelled"}
    BY <1>1, <1>7, <2>1 DEF Told
  <2>5. Classify(c, r) \in {"ok", "cancelled", "CALL_FAILED", "CONNECT_FAILED"}
    BY <2>4 DEF Classify
  <2>6. Outcome(Classify(c, r)) \in Server!Outcomes
    BY <2>5 DEF Outcome, Server!Outcomes
  <2>7. result'[c] = Classify(c, r)
    BY <1>1, <2>1
  <2>8. QED  BY <1>6, <2>1, <2>2, <2>3, <2>6, <2>7
<1>8. ASSUME NEW c \in Callers, CancelQueued(c) PROVE Server!Hear(c)
  <2>1. /\ pc[c] \in {"waiting", "granted"} /\ result' = [result EXCEPT ![c] = "cancelled"]
        /\ UNCHANGED <<sends, executed>>
    BY <1>8 DEF CancelQueued
  <2>2. /\ pc'[c] = "idle"
        /\ \A d \in Callers \ {c} :
              pc'[d] = pc[d] \/ (pc[d] = "waiting" /\ pc'[d] = "granted")
    <3>1. CASE pc[c] = "granted"
      BY <1>1, <1>8, <3>1, ReleaseStep DEF CancelQueued, Holding
    <3>2. CASE pc[c] = "waiting"
      BY <1>1, <1>8, <3>2 DEF CancelQueued, Goto
    <3>3. QED  BY <2>1, <3>1, <3>2
  <2>3. Bystanders(c)
    BY <1>1, <2>1, <2>2 DEF Bystanders
  <2>4. Outcome(result'[c]) \in Server!Outcomes
    BY <1>1, <2>1 DEF Outcome, Server!Outcomes
  <2>5. QED  BY <1>6, <2>1, <2>2, <2>3, <2>4
<1>9. CASE UNCHANGED vars
  <2>1. Running' = Running /\ ToldTo' = ToldTo /\ UNCHANGED <<sends, executed>>
    BY <1>9 DEF vars, Running, ToldTo
  <2>2. QED  BY <2>1 DEF Server!vars, Running, ToldTo
<1>10. QED
  BY <1>2, <1>3, <1>4, <1>5, <1>7, <1>8, <1>9
  DEF Next, Progress, Closed, CloseFails, Server!Next

(* Every behaviour of the MCP client is one of calls that ask their server  *)
(* at most once and tell the truth about it.                                *)
THEOREM Refinement == Spec => ImplementsServerCall
<1>1. QED
  BY Inductive, ServerInit, ServerStep, PTL DEF Spec, Server!Spec, ImplementsServerCall

-----------------------------------------------------------------------------
(***************************************************************************)
(* Slots are granted in the order in which the callers came.               *)
(***************************************************************************)
Ahead(c, d) == \E i, j \in DOMAIN waiters : i < j /\ waiters[i] = c /\ waiters[j] = d

(* Who waits behind another caller is not served before it; the order of    *)
(* two callers in the queue never changes while both are in it; and a       *)
(* newcomer joins the queue behind everybody who waits.                     *)
InTurn ==
    \A c, d \in Callers :
        /\ Ahead(c, d) => pc'[d] \in {"waiting", "idle"}
        /\ Ahead(c, d) /\ pc'[c] = "waiting" /\ pc'[d] = "waiting" => Ahead(c, d)'
        /\ pc[c] = "waiting" /\ pc[d] = "idle" =>
              pc'[d] = "idle" \/ (pc'[d] = "waiting" /\ Ahead(c, d)')

NoOvertaking == [][InTurn]_vars

LEMMA AheadWait ==
  ASSUME SlotInv, NEW c \in Callers, NEW d \in Callers, Ahead(c, d)
  PROVE  pc[c] = "waiting" /\ pc[d] = "waiting"
BY DEF SlotInv, QueueAgrees, Ahead

(* The head of the queue is behind nobody. *)
LEMMA ReleaseInTurn ==
  ASSUME SlotInv, NEW x \in Callers, pc[x] \in Holding, Release(x, "idle")
  PROVE  InTurn
<1>1. /\ waiters \in Seq(Callers) /\ pc \in [Callers -> Places]
      /\ pc[x] # "waiting" /\ pc[x] # "idle"
  BY DEF SlotInv, SlotTypes, Holding, InSession
<1>2. CASE waiters = <<>>
  <2>1. \A c, d \in Callers : ~ Ahead(c, d)
    BY <1>2 DEF Ahead
  <2>2. \A c \in Callers : pc[c] # "waiting"
    BY <1>2 DEF SlotInv, QueueAgrees
  <2>3. QED  BY <2>1, <2>2 DEF InTurn
<1>3. CASE waiters # <<>>
  <2> DEFINE h == Head(waiters)
  <2>1. waiters' = Tail(waiters) /\ pc' = [pc EXCEPT ![x] = "idle", ![h] = "granted"]
    BY <1>3 DEF Release
  <2>2. /\ h = waiters[1] /\ h \in Callers
        /\ Len(Tail(waiters)) = Len(waiters) - 1
        /\ DOMAIN Tail(waiters) = 1..(Len(waiters) - 1)
        /\ \A i \in 1..Len(Tail(waiters)) : Tail(waiters)[i] = waiters[i + 1]
        /\ Len(waiters) \in Nat \ {0} /\ DOMAIN waiters = 1..Len(waiters)
    BY <1>1, <1>3, HeadTailProperties, EmptySeq, LenProperties
  <2>3. pc[h] = "waiting"
    BY <2>2 DEF SlotInv, QueueAgrees
  <2> HIDE DEF h
  <2>4. /\ pc'[h] = "granted"
        /\ \A d \in Callers \ {h, x} : pc'[d] = pc[d]
        /\ pc'[x] = "idle"
    BY <1>1, <2>1, <2>2, <2>3
  <2>5. ASSUME NEW c \in Callers, NEW d \in Callers, Ahead(c, d)
        PROVE  /\ pc'[d] \in {"waiting", "idle"}
               /\ pc'[c] = "waiting" => Ahead(c, d)'
    <3>1. PICK i \in DOMAIN waiters, j \in DOMAIN waiters :
             i < j /\ waiters[i] = c /\ waiters[j] = d
      BY <2>5 DEF Ahead
    <3>2. pc[d] = "waiting"
      BY <2>5, AheadWait
    <3>3. 1 \in DOMAIN waiters /\ j # 1
      BY <2>2, <3>1
    <3>4. d # h
      BY <2>2, <3>1, <3>3 DEF SlotInv, QueueAgrees
    <3>5. pc'[d] = "waiting"
      BY <1>1, <2>4, <3>2, <3>4
    <3>6. ASSUME pc'[c] = "waiting" PROVE Ahead(c, d)'
      <4>1. c # h
        BY <2>4, <3>6
      <4>2. i # 1
        BY <2>2, <3>1, <4>1
      <4>3. /\ i - 1 \in DOMAIN waiters' /\ j - 1 \in DOMAIN waiters' /\ i - 1 < j - 1
            /\ (i - 1) + 1 = i /\ (j - 1) + 1 = j
        BY <2>1, <2>2, <3>1, <4>2
      <4>4. waiters'[i - 1] = c /\ waiters'[j - 1] = d
        BY <2>1, <2>2, <3>1, <4>3
      <4>5. QED  BY <4>3, <4>4 DEF Ahead
    <3>7. QED  BY <3>5, <3>6
  <2>6. \A d \in Callers : pc[d] = "idle" => pc'[d] = "idle"
    BY <1>1, <2>3, <2>4
  <2>7. QED  BY <2>5, <2>6 DEF InTurn
<1>4. QED  BY <1>2, <1>3

(* Who leaves the queue leaves the order of the others. *)
LEMMA LeaveInTurn ==
  ASSUME SlotInv, NEW x \in Callers, pc[x] = "waiting", Goto(x, "idle"),
         NEW k \in DOMAIN waiters, waiters[k] = x, waiters' = RemoveAt(waiters, k)
  PROVE  InTurn
<1>1. waiters \in Seq(Callers) /\ pc \in [Callers -> Places]
  BY DEF SlotInv, SlotTypes
<1>2. Len(waiters) \in Nat /\ k \in 1..Len(waiters) /\ DOMAIN waiters = 1..Len(waiters)
  BY <1>1, LenProperties
<1>3. /\ waiters' \in Seq(Callers)
      /\ Len(waiters') = Len(waiters) - 1
      /\ \A j \in 1..(Len(waiters) - 1) :
            waiters'[j] = IF j < k THEN waiters[j] ELSE waiters[j + 1]
  BY <1>1, <1>2, RemoveAtFacts
<1>4. DOMAIN waiters' = 1..(Len(waiters) - 1)
  BY <1>3
<1>5. pc'[x] = "idle" /\ \A d \in Callers \ {x} : pc'[d] = pc[d]
  BY <1>1 DEF Goto
<1> DEFINE to(i) == IF i < k THEN i ELSE i - 1
<1>6. ASSUME NEW i \in DOMAIN waiters, i # k
      PROVE  to(i) \in DOMAIN waiters' /\ waiters'[to(i)] = waiters[i]
  BY <1>2, <1>3, <1>4, <1>6
<1>7. ASSUME NEW c \in Callers, NEW d \in Callers, Ahead(c, d)
      PROVE  /\ pc'[d] \in {"waiting", "idle"}
             /\ pc'[c] = "waiting" /\ pc'[d] = "waiting" => Ahead(c, d)'
  <2>1. PICK i \in DOMAIN waiters, j \in DOMAIN waiters :
           i < j /\ waiters[i] = c /\ waiters[j] = d
    BY <1>7 DEF Ahead
  <2>2. pc[d] = "waiting"
    BY <1>7, AheadWait
  <2>3. pc'[d] \in {"waiting", "idle"}
    BY <1>5, <2>2
  <2>4. ASSUME pc'[c] = "waiting", pc'[d] = "waiting" PROVE Ahead(c, d)'
    <3>1. c # x /\ d # x
      BY <1>5, <2>4
    <3>2. i # k /\ j # k
      BY <2>1, <3>1
    <3>3. to(i) < to(j)
      BY <1>2, <2>1, <3>2
    <3> HIDE DEF to
    <3>4. to(i) \in DOMAIN waiters' /\ waiters'[to(i)] = c
      BY <1>6, <2>1, <3>2
    <3>5. to(j) \in DOMAIN waiters' /\ waiters'[to(j)] = d
      BY <1>6, <2>1, <3>2
    <3>6. QED  BY <3>3, <3>4, <3>5 DEF Ahead
  <2>5. QED  BY <2>3, <2>4
<1>8. \A d \in Callers : pc[d] = "idle" => pc'[d] = "idle"
  BY <1>5
<1>9. QED  BY <1>7, <1>8 DEF InTurn

(* A newcomer joins the end of the queue, or finds it empty. *)
LEMMA CallInTurn ==
  ASSUME SlotInv, NEW x \in Callers, Call(x)
  PROVE  InTurn
<1>1. waiters \in Seq(Callers) /\ pc \in [Callers -> Places] /\ pc[x] = "idle"
  BY DEF SlotInv, SlotTypes, Call
<1>2. /\ \A d \in Callers \ {x} : pc'[d] = pc[d]
      /\ waiters # <<>> => pc'[x] = "waiting"
  BY <1>1 DEF Call, Goto, SlotInv, SlotTypes, QueueAgrees
<1>3. \A i \in DOMAIN waiters : i \in DOMAIN waiters' /\ waiters'[i] = waiters[i]
  <2>1. CASE waiters' = waiters
    BY <2>1
  <2>2. CASE waiters' = Append(waiters, x)
    BY <1>1, <2>2, AppendProperties
  <2>3. QED  BY <2>1, <2>2 DEF Call
<1>4. ASSUME NEW c \in Callers, NEW d \in Callers, Ahead(c, d)
      PROVE  pc'[d] = "waiting" /\ Ahead(c, d)'
  <2>1. pc[d] = "waiting"
    BY <1>4, AheadWait
  <2>2. Ahead(c, d)'
    BY <1>3, <1>4 DEF Ahead
  <2>3. QED  BY <1>1, <1>2, <2>1, <2>2
<1>5. ASSUME NEW c \in Callers, NEW d \in Callers, pc[c] = "waiting", pc[d] = "idle"
      PROVE  pc'[d] = "idle" \/ (pc'[d] = "waiting" /\ Ahead(c, d)')
  <2>1. PICK i \in DOMAIN waiters : waiters[i] = c
    BY <1>5 DEF SlotInv, QueueAgrees
  <2>2. CASE d # x
    BY <1>2, <1>5, <2>2
  <2>3. CASE d = x
    <3>1. waiters # <<>> /\ pc'[x] = "waiting"
      BY <1>2, <2>1
    <3>2. waiters' = Append(waiters, x)
      BY <1>1, <3>1 DEF Call, Goto, SlotInv, SlotTypes, QueueAgrees
    <3>3. /\ Len(waiters) + 1 \in DOMAIN waiters' /\ waiters'[Len(waiters) + 1] = x
          /\ i < Len(waiters) + 1
      BY <1>1, <2>1, <3>2, AppendProperties, LenProperties
    <3>4. i \in DOMAIN waiters' /\ waiters'[i] = c
      BY <1>3, <2>1
    <3>5. Ahead(c, d)'
      BY <2>3, <3>3, <3>4 DEF Ahead
    <3>6. QED  BY <2>3, <3>1, <3>5
  <2>4. QED  BY <2>2, <2>3
<1>6. QED  BY <1>4, <1>5 DEF InTurn

(* mcp/client.py, the limiter of execute(): a slot goes to whoever waits    *)
(* longest, through every failure and every cancellation of the others.     *)
THEOREM FirstComeFirstServed == Spec => NoOvertaking
<1>1. IInv /\ [Next]_vars => [InTurn]_vars
  <2> SUFFICES ASSUME IInv, Next PROVE InTurn
    OBVIOUS
  <2>1. SlotInv /\ pc \in [Callers -> Places]
    BY DEF IInv, SlotInv, SlotTypes
  <2>2. ASSUME NEW x \in Callers, UNCHANGED waiters, pc[x] \notin {"waiting", "idle"},
               \A d \in Callers \ {x} : pc'[d] = pc[d]
        PROVE  InTurn
    <3>1. ASSUME NEW c \in Callers, NEW d \in Callers, Ahead(c, d)
          PROVE  pc'[d] = "waiting" /\ Ahead(c, d)'
      <4>1. pc[d] = "waiting"
        BY <2>1, <3>1, AheadWait
      <4>2. QED  BY <2>2, <3>1, <4>1 DEF Ahead
    <3>2. \A d \in Callers : pc[d] = "idle" => pc'[d] = "idle"
      BY <2>2
    <3>3. QED  BY <3>1, <3>2 DEF InTurn
  <2>3. ASSUME NEW x \in Callers, Call(x) PROVE InTurn
    BY <2>1, <2>3, CallInTurn
  <2>4. ASSUME NEW x \in Callers,
               \/ Resume(x) \/ Initialize(x) \/ ConnectFails(x) \/ Answer(x)
               \/ OperationFails(x) \/ CancelSession(x)
        PROVE  InTurn
    <3>1. UNCHANGED waiters /\ pc[x] \notin {"waiting", "idle"}
      BY <2>4 DEF Resume, Initialize, ConnectFails, Answer, OperationFails, CancelSession,
                  slots, InSession
    <3>2. \A d \in Callers \ {x} : pc'[d] = pc[d]
      BY <2>1, <2>4 DEF Resume, Initialize, ConnectFails, Answer, OperationFails,
                        CancelSession, Goto
    <3>3. QED  BY <2>2, <3>1, <3>2
  <2>5. ASSUME NEW x \in Callers, Closed(x) \/ CloseFails(x) PROVE InTurn
    BY <2>1, <2>5, ReleaseInTurn DEF Closed, CloseFails, Leave, Holding, InSession
  <2>6. ASSUME NEW x \in Callers, CancelQueued(x) PROVE InTurn
    <3>1. CASE pc[x] = "granted" /\ Release(x, "idle")
      BY <2>1, <3>1, ReleaseInTurn DEF Holding
    <3>2. CASE /\ pc[x] = "waiting" /\ Goto(x, "idle")
               /\ \E i \in DOMAIN waiters :
                     waiters[i] = x /\ waiters' = RemoveAt(waiters, i)
      BY <2>1, <3>2, LeaveInTurn
    <3>3. QED  BY <2>6, <3>1, <3>2 DEF CancelQueued
  <2>7. ASSUME NEW x \in Callers, Send(x) \/ ServerExecutes(x) PROVE InTurn
    <3>1. waiters' = waiters /\ pc' = pc
      BY <2>7 DEF Send, ServerExecutes, slots
    <3>2. \A c, d \in Callers : Ahead(c, d) => pc[d] = "waiting" /\ Ahead(c, d)'
      BY <2>1, <3>1, AheadWait DEF Ahead
    <3>3. QED  BY <3>1, <3>2 DEF InTurn
  <2>8. QED
    BY <2>3, <2>4, <2>5, <2>6, <2>7 DEF Next, Progress
<1>2. QED  BY Inductive, <1>1, PTL DEF Spec, NoOvertaking
=============================================================================
