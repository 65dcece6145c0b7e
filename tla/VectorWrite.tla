---------------------------- MODULE VectorWrite ----------------------------
(***************************************************************************)
(* VectorRepository._write of app/repositories/vector.py, behind insert()  *)
(* and upsert(): rows are sent in batches, one SDK call at a time, and the *)
(* counts Milvus confirms are summed up. close_milvus()                    *)
(* (app/core/milvus.py) may run whenever the write awaits an answer.       *)
(*                                                                         *)
(* Rows are numbered from 1; the batch at an offset is                     *)
(* rows[offset : offset + batch_size]. Milvus is external: an SDK call     *)
(* that raises or is answered with something malformed may have written    *)
(* any part of its batch.                                                  *)
(***************************************************************************)
EXTENDS Naturals, FiniteSets

CONSTANTS MaxRows,     \* bound: rows of one write
          MaxBatch     \* bound: batch_size

ASSUME VectorAssumption == MaxRows \in Nat /\ MaxBatch \in Nat \ {0}

VARIABLES rows,      \* len(rows), the argument
          size,      \* self.batch_size, positive by __init__
          pc,        \* where the write is
          offset,    \* the batch being written
          sends,     \* ghost: times each row was put on the wire
          wrote,     \* ghost: rows Milvus has written
          total,     \* the confirmed counts so far
          outcome,   \* how the write ended
          client     \* _milvus_client

write == <<rows, size, pc, offset, sends, wrote, total, outcome>>
vars  == <<write, client>>

AllRows  == 1..MaxRows
Outcomes == {"none", "returned", "not_initialized", "operation_failed",
             "invalid_response"}

TypeOK == /\ rows \in 0..MaxRows
          /\ size \in 1..MaxBatch
          /\ pc \in {"idle", "await", "done"}
          /\ offset \in 0..(MaxRows + MaxBatch)
          /\ sends \in [AllRows -> Nat]
          /\ wrote \subseteq AllRows
          /\ total \in Nat
          /\ outcome \in Outcomes
          /\ client \in {"open", "closing", "none"}

Init == /\ rows \in 0..MaxRows
        /\ size \in 1..MaxBatch
        /\ pc = "idle"
        /\ offset = 0
        /\ sends = [r \in AllRows |-> 0]
        /\ wrote = {}
        /\ total = 0
        /\ outcome = "none"
        /\ client = "open"

(* Regression: the slice includes its upper end. *)
BatchOverlapping(at) == {r \in AllRows : at < r /\ r <= at + size + 1 /\ r <= rows}

(* rows[at : at + size] *)
Batch(at) == {r \in AllRows : at < r /\ r <= at + size /\ r <= rows}

Finish(how) == pc' = "done" /\ outcome' = how /\ UNCHANGED sends

(* Regression: a batch waits for a closed client to come back. *)
SendOrWait(at) ==
    /\ offset' = at
    /\ IF at >= rows THEN Finish("returned")
       ELSE IF client = "none" THEN pc' = "waiting" /\ UNCHANGED <<sends, outcome>>
       ELSE /\ pc' = "await"
            /\ sends' = [r \in AllRows |-> sends[r] + IF r \in Batch(at) THEN 1 ELSE 0]
            /\ UNCHANGED outcome

(* The head of the loop: the next batch is sent with the method of whatever *)
(* client the module holds now, or the loop is over.                        *)
SendOrReturn(at) ==
    /\ offset' = at
    /\ IF at >= rows THEN Finish("returned")
       ELSE IF client = "none" THEN Finish("not_initialized")
       ELSE /\ pc' = "await"
            /\ sends' = [r \in AllRows |-> sends[r] + IF r \in Batch(at) THEN 1 ELSE 0]
            /\ UNCHANGED outcome

Write == /\ pc = "idle"
         /\ SendOrReturn(0)
         /\ UNCHANGED <<rows, size, wrote, total, client>>

(* A well formed answer: the count of the rows written. *)
Confirmed == /\ pc = "await"
             /\ \E done \in SUBSET Batch(offset) :
                   /\ wrote' = wrote \cup done
                   /\ total' = total + Cardinality(done)
             /\ SendOrReturn(offset + size)
             /\ UNCHANGED <<rows, size, client>>

(* No mapping, or no count in it. *)
InvalidResponse == /\ pc = "await"
                   /\ \E done \in SUBSET Batch(offset) : wrote' = wrote \cup done
                   /\ Finish("invalid_response")
                   /\ UNCHANGED <<rows, size, offset, total, client>>

(* Regression: a batch that raises is skipped. *)
SdkErrorSkipped == /\ pc = "await"
                   /\ \E done \in SUBSET Batch(offset) : wrote' = wrote \cup done
                   /\ SendOrReturn(offset + size)
                   /\ UNCHANGED <<rows, size, total, client>>

(* Regression: _call lets the SDK's own exceptions through. *)
SdkErrorUnconverted == /\ pc = "await"
                       /\ \E done \in SUBSET Batch(offset) : wrote' = wrote \cup done
                       /\ Finish("sdk_exception")
                       /\ UNCHANGED <<rows, size, offset, total, client>>

(* _call: any exception of the SDK, a closed client included. *)
SdkError == /\ pc = "await"
            /\ \E done \in SUBSET Batch(offset) : wrote' = wrote \cup done
            /\ Finish("operation_failed")
            /\ UNCHANGED <<rows, size, offset, total, client>>

(* close_milvus awaits client.close() and clears the global in its finally. *)
CloseBegin == client = "open" /\ client' = "closing" /\ UNCHANGED write
CloseEnd   == client = "closing" /\ client' = "none" /\ UNCHANGED write

Answered == Confirmed \/ InvalidResponse \/ SdkError

Next == Write \/ Answered \/ CloseBegin \/ CloseEnd

Spec == Init /\ [][Next]_vars

(***************************************************************************)
(* Safety.                                                                 *)
(***************************************************************************)
(* The rows put on the wire are a prefix, each exactly once: no batch       *)
(* overlaps its neighbour, none is left out, and nothing is sent after the  *)
(* batch that failed, wherever the write stopped.                           *)
BatchWasSent == pc = "await" \/ outcome \in {"operation_failed", "invalid_response"}
SentUpTo     == IF BatchWasSent THEN offset + size ELSE offset

SentPrefixOnce ==
    \A r \in AllRows : sends[r] = IF r <= rows /\ r <= SentUpTo THEN 1 ELSE 0

(* insert() and upsert() return what Milvus confirmed: the number of rows   *)
(* it wrote, so a caller that sees len(rows) knows every row is there.      *)
ReturnIsConfirmed ==
    outcome = "returned" => /\ total = Cardinality(wrote)
                            /\ total = rows => wrote = 1..rows

(* Every write ends. *)
WriteEnds == pc = "await" ~> pc = "done"
=============================================================================
