-------------------------- MODULE VectorRepository --------------------------
(***************************************************************************)
(* A batched write beside another call of the repository                   *)
(* (app/repositories/vector.py), in two coroutines of one event loop. The  *)
(* other call is one SDK call: delete, drop, search, query or one whose    *)
(* answer is passed on. It looks the client up like the write does, so     *)
(* close_milvus() may take it away before or under the call.               *)
(*                                                                         *)
(* Milvus is external. It carries a batch and a delete out as a whole when *)
(* it confirms them: a batch when the write sees the answer, a delete at   *)
(* any time before its answer. One that raises or is answered with         *)
(* something malformed may have been carried out in part.                  *)
(***************************************************************************)
EXTENDS VectorWrite

VARIABLES collection,   \* rows of the write that are in the collection
          op,           \* the other call's operation, "none" before it
          target,       \* rows a delete or a drop selects
          stage,        \* where the other call is
          ending        \* how it ended

other    == <<op, target, stage, ending>>
repoVars == <<vars, collection, other>>

PassedOn   == {"has_collection", "load_collection", "release_collection", "get"}
Removals   == {"delete", "drop_collection"}
Operations == PassedOn \cup Removals \cup {"create_collection", "query", "search"}

RepositoryTypeOK == /\ TypeOK
                    /\ collection \subseteq AllRows
                    /\ op \in Operations \cup {"none"}
                    /\ target \subseteq AllRows
                    /\ stage \in {"idle", "asking", "removed", "done"}
                    /\ ending \in Outcomes

RepositoryInit == /\ Init
                  /\ collection = {}
                  /\ op = "none"
                  /\ target = {}
                  /\ stage = "idle"
                  /\ ending = "none"

Done(how) == stage' = "done" /\ ending' = how

(* _client_method: the SDK method of the client the module holds now. *)
Ask(o, rowset) == /\ op' = o
                  /\ target' = rowset
                  /\ IF client = "none" THEN Done("not_initialized")
                     ELSE stage' = "asking" /\ UNCHANGED ending

(* An argument is refused before the client is looked up. *)
Refuse(o) == op' = o /\ Done("operation_failed") /\ UNCHANGED target

(* delete: ids, {} for None and for an empty list, or a filter, {} for None *)
(* and for a blank one, else the rows it selects. Exactly one of them.      *)
Delete(ids, filter) ==
    IF (ids # {}) = (filter # {}) THEN Refuse("delete")
    ELSE Ask("delete", IF ids # {} THEN ids ELSE UNION filter)

(* query: a limit is optional but positive. *)
Query(limit) == IF \E n \in limit : n = 0 THEN Refuse("query") ELSE Ask("query", {})

(* search: without vectors there is nothing to ask, whatever the limit. *)
Search(vectors, limit) ==
    IF vectors = 0 THEN op' = "search" /\ Done("returned") /\ UNCHANGED target
    ELSE IF limit = 0 THEN Refuse("search")
    ELSE Ask("search", {})

CreateCollection(dimension) ==
    IF dimension = 0 THEN Refuse("create_collection") ELSE Ask("create_collection", {})

Filters == {{}} \cup {{S} : S \in SUBSET AllRows}

Call == /\ stage = "idle"
        /\ \/ \E ids \in SUBSET AllRows, filter \in Filters : Delete(ids, filter)
           \/ \E limit \in {{}, {0}, {1}} : Query(limit)
           \/ \E vectors, limit \in {0, 1} : Search(vectors, limit)
           \/ \E dimension \in {0, 1} : CreateCollection(dimension)
           \/ Ask("drop_collection", AllRows)
           \/ \E o \in PassedOn : Ask(o, {})
        /\ UNCHANGED <<vars, collection>>

(* Milvus carries a delete or a drop out. *)
Remove == /\ stage = "asking"
          /\ op \in Removals
          /\ stage' = "removed"
          /\ collection' = collection \ target
          /\ UNCHANGED <<vars, op, target, ending>>

(* A count, the normalised hits, or the SDK's answer as it is. *)
Returned == /\ stage = IF op \in Removals THEN "removed" ELSE "asking"
            /\ Done("returned")
            /\ UNCHANGED <<vars, collection, op, target>>

(* Milvus may have removed a part before it went wrong. *)
Fails(how) == /\ \/ stage = "asking" /\ \E part \in SUBSET target :
                                            collection' = collection \ part
                 \/ stage = "removed" /\ UNCHANGED collection
              /\ Done(how)
              /\ UNCHANGED <<vars, op, target>>

(* delete without a valid count; a search whose response, groups, hits, ids, *)
(* distances or entities are not what they should be: no hit is returned.   *)
Malformed == op \in {"delete", "search"} /\ Fails("invalid_response")

(* _call: any exception of the SDK. *)
Raised == Fails("operation_failed")

OtherAnswered == Returned \/ Malformed \/ Raised

(* What the write has sent and Milvus has written is in the collection. *)
WriteStep == /\ Write \/ Answered
             /\ collection' = collection \cup (wrote' \ wrote)
             /\ UNCHANGED other

CloseStep == (CloseBegin \/ CloseEnd) /\ UNCHANGED <<collection, other>>

RepositoryNext == WriteStep \/ CloseStep \/ Call \/ Remove \/ OtherAnswered

RepositorySpec == RepositoryInit /\ [][RepositoryNext]_repoVars

(* The SDK answers both calls or times out (MilvusSettings.timeout). *)
FairRepositorySpec == /\ RepositorySpec
                      /\ WF_repoVars(WriteStep /\ pc = "await")
                      /\ WF_repoVars(OtherAnswered)

(***************************************************************************)
(* Safety.                                                                 *)
(***************************************************************************)
Untorn == ending \notin {"operation_failed", "invalid_response"}

(* What a returned count vouches for: it is the number of rows written, so  *)
(* a caller that sees len(rows) knows that every row was. A delete or drop  *)
(* beside the write comes between two batches: of each batch it took all    *)
(* rows it selects or none. Rows it does not select are all there.          *)
CountVouches ==
    outcome = "returned" =>
        /\ ReturnIsConfirmed
        /\ Untorn => \A k \in 0..MaxRows :
                         \/ Batch(k * size) \cap target \cap collection = {}
                         \/ wrote \cap Batch(k * size) \subseteq collection
        /\ wrote \ target \subseteq collection

(* Every call of the repository ends. *)
CallsEnd == /\ WriteEnds
            /\ stage \in {"asking", "removed"} ~> stage = "done"
=============================================================================
