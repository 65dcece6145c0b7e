----------------------------- MODULE Embedding -----------------------------
(***************************************************************************)
(* The pure parts of app/core/llm/embedding.py and multimodal.py: what is  *)
(* refused before a vendor is asked, and parse_vectors(), which puts the   *)
(* vectors of an answer back into the order of the texts.                  *)
(*                                                                         *)
(* A vendor's answer is a sequence of items [index, vector]. Which values  *)
(* a vector has does not matter here, only whether it is a non-empty list  *)
(* of numbers: anything else is NotNumeric.                                *)
(***************************************************************************)
EXTENDS Integers, Sequences, FiniteSets

CONSTANTS MAX_EMBEDDING_BATCH_SIZE,
          MAX_IMAGES_PER_REQUEST,
          NotNumeric                 \* a vector parse_vectors() refuses

ASSUME EmbeddingAssumption == /\ MAX_EMBEDDING_BATCH_SIZE \in Nat \ {0}
                              /\ MAX_IMAGES_PER_REQUEST \in Nat \ {0}

(***************************************************************************)
(* Validation of the input, before any lookup. An operator names the errno *)
(* the caller gets, "none" to go on, "crash" for an exception that is not  *)
(* a BizException. blank: a text or prompt is empty or white space.        *)
(***************************************************************************)
TextsErrno(n, blank, dimensions) ==
    IF n \in 1..MAX_EMBEDDING_BATCH_SIZE /\ ~ blank /\ dimensions # "nonpositive"
    THEN "none" ELSE "LLM_INVALID_INPUT"

(* A data url: base64 tells whether it decodes, size its decoded size in    *)
(* units of the limit, rounded up, magic whether its first bytes are those  *)
(* of its MIME type, animated whether it is a GIF with an application       *)
(* extension or with more than one byte 0x2C.                               *)
ValidImage(image) ==
    \/ image.form = "https"
    \/ /\ image.form = "data"
       /\ image.base64
       /\ image.size = 1
       /\ image.magic
       /\ ~ image.animated

(* urlsplit() raises a ValueError of its own for some malformed hosts.      *)
ImageErrno(image) == IF ValidImage(image) THEN "none"
                     ELSE IF image.form = "unsplittable" THEN "crash"
                     ELSE "LLM_INVALID_INPUT"

(* The images are looked at in their order: the first bad one decides.      *)
ImagesErrno(images) ==
    LET bad == {i \in DOMAIN images : ~ ValidImage(images[i])}
    IN  IF bad = {} THEN "none"
        ELSE ImageErrno(images[CHOOSE i \in bad : \A j \in bad : i <= j])

MultimodalErrno(blank, images, max_tokens) ==
    IF blank \/ Len(images) \notin 1..MAX_IMAGES_PER_REQUEST \/ max_tokens = "nonpositive"
    THEN "LLM_INVALID_INPUT"
    ELSE ImagesErrno(images)

(***************************************************************************)
(* parse_vectors(data, expected_count)                                     *)
(***************************************************************************)
(* The dict indexed, of vectors by index, and whether all items so far      *)
(* passed: before the first one, and once one was refused.                  *)
NoVectors == [k \in {} |-> NotNumeric]
Start     == [passed |-> TRUE, indexed |-> NoVectors]
Raised    == [passed |-> FALSE, indexed |-> NoVectors]

Passes(item, indexed, n) == /\ item.index \in 0..(n - 1)
                            /\ item.index \notin DOMAIN indexed
                            /\ item.vector # NotNumeric

(* indexed[index] = vector                                                  *)
Put(indexed, item) == [k \in DOMAIN indexed \cup {item.index} |->
                         IF k = item.index THEN item.vector ELSE indexed[k]]

(* One turn of the loop.                                                    *)
Take(loop, item, n) ==
    IF loop.passed /\ Passes(item, loop.indexed, n)
    THEN [passed |-> TRUE, indexed |-> Put(loop.indexed, item)]
    ELSE Raised

(* What the loop is left with.                                              *)
Loop(data, n) ==
    LET after[i \in 0..Len(data)] ==
            IF i = 0 THEN Start ELSE Take(after[i - 1], data[i], n)
    IN  after[Len(data)]

(* The length is tested before the loop, set(indexed) after it.             *)
Accepted(data, n) == /\ Len(data) = n
                     /\ Loop(data, n).passed
                     /\ DOMAIN Loop(data, n).indexed = 0..(n - 1)

(* Regression: the vectors in the order the vendor sent them.               *)
VectorsAsSent(data, n) == [k \in 1..n |-> data[k].vector]

(* [indexed[index] for index in range(expected_count)], from 1 here         *)
ParseVectors(data, n) == [k \in 1..n |-> Loop(data, n).indexed[k - 1]]
=============================================================================
