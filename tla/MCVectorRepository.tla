------------------------- MODULE MCVectorRepository -------------------------
(* VectorRepository for TLC: every write of up to four rows in batches of   *)
(* up to three, so that the last batch is full, short or the only one,      *)
(* beside a call of each operation with every choice of rows to remove.     *)
EXTENDS VectorRepository
=============================================================================
