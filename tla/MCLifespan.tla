----------------------------- MODULE MCLifespan -----------------------------
(* Lifespan for TLC: two providers, so that some but not all of them can be *)
(* built or closed, and three lifespans of one process, so that a client    *)
(* that survived a cleanup meets an init function and a second cleanup.     *)
EXTENDS Lifespan
=============================================================================
