--------------------------- MODULE ResourceScope ---------------------------
(***************************************************************************)
(* What a lifespan context manager promises about the handles it opens     *)
(* (connection pools, SDK clients): whatever happens between entering and  *)
(* leaving the scope, no handle is still open after the exit unless the    *)
(* scope has an excuse for it - closing it raised, or it was given up      *)
(* while the scope degraded to run without it.                             *)
(*                                                                         *)
(* Nothing is said here about when handles are opened, in which order they *)
(* are closed, or how often the scope is entered; module Lifespan says it. *)
(***************************************************************************)
CONSTANT Resource

VARIABLES active,    \* the scope is entered
          held,      \* handles that are open
          excused    \* handles the scope may leave open

vars == <<active, held, excused>>

TypeOK == /\ active \in BOOLEAN
          /\ held \subseteq Resource
          /\ excused \subseteq Resource

Init == /\ active = FALSE
        /\ held = {}
        /\ excused = {}

(* A new scope starts with no excuse; it may still reach handles an earlier *)
(* one left open, never more than those.                                    *)
Enter == /\ ~ active
         /\ active' = TRUE
         /\ held' \in SUBSET held
         /\ excused' = {}

Use == /\ active
       /\ UNCHANGED active
       /\ held' \in SUBSET Resource
       /\ excused' \in {e \in SUBSET Resource : excused \subseteq e}

Exit == /\ active
        /\ held \subseteq excused
        /\ active' = FALSE
        /\ UNCHANGED <<held, excused>>

Next == Enter \/ Use \/ Exit

Spec == Init /\ [][Next]_vars

(* A handle open outside the scope is an excused one: server.lifespan       *)
(* leaves nothing open behind its finally block without saying so.          *)
NothingHeldOutside == ~ active => held \subseteq excused
=============================================================================
