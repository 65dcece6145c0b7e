----------------------------- MODULE ServerCall -----------------------------
(***************************************************************************)
(* What a client of another process promises to its callers, whatever is   *)
(* lost or late on the way: a call asks its server no more often than it   *)
(* may, only while its caller waits, and the outcome it reports tells      *)
(* the truth about the server. A caller that was refused may repeat its    *)
(* call without risk, one that got an answer need not; any other failure   *)
(* leaves open whether the server did it, but not how often.               *)
(*                                                                         *)
(* Nothing is said here about connections, slots, waits or status codes;   *)
(* modules HttpRequest and McpClient say it. A step is what happens        *)
(* between two awaits of a call, so one step may begin a call and ask, or  *)
(* hear from the server and end.                                           *)
(***************************************************************************)
EXTENDS Naturals

CONSTANTS Calls,
          Limit       \* [Calls -> Nat]: how often each call may ask

VARIABLES running,   \* calls whose caller waits
          asked,     \* times each call set out to ask the server
          served,    \* times the server did what it was asked
          told       \* what the caller was told

vars == <<running, asked, served, told>>

(* What the caller was told is true of the server.                          *)
Truthful(c) == /\ told[c] = "refused"  => asked[c] = 0
               /\ told[c] = "answered" => served[c] > 0

Outcomes == {"refused", "answered", "unknown"}

Init == /\ running = {}
        /\ asked = [c \in Calls |-> 0]
        /\ served = [c \in Calls |-> 0]
        /\ told = [c \in Calls |-> "nothing"]

(* The step leaves the caller waiting, or tells it something true.          *)
Continues(c) == /\ running' = running \cup {c}
                /\ told' = [told EXCEPT ![c] = "nothing"]

Ends(c) == /\ running' = running \ {c}
           /\ \E what \in Outcomes : told' = [told EXCEPT ![c] = what]
           /\ Truthful(c)'

(* Every call starts from nothing; its first step may ask already.          *)
Begin(c) == /\ c \notin running
            /\ \E n \in {0, 1} : /\ n <= Limit[c]
                                 /\ asked' = [asked EXCEPT ![c] = n]
            /\ served' = [served EXCEPT ![c] = 0]
            /\ Continues(c) \/ Ends(c)

Ask(c) == /\ c \in running
          /\ asked[c] < Limit[c]
          /\ asked' = [asked EXCEPT ![c] = @ + 1]
          /\ Continues(c)
          /\ UNCHANGED served

Serves(c) == /\ served[c] < asked[c]
             /\ served' = [served EXCEPT ![c] = @ + 1]

(* An answer, an error, a timeout or a cancellation.                        *)
Hear(c) == /\ c \in running
           /\ Serves(c) \/ UNCHANGED served
           /\ Continues(c) \/ Ends(c)
           /\ UNCHANGED asked

(* The server does not know whether anybody still waits.                    *)
ServeUnheard(c) == Serves(c) /\ UNCHANGED <<running, asked, told>>

Next == \E c \in Calls : Begin(c) \/ Ask(c) \/ Hear(c) \/ ServeUnheard(c)

Spec == Init /\ [][Next]_vars

(* What follows for a caller, also after its call has ended.                *)
Accountable == \A c \in Calls : /\ served[c] <= asked[c]
                               /\ asked[c] <= Limit[c]
                               /\ Truthful(c)
=============================================================================
