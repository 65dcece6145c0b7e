---------------------------- MODULE MCReadiness ----------------------------
(* Readiness for TLC: two calls and a pool of one connection, so that they  *)
(* compete for it with each other and with a request, from every set of     *)
(* dependencies that are up, one of which goes down or comes back.          *)
EXTENDS Readiness
=============================================================================
