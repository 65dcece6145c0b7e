--------------------------- MODULE MCUserRequest ---------------------------
(* UserRequest for TLC: two requests and a pool of one connection, so that  *)
(* one of them waits or times out, over a table of up to two users with     *)
(* pages of one, which another process writes while a page is counted.      *)
EXTENDS UserRequest
=============================================================================
