--------------------------- MODULE MCHttpRequest ---------------------------
(* HttpRequest for TLC: a GET and a POST run concurrently, with the shipped *)
(* budget of three retries, while close_client() may close the AsyncClient  *)
(* they share and a second one may be built after it.                       *)
EXTENDS HttpRequest
=============================================================================
