--------------------------- MODULE MCHttpServer ---------------------------
(* HttpServer for TLC: the server's listener and one connection, or two.    *)
EXTENDS HttpServer

CONSTANTS c1, c2, none

TwoCoroutines == {c1, c2}
=============================================================================
