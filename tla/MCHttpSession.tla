--------------------------- MODULE MCHttpSession ---------------------------
(* HttpSession for TLC: messages without a body, with a body of four bytes   *)
(* in one run, and with one of four bytes in two chunks.                     *)
EXTENDS HttpSession

Shapes == {<<>>, <<4>>, <<1, 3>>}
=============================================================================
