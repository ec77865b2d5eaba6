---------------------------- MODULE MCLifecycle ----------------------------
(* Lifecycle for TLC: two connections.                                      *)
EXTENDS Lifecycle

CONSTANTS c1, c2, none

TwoCoroutines == {c1, c2}
=============================================================================
