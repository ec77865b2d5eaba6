---------------------------- MODULE MCFixBuilder ----------------------------
(* Instances of FixBuilder for TLC.                                         *)
EXTENDS FixBuilder

CONSTANTS c1, c2, s1, s2

OneCoroutine == {c1}
TwoCoroutines == {c1, c2}
OneSession == {s1}
TwoSessions == {s1, s2}

\* The requests create is written for, and what may come back for them.
OrdersOnly == {NewOrderSingle}
OrdersAndUntyped == {NewOrderSingle, None}
ReportsOnly == {ExecutionReport}
AnyResponse == {ExecutionReport, Other}
=============================================================================
