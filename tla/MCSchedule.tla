----------------------------- MODULE MCSchedule -----------------------------
(* Instances of Schedule for TLC.                                           *)
EXTENDS Schedule

CONSTANTS c1, c2

TwoCoroutines == {c1, c2}
=============================================================================
