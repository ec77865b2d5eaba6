--------------------------- MODULE MCHttpMonitor ----------------------------
(* HttpMonitor for TLC: fix_client, which registers a builder and a factory; *)
(* plugin11, as the tests' one a builder only, under the key of another's,   *)
(* and here one that is never unmapped; and http_server, which registers the *)
(* monitor's own key.  The two of the project need arguments.                *)
EXTENDS HttpMonitor

CONSTANTS a, b, fix_client, plugin11, http_server, fix, http, none

TwoNames == {a, b}
ThreeLibraries == {fix_client, plugin11, http_server}
TwoKeys == {fix, http}
Keys == [p \in ThreeLibraries |-> IF p = http_server THEN http ELSE fix]
Builders == {fix_client, plugin11}
Factories == {fix_client, http_server}
OneKept == {plugin11}
TwoBare == {fix_client, http_server}
=============================================================================
