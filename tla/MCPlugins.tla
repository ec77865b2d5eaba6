----------------------------- MODULE MCPlugins -----------------------------
(* Plugins for TLC: two libraries that register a builder under the same     *)
(* key, as the tests' plugin1 and plugin11 do, and no factory.  The second   *)
(* of them is never unmapped.                                                *)
EXTENDS Plugins

CONSTANTS a, b, plugin1, plugin11, message, none

TwoNames == {a, b}
TwoLibraries == {plugin1, plugin11}
OneKey == {message}
SameKey == [p \in TwoLibraries |-> message]
OneKept == {plugin11}
NoLibrary == {}
=============================================================================
