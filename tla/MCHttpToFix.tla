---------------------------- MODULE MCHttpToFix ----------------------------
(* HttpToFix for TLC: a string, a quantity, a number and a boolean field, and *)
(* a name that is no field's; two sessions and one that there is none of.     *)
EXTENDS HttpToFix, TLC

CONSTANTS comp, msgType, seqNum, qty, flag, foreign,
          one, half, s1, s2, s3, order, report, none

Names == {comp, msgType, seqNum, qty, flag}
InTagOrder == <<comp, seqNum, msgType, qty, flag>>
Types == [name \in Names |->
            CASE name \in {comp, msgType} -> "String"
              [] name = seqNum -> "Int"
              [] name = qty -> "Qty"
              [] name = flag -> "Boolean"]
Numbers == {one}
Fractions == {half}
Words == {s1, s2, s3, order, report}
TwoSessions == {s1, s2}
NoFieldNames == {foreign}

M(name, kind, text) == [name |-> name, value |-> [kind |-> kind, text |-> text]]
D == M(msgType, "string", order)

\* Heads in every order, with a session or not, one there is none of, one given
\* twice, one that is no string; and bodies of every kind of member.
JsonHeadObjects == {
    <<M(comp, "string", s1), D>>,
    <<D, M(comp, "string", s2), M(seqNum, "int", one)>>,
    <<M(comp, "string", s1), M(comp, "string", s2), D>>,
    <<M(comp, "string", s1), M(comp, "other", none), M(msgType, "string", s3)>>,
    <<M(comp, "string", s3), D>>,
    <<D>>,
    <<M(comp, "string", s2)>>}
JsonBodyObjects == {
    <<>>,
    <<M(qty, "int", one), M(flag, "string", s3), M(qty, "double", half)>>,
    <<M(foreign, "int", one), M(qty, "string", s3), M(seqNum, "double", one)>>}

Heads == {
    (comp :> s1) @@ (msgType :> report),
    (comp :> s2) @@ (msgType :> report) @@ (seqNum :> one),
    (comp :> s1) @@ (msgType :> s3)}
Bodies == {
    <<>>,
    (qty :> half) @@ (flag :> s3),
    (qty :> one) @@ (seqNum :> one)}
=============================================================================
