---------------------------- MODULE HttpSession ----------------------------
(***************************************************************************)
(* The HTTP side of a connection: HttpSession (http_parser.cpp) putting     *)
(* requests together from llhttp's callbacks.                              *)
(*                                                                         *)
(* The client's bytes come in reads that end anywhere, and llhttp calls     *)
(* back with what a read holds of the thing it is parsing: a method, a URL, *)
(* a version or a body comes whole or in pieces.  A body is one run of      *)
(* bytes, or several when it is chunked; llhttp's content_length is what is *)
(* left of the current run.                                                *)
(***************************************************************************)
EXTENDS Naturals, Sequences

CONSTANTS
    FieldLength,  \* the bytes of a method, a URL or a version
    Shape,        \* the bodies clients send: the lengths of their runs
    MaxMessages   \* bound: requests on the connection

ASSUME FieldHasBytes == FieldLength \in Nat \ {0}
ASSUME ShapesAreRuns == Shape \subseteq Seq(Nat \ {0})
ASSUME BoundIsNat == MaxMessages \in Nat

VARIABLES
    place,     \* what llhttp is parsing
    n,         \* which of the client's messages
    pos,       \* the bytes parsed of the field or the body
    runs,      \* the lengths of what is left of the body
    total,     \* the length of the body parsed so far
    head,      \* request_'s head
    body,      \* request_'s body: the text it was parsed from
    content,   \* content_
    split,     \* history: the fields of the message that came in pieces
    collided,  \* history: a piece was as long as what content_ held
    handed,    \* history: the requests handed to the handler
    alive      \* FALSE once an exception has left the parser

request == <<head, body>>
history == <<split, collided, handed>>
vars == <<place, n, pos, runs, total, request, content, history, alive>>

Field == {"method", "url", "version"}

\* A byte: the message it is of and its place there.
Byte == (1..MaxMessages) \X Nat

Request == [n : 1..MaxMessages, head : [Field -> Seq(Byte)], body : Seq(Byte),
            total : Nat, split : SUBSET Field, collided : BOOLEAN]

TypeOK ==
    /\ place \in Field \cup {"start", "headers", "body", "chunk", "complete"}
    /\ n \in 0..MaxMessages
    /\ pos \in Nat
    /\ runs \in Seq(Nat \ {0})
    /\ total \in Nat
    /\ head \in [Field -> Seq(Byte)]
    /\ body \in Seq(Byte)
    /\ content \in Seq(Byte)
    /\ split \in SUBSET Field
    /\ collided \in BOOLEAN
    /\ handed \in Seq(Request)
    /\ alive \in BOOLEAN

Bytes(from, length) == [i \in 1..length |-> <<n, from + i>>]
NoField == [f \in Field |-> <<>>]

Init ==
    /\ place = "start"
    /\ n = 0
    /\ pos = 0
    /\ runs = <<>>
    /\ total = 0
    /\ head = NoField
    /\ body = <<>>
    /\ content = <<>>
    /\ split = {}
    /\ collided = FALSE
    /\ handed = <<>>
    /\ alive = TRUE

At(p) == alive /\ place = p

-----------------------------------------------------------------------------

\* handle_on_message_begin: a new request.
Begin ==
    /\ At("start") /\ n < MaxMessages
    /\ n' = n + 1
    /\ place' = "method"
    /\ pos' = 0 /\ total' = 0
    /\ head' = NoField /\ body' = <<>>
    /\ split' = {} /\ collided' = FALSE
    /\ UNCHANGED <<runs, content, handed, alive>>

After(f) == CASE f = "method" -> "url" [] f = "url" -> "version" [] f = "version" -> "headers"

\* handle_on_method, handle_on_url, handle_on_version: the piece becomes the
\* field's value, in place of an earlier piece.
OnField(f) ==
    /\ At(f)
    /\ \E k \in 1..(FieldLength - pos) :
          /\ head' = [head EXCEPT ![f] = Bytes(pos, k)]
          /\ IF pos + k = FieldLength
             THEN place' = After(f) /\ pos' = 0 /\ UNCHANGED split
             ELSE pos' = pos + k /\ split' = split \cup {f} /\ UNCHANGED place
    /\ UNCHANGED <<n, runs, total, body, content, collided, handed, alive>>

\* A variant with a bug: content_ is not cleared.
HeadersCompleteKeeping ==
    /\ At("headers")
    /\ runs' \in Shape
    /\ place' = IF runs' = <<>> THEN "complete" ELSE "body"
    /\ pos' = 0
    /\ UNCHANGED <<n, total, request, content, history, alive>>

\* handle_on_headers_complete, and the body that follows.
HeadersComplete ==
    /\ At("headers")
    /\ runs' \in Shape
    /\ place' = IF runs' = <<>> THEN "complete" ELSE "body"
    /\ pos' = 0
    /\ content' = <<>>
    /\ UNCHANGED <<n, total, request, history, alive>>

\* A variant with a bug: the piece has no terminator, and is read past its end.
FromStringPastEnd(text) == body' = Append(text, <<0, 0>>) /\ UNCHANGED alive

\* from_string: the text is the body, or it is no JSON and an exception leaves
\* the parser, the handler and the coroutine.
FromString(text) ==
    \/ body' = text /\ UNCHANGED alive
    \/ alive' = FALSE /\ UNCHANGED body

\* What llhttp does with k bytes of the current run.
Consume(k) ==
    LET rest == IF Head(runs) = k THEN Tail(runs)
                ELSE <<Head(runs) - k>> \o Tail(runs) IN
    /\ runs' = rest
    /\ pos' = pos + k
    /\ total' = total + k
    /\ place' = CASE rest = <<>> -> "complete"
                  [] rest # <<>> /\ Len(rest) < Len(runs) -> "chunk"
                  [] OTHER -> "body"

\* A variant with a bug: only the piece that ends a run is parsed.
OnBodyLast ==
    /\ At("body") \/ At("chunk")
    /\ \E k \in 1..Head(runs) :
          /\ Consume(k)
          /\ content' = content \o Bytes(pos, k)
          /\ IF k = Head(runs) THEN FromString(Bytes(pos, k)) ELSE UNCHANGED <<body, alive>>
    /\ UNCHANGED <<n, head, split, collided, handed>>

\* handle_on_body: a piece as long as what is cached is parsed by itself and not
\* cached; another one is cached, and what is cached parsed when its run ends.
OnBody ==
    /\ At("body") \/ At("chunk")
    /\ \E k \in 1..Head(runs) :
          LET piece == Bytes(pos, k) IN
          /\ Consume(k)
          /\ IF Len(content) = k
             THEN /\ collided' = TRUE
                  /\ FromString(piece)
                  /\ UNCHANGED content
             ELSE /\ content' = content \o piece
                  /\ IF k = Head(runs)
                     THEN FromString(content')
                     ELSE UNCHANGED <<body, alive>>
                  /\ UNCHANGED collided
    /\ UNCHANGED <<n, head, split, handed>>

\* handle_on_message_complete: the request goes to the handler.
MessageComplete ==
    /\ At("complete")
    /\ handed' = Append(handed, [n |-> n, head |-> head, body |-> body, total |-> total,
                                 split |-> split, collided |-> collided])
    /\ place' = "start"
    /\ UNCHANGED <<n, pos, runs, total, request, content, split, collided, alive>>

\* on_recv: what is no HTTP makes llhttp fail, in the midst of a head or between
\* two chunks.  The parser is reset; request_ and content_ keep what they hold.
ParseError ==
    /\ alive /\ place \in Field \cup {"headers", "chunk"}
    /\ place' = "start"
    /\ UNCHANGED <<n, pos, runs, total, request, content, history, alive>>

Next ==
    \/ Begin
    \/ \E f \in Field : OnField(f)
    \/ HeadersComplete
    \/ OnBody
    \/ MessageComplete
    \/ ParseError

Spec == Init /\ [][Next]_vars

-----------------------------------------------------------------------------
(* Properties.                                                              *)

Text(m, length) == [i \in 1..length |-> <<m, i>>]

\* However a message was cut, its body is handed over whole, unless a piece of it
\* was as long as all that was cached before it, and so is each field of its head
\* that was not cut itself.
WholeUnlessCut ==
    \A i \in DOMAIN handed :
        /\ ~handed[i].collided => handed[i].body = Text(handed[i].n, handed[i].total)
        /\ \A f \in Field \ handed[i].split :
              handed[i].head[f] = Text(handed[i].n, FieldLength)

\* Nothing of an earlier message, not even of one that failed half-way, gets
\* into a later request: whatever happened, its text is of its own message.
NothingForeign ==
    \A i \in DOMAIN handed :
        /\ \A j \in DOMAIN handed[i].body : handed[i].body[j][1] = handed[i].n
        /\ \A f \in Field : \A j \in DOMAIN handed[i].head[f] :
              handed[i].head[f][j][1] = handed[i].n

\* What the comment in handle_on_body says: the pieces of a body that comes in
\* several are cached, so that the body is handed over whole.
BodyIsWhole ==
    \A i \in DOMAIN handed :
        handed[i].body = Text(handed[i].n, handed[i].total)
=============================================================================
