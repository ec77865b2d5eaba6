------------------------- MODULE HttpSessionProofs -------------------------
(***************************************************************************)
(* Proofs about HttpSession, for any length of fields, any bodies and any   *)
(* number of requests, however the client's bytes are cut.                  *)
(***************************************************************************)
EXTENDS HttpSession, SequenceTheorems, TLAPS

-----------------------------------------------------------------------------
(* Texts.                                                                   *)

\* Every byte of the text is of message m.
Of(text, m) == \A i \in DOMAIN text : text[i][1] = m

\* A piece of the current message is a text of it.
LEMMA PieceTyped ==
    ASSUME n \in 1..MaxMessages, NEW from \in Nat, NEW k \in Nat
    PROVE  /\ Bytes(from, k) \in Seq(Byte)
           /\ Len(Bytes(from, k)) = k
           /\ Of(Bytes(from, k), n)
<1>1. \A i \in 1..k : <<n, from + i>> \in Byte
  BY DEF Byte
<1> QED
  BY <1>1 DEF Bytes, Of

\* The first piece of a text is its beginning, and the next ones continue it.
LEMMA TextStarts ==
    ASSUME NEW k \in Nat
    PROVE  Bytes(0, k) = Text(n, k)
BY DEF Bytes, Text

\* The bytes of the current message.
MessageByte == {<<n, i>> : i \in Nat}

LEMMA TextGoesOn ==
    ASSUME NEW t \in Nat, NEW k \in Nat
    PROVE  Text(n, t) \o Bytes(t, k) = Text(n, t + k)
<1> DEFINE a == Text(n, t)
           b == Bytes(t, k)
           both == Text(n, t + k)
<1>1. /\ a \in Seq(MessageByte) /\ Len(a) = t
      /\ \A i \in 1..t : a[i] = <<n, i>>
  BY DEF Text, MessageByte
<1>2. /\ b \in Seq(MessageByte) /\ Len(b) = k
      /\ \A i \in 1..k : b[i] = <<n, t + i>>
  BY DEF Bytes, MessageByte
<1>3. /\ both \in Seq(MessageByte) /\ Len(both) = t + k
      /\ \A i \in 1..(t + k) : both[i] = <<n, i>>
  BY DEF Text, MessageByte
<1> HIDE DEF a, b, both
<1>4. /\ a \o b \in Seq(MessageByte)
      /\ Len(a \o b) = Len(a) + Len(b)
      /\ \A i \in 1..(Len(a) + Len(b)) :
            (a \o b)[i] = IF i <= Len(a) THEN a[i] ELSE b[i - Len(a)]
  <2>1. a \in Seq(MessageByte) /\ b \in Seq(MessageByte)
    BY <1>1, <1>2
  <2> QED
    BY <2>1, ConcatProperties, Zenon
<1>5. Len(a \o b) = t + k
  BY <1>1, <1>2, <1>4
<1>6. ASSUME NEW i \in 1..(t + k) PROVE (a \o b)[i] = both[i]
  <2>1. Len(a) = t /\ Len(b) = k
    BY <1>1, <1>2
  <2>2. i \in 1..(Len(a) + Len(b))
    BY <2>1
  <2>3. CASE i <= t
    <3>1. i <= Len(a)
      BY <2>1, <2>3
    <3>2. (a \o b)[i] = a[i]
      BY <1>4, <2>2, <3>1, Zenon
    <3>3. i \in 1..t
      BY <2>3
    <3> QED
      BY <1>1, <1>3, <3>2, <3>3, Zenon
  <2>4. CASE ~(i <= t)
    <3>1. ~(i <= Len(a))
      BY <2>1, <2>4
    <3>2. (a \o b)[i] = b[i - Len(a)]
      BY <1>4, <2>2, <3>1, Zenon
    <3>3. i - Len(a) \in 1..k /\ t + (i - Len(a)) = i
      BY <2>1, <2>4
    <3> QED
      BY <1>2, <1>3, <3>2, <3>3
  <2> QED
    BY <2>3, <2>4
<1>7. a \o b = both
  <2>1. /\ a \o b \in Seq(MessageByte) /\ both \in Seq(MessageByte)
        /\ Len(a \o b) = Len(both)
        /\ \A i \in 1..Len(a \o b) : (a \o b)[i] = both[i]
    BY <1>3, <1>4, <1>5, <1>6
  <2> QED
    BY <2>1, SeqEqual, Zenon
<1> QED
  BY <1>7 DEF a, b, both

-----------------------------------------------------------------------------
(* The inductive invariant.                                                 *)

InBody == place \in {"body", "chunk"}

\* The fields whose callbacks are over.
Passed ==
    CASE place \in {"start", "method"} -> {}
      [] place = "url" -> {"method"}
      [] place = "version" -> {"method", "url"}
      [] OTHER -> Field

\* Where the parser is tells what there is of the message and its body.
PlaceInv ==
    /\ place # "start" => n # 0
    /\ InBody => runs # <<>> /\ pos = total
    /\ place \in Field \cup {"headers"} => total = 0 /\ body = <<>> /\ ~collided
    /\ place \in Field => pos < FieldLength /\ (pos = 0 \/ place \in split)

\* What request_ has, and in a body content_, is of the current message: content_
\* outlives a message, but only as far as the next one's headers.
OwnText ==
    /\ \A f \in Field : Of(head[f], n)
    /\ Of(body, n)
    /\ InBody => Of(content, n)

\* A field that came in one piece is there, and of a body no piece of which was
\* taken for all of it what has come is in content_, at the end of a run also in
\* request_.
WholeText ==
    /\ \A f \in Passed \ split : head[f] = Text(n, FieldLength)
    /\ InBody /\ ~collided => content = Text(n, total)
    /\ place \in {"chunk", "complete"} /\ ~collided /\ alive => body = Text(n, total)

IInv == TypeOK /\ PlaceInv /\ OwnText /\ WholeText /\ WholeUnlessCut /\ NothingForeign

-----------------------------------------------------------------------------
(* Its steps.                                                               *)

LEMMA BeginInv == IInv /\ Begin => IInv'
<1> SUFFICES ASSUME IInv, Begin PROVE IInv'
  OBVIOUS
<1> USE BoundIsNat, FieldHasBytes DEF IInv, Begin, At
<1>1. TypeOK'
  <2>1. <<>> \in Seq(Byte) /\ NoField \in [Field -> Seq(Byte)]
    BY DEF NoField
  <2>2. n' \in 0..MaxMessages /\ {} \in SUBSET Field
    BY DEF TypeOK
  <2>3. place' \in Field
    BY DEF Field
  <2> QED
    BY <2>1, <2>2, <2>3 DEF TypeOK
<1>2. PlaceInv'
  BY DEF TypeOK, PlaceInv, InBody, Field
<1>3. OwnText'
  BY DEF TypeOK, OwnText, InBody, Of, NoField
<1>4. WholeText'
  BY DEF WholeText, InBody, Passed
<1>5. WholeUnlessCut' /\ NothingForeign'
  BY DEF WholeUnlessCut, NothingForeign
<1> QED
  BY <1>1, <1>2, <1>3, <1>4, <1>5

LEMMA OnFieldInv ==
    ASSUME IInv, NEW f \in Field, OnField(f)
    PROVE  IInv'
<1> USE FieldHasBytes DEF IInv, At
<1>1. PICK k \in 1..(FieldLength - pos) :
        /\ head' = [head EXCEPT ![f] = Bytes(pos, k)]
        /\ IF pos + k = FieldLength
           THEN place' = After(f) /\ pos' = 0 /\ UNCHANGED split
           ELSE pos' = pos + k /\ split' = split \cup {f} /\ UNCHANGED place
  BY DEF OnField
<1>2. /\ place = f
      /\ UNCHANGED <<n, runs, total, body, content, collided, handed, alive>>
  BY DEF OnField
<1>3. /\ n \in 1..MaxMessages /\ pos \in Nat /\ k \in Nat
      /\ place' \in Field \cup {"headers"}
      /\ place' \in Field => place' = f \/ pos' = 0
      /\ pos' \in Nat
  <2>1. n \in 0..MaxMessages /\ pos \in Nat /\ n # 0 /\ pos < FieldLength
    BY <1>2 DEF TypeOK, PlaceInv, Field
  <2>2. n \in 1..MaxMessages /\ k \in Nat /\ pos + k \in Nat
    BY <2>1, BoundIsNat
  <2>3. After(f) \in Field \cup {"headers"}
    BY DEF After, Field
  <2> HIDE DEF IInv
  <2>4. CASE pos + k = FieldLength
    BY <1>1, <2>1, <2>2, <2>3, <2>4
  <2>5. CASE pos + k # FieldLength
    BY <1>1, <1>2, <2>1, <2>2, <2>5
  <2> QED
    BY <2>4, <2>5
<1>4. /\ Bytes(pos, k) \in Seq(Byte)
      /\ Of(Bytes(pos, k), n)
  BY <1>3, PieceTyped
<1>5. TypeOK'
  <2>1. head' \in [Field -> Seq(Byte)]
    BY <1>1, <1>4 DEF TypeOK
  <2>2. split' \in SUBSET Field
    BY <1>1 DEF TypeOK
  <2> QED
    BY <1>2, <1>3, <2>1, <2>2 DEF TypeOK
<1>6. PlaceInv'
  <2>1. /\ ~InBody' /\ place' # "start"
        /\ n # 0 /\ total = 0 /\ body = <<>> /\ ~collided
    BY <1>2, <1>3 DEF PlaceInv, InBody, Field
  <2>2. place' \in Field => pos' < FieldLength /\ (pos' = 0 \/ place' \in split')
    <3>1. pos \in Nat /\ FieldLength \in Nat \ {0}
      BY DEF TypeOK
    <3>2. CASE pos + k = FieldLength
      BY <1>1, <3>1, <3>2
    <3>3. CASE pos + k # FieldLength
      <4>1. place' = f /\ f \in split' /\ pos' = pos + k
        BY <1>1, <1>2, <3>3
      <4>2. pos + k < FieldLength
        BY <1>3, <3>1, <3>3
      <4> QED
        BY <4>1, <4>2
    <3> QED
      BY <3>2, <3>3
  <2> QED
    BY <1>2, <2>1, <2>2 DEF PlaceInv
<1>7. OwnText'
  <2>1. \A g \in Field : Of(head'[g], n)
    BY <1>1, <1>4 DEF TypeOK, OwnText
  <2>2. ~InBody'
    BY <1>3 DEF InBody, Field
  <2> QED
    BY <1>2, <2>1, <2>2 DEF OwnText, Of
<1>8. WholeText'
  <2>1. ~InBody' /\ place' \notin {"chunk", "complete"}
    BY <1>3 DEF InBody, Field
  <2>2. ASSUME NEW g \in Passed' \ split' PROVE head'[g] = Text(n, FieldLength)
    <3>1. CASE g = f
      <4>1. pos + k = FieldLength /\ f \notin split
        BY <1>1, <1>2, <2>2, <3>1 DEF Passed, Field
      <4>2. pos = 0 /\ k = FieldLength
        BY <1>2, <1>3, <4>1 DEF PlaceInv
      <4>3. head'[f] = Bytes(0, FieldLength)
        BY <1>1, <4>2 DEF TypeOK
      <4> QED
        BY <3>1, <4>3, TextStarts
    <3>2. CASE g # f
      <4>1. g \in Passed \ split
        BY <1>1, <1>2, <2>2, <3>2 DEF Passed, Field, After
      <4>2. head'[g] = head[g]
        BY <1>1, <3>2 DEF TypeOK
      <4> QED
        BY <4>1, <4>2 DEF WholeText
    <3> QED
      BY <3>1, <3>2
  <2> QED
    BY <1>2, <2>1, <2>2 DEF WholeText, Text
<1>9. WholeUnlessCut' /\ NothingForeign'
  BY <1>2 DEF WholeUnlessCut, NothingForeign
<1> QED
  BY <1>5, <1>6, <1>7, <1>8, <1>9

LEMMA HeadersCompleteInv == IInv /\ HeadersComplete => IInv'
<1> SUFFICES ASSUME IInv, HeadersComplete PROVE IInv'
  OBVIOUS
<1> USE ShapesAreRuns DEF IInv, HeadersComplete, At, request, history
<1>1. TypeOK'
  <2>1. <<>> \in Seq(Byte)
    OBVIOUS
  <2> QED
    BY <2>1 DEF TypeOK, Field
<1>2. PlaceInv'
  BY DEF TypeOK, PlaceInv, InBody, Field
<1>3. OwnText'
  BY DEF OwnText, InBody, Of
<1>4. WholeText'
  <2>1. Text(n, 0) = <<>>
    BY DEF Text
  <2>2. Passed' = Passed
    BY DEF Passed
  <2> QED
    BY <2>1, <2>2 DEF WholeText, PlaceInv, InBody, Field
<1>5. WholeUnlessCut' /\ NothingForeign'
  BY DEF WholeUnlessCut, NothingForeign
<1> QED
  BY <1>1, <1>2, <1>3, <1>4, <1>5

\* What llhttp does with a piece keeps the runs and the position.
LEMMA ConsumeTyped ==
    ASSUME TypeOK, PlaceInv, InBody, NEW k \in 1..Head(runs), Consume(k)
    PROVE  /\ runs' \in Seq(Nat \ {0})
           /\ pos' = total' /\ total' = total + k
           /\ total \in Nat /\ k \in Nat \ {0}
           /\ place' \in {"body", "chunk", "complete"}
           /\ place' # "complete" => runs' # <<>>
           /\ place' # "body" => k = Head(runs)
<1>1. /\ runs \in Seq(Nat \ {0}) /\ runs # <<>>
      /\ Head(runs) \in Nat \ {0} /\ Tail(runs) \in Seq(Nat \ {0})
  BY DEF TypeOK, PlaceInv
<1>2. k \in Nat \ {0} /\ k <= Head(runs)
  BY <1>1
<1>0. pos' = pos + k /\ total' = total + k /\ pos = total /\ total \in Nat
  BY DEF Consume, TypeOK, PlaceInv
<1>3. CASE Head(runs) = k
  <2>1. /\ runs' = Tail(runs)
        /\ place' = CASE Tail(runs) = <<>> -> "complete"
                      [] Tail(runs) # <<>> /\ Len(Tail(runs)) < Len(runs) -> "chunk"
                      [] OTHER -> "body"
    BY <1>3 DEF Consume
  <2>2. place' \in {"body", "chunk", "complete"}
    BY <2>1
  <2>3. place' # "complete" => Tail(runs) # <<>>
    BY <2>1
  <2> QED
    BY <1>0, <1>1, <1>2, <1>3, <2>1, <2>2, <2>3
<1>4. CASE Head(runs) # k
  <2> DEFINE less == <<Head(runs) - k>>
  <2>1. Head(runs) - k \in Nat \ {0}
    BY <1>1, <1>2, <1>4
  <2>2. less \in Seq(Nat \ {0}) /\ Len(less) = 1
    BY <2>1
  <2>3. /\ less \o Tail(runs) \in Seq(Nat \ {0})
        /\ Len(less \o Tail(runs)) = Len(runs)
    BY <1>1, <2>2
  <2>4. /\ runs' = less \o Tail(runs)
        /\ runs' # <<>>
        /\ place' = "body"
    BY <1>1, <1>4, <2>3 DEF Consume
  <2> QED
    BY <1>0, <1>2, <2>3, <2>4
<1> QED
  BY <1>3, <1>4

LEMMA OnBodyInv == IInv /\ OnBody => IInv'
<1> SUFFICES ASSUME IInv, OnBody PROVE IInv'
  OBVIOUS
<1> USE DEF IInv
<1>1. PICK k \in 1..Head(runs) :
        /\ Consume(k)
        /\ IF Len(content) = k
           THEN collided' = TRUE /\ FromString(Bytes(pos, k)) /\ UNCHANGED content
           ELSE /\ content' = content \o Bytes(pos, k)
                /\ IF k = Head(runs)
                   THEN FromString(content') ELSE UNCHANGED <<body, alive>>
                /\ UNCHANGED collided
  BY DEF OnBody
<1>2. InBody /\ UNCHANGED <<n, head, split, handed>> /\ alive
  BY DEF OnBody, At, InBody
<1>3. /\ runs' \in Seq(Nat \ {0})
      /\ pos' = total' /\ total' = total + k
      /\ total \in Nat /\ k \in Nat \ {0}
      /\ place' \in {"body", "chunk", "complete"}
      /\ place' # "complete" => runs' # <<>>
      /\ place' # "body" => k = Head(runs)
  BY <1>1, <1>2, ConsumeTyped
<1>4. n \in 1..MaxMessages /\ pos = total
  BY <1>2, BoundIsNat DEF TypeOK, PlaceInv, InBody
<1> DEFINE piece == Bytes(total, k)
<1>5. piece \in Seq(Byte) /\ Of(piece, n)
  BY <1>3, <1>4, PieceTyped
<1>6. /\ content \o piece \in Seq(Byte)
      /\ Of(content \o piece, n)
      /\ content = Text(n, total) => content \o piece = Text(n, total + k)
  <2> HIDE DEF piece
  <2>1. content \in Seq(Byte) /\ Of(content, n)
    BY <1>2 DEF TypeOK, OwnText
  <2>2. /\ content \o piece \in Seq(Byte)
        /\ Len(content \o piece) = Len(content) + Len(piece)
        /\ \A i \in 1..(Len(content) + Len(piece)) :
              (content \o piece)[i] = IF i <= Len(content) THEN content[i]
                                      ELSE piece[i - Len(content)]
    BY <1>5, <2>1
  <2>3. Of(content \o piece, n)
    BY <1>5, <2>1, <2>2 DEF Of
  <2>4. Text(n, total) \o piece = Text(n, total + k)
    BY <1>3, TextGoesOn DEF piece
  <2> QED
    BY <2>2, <2>3, <2>4
<1> HIDE DEF piece
<1>7. /\ content' \in {content, content \o piece}
      /\ body' \in {body, piece, content'}
      /\ alive' \in BOOLEAN /\ collided' \in BOOLEAN
  BY <1>1, <1>2, <1>4 DEF FromString, piece, TypeOK
<1>8. TypeOK'
  <2>1. content' \in Seq(Byte)
    BY <1>6, <1>7 DEF TypeOK
  <2>2. body' \in Seq(Byte)
    BY <1>5, <1>7, <2>1 DEF TypeOK
  <2>3. total' \in Nat /\ pos' \in Nat
    BY <1>3
  <2> QED
    BY <1>2, <1>3, <1>7, <2>1, <2>2, <2>3 DEF TypeOK
<1>9. PlaceInv'
  BY <1>2, <1>3 DEF PlaceInv, InBody, Field
<1>10. OwnText'
  BY <1>2, <1>5, <1>6, <1>7 DEF OwnText
<1>11. WholeText'
  <2>1. Passed' = Passed
    BY <1>2, <1>3 DEF Passed, InBody
  <2>2. ~collided' => /\ content' = Text(n, total')
                      /\ k = Head(runs) /\ alive' => body' = content'
    BY <1>1, <1>2, <1>3, <1>4, <1>6 DEF WholeText, FromString, piece
  <2> QED
    BY <1>2, <1>3, <2>1, <2>2 DEF WholeText, Text
<1>12. WholeUnlessCut' /\ NothingForeign'
  BY <1>2 DEF WholeUnlessCut, NothingForeign
<1> QED
  BY <1>8, <1>9, <1>10, <1>11, <1>12

LEMMA MessageCompleteInv == IInv /\ MessageComplete => IInv'
<1> SUFFICES ASSUME IInv, MessageComplete PROVE IInv'
  OBVIOUS
<1> USE DEF IInv, request
<1> DEFINE r == [n |-> n, head |-> head, body |-> body, total |-> total,
                 split |-> split, collided |-> collided]
<1>1. /\ place = "complete" /\ alive /\ place' = "start"
      /\ handed' = Append(handed, r)
      /\ UNCHANGED <<n, pos, runs, total, head, body, content, split, collided, alive>>
  BY DEF MessageComplete, At
<1>2. r \in Request
  BY <1>1, BoundIsNat DEF Request, TypeOK, PlaceInv
<1>3. /\ r.n = n /\ r.head = head /\ r.body = body /\ r.total = total
      /\ r.split = split /\ r.collided = collided
  OBVIOUS
<1> HIDE DEF r
<1>4. /\ handed' \in Seq(Request)
      /\ \A i \in DOMAIN handed' : handed'[i] = r \/ (i \in DOMAIN handed /\ handed'[i] = handed[i])
  BY <1>1, <1>2 DEF TypeOK
<1>5. TypeOK'
  BY <1>1, <1>4 DEF TypeOK
<1>6. PlaceInv' /\ OwnText' /\ WholeText'
  BY <1>1 DEF PlaceInv, OwnText, WholeText, InBody, Passed, Field
<1>7. /\ ~r.collided => r.body = Text(r.n, r.total)
      /\ \A f \in Field \ r.split : r.head[f] = Text(r.n, FieldLength)
  BY <1>1, <1>3 DEF WholeText, Passed
<1>8. WholeUnlessCut'
  BY <1>4, <1>7 DEF WholeUnlessCut
<1>9. NothingForeign'
  BY <1>3, <1>4 DEF NothingForeign, OwnText, Of
<1> QED
  BY <1>5, <1>6, <1>8, <1>9

LEMMA ParseErrorInv == IInv /\ ParseError => IInv'
<1> USE DEF IInv, ParseError, request, history
<1>1. IInv /\ ParseError => TypeOK' /\ PlaceInv'
  BY DEF TypeOK, PlaceInv, InBody, Field
<1>2. IInv /\ ParseError => OwnText' /\ WholeText'
  BY DEF OwnText, WholeText, InBody, Passed
<1>3. IInv /\ ParseError => WholeUnlessCut' /\ NothingForeign'
  BY DEF WholeUnlessCut, NothingForeign
<1> QED
  BY <1>1, <1>2, <1>3

\* Where the parser is in a message says what the session has of it, after any
\* callbacks with any pieces.
THEOREM Inductive == Spec => []IInv
<1>1. Init => IInv
  <2> SUFFICES ASSUME Init PROVE IInv
    OBVIOUS
  <2> USE BoundIsNat DEF Init
  <2>1. TypeOK
    <3>1. <<>> \in Seq(Byte) /\ <<>> \in Seq(Nat \ {0}) /\ <<>> \in Seq(Request)
      OBVIOUS
    <3>2. NoField \in [Field -> Seq(Byte)]
      BY <3>1 DEF NoField
    <3>3. n \in 0..MaxMessages /\ pos \in Nat /\ total \in Nat
      OBVIOUS
    <3> QED
      BY <3>1, <3>2, <3>3 DEF TypeOK
  <2>2. PlaceInv /\ OwnText /\ WholeText
    BY DEF PlaceInv, OwnText, WholeText, InBody, Passed, Field, Of, NoField
  <2>3. WholeUnlessCut /\ NothingForeign
    BY DEF WholeUnlessCut, NothingForeign
  <2> QED
    BY <2>1, <2>2, <2>3 DEF IInv
<1>2. IInv /\ [Next]_vars => IInv'
  <2>1. IInv /\ UNCHANGED vars => IInv'
    BY DEF vars, request, history, IInv, TypeOK, PlaceInv, OwnText, WholeText,
           WholeUnlessCut, NothingForeign, InBody, Passed, Of, Text
  <2> QED
    BY <2>1, BeginInv, OnFieldInv, HeadersCompleteInv, OnBodyInv,
       MessageCompleteInv, ParseErrorInv DEF Next
<1> QED
  BY <1>1, <1>2, PTL DEF Spec

\* The types of what the session and the parser hold.
THEOREM TypeCorrect == Spec => []TypeOK
BY Inductive, PTL DEF IInv

\* A request is handed over whole, except for a body of which a piece was as long
\* as what was cached, and fields that were cut.
THEOREM RequestsAreWhole == Spec => []WholeUnlessCut
BY Inductive, PTL DEF IInv

\* Nothing of another message is in a request, although content_ and request_
\* outlive messages and parse errors.
THEOREM RequestsAreOwn == Spec => []NothingForeign
BY Inductive, PTL DEF IInv
=============================================================================
