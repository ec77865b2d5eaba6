-------------------------- MODULE HttpServerProofs --------------------------
(***************************************************************************)
(* Proofs about HttpServer, for any connections, any buffer and any bounds. *)
(* What is proved of Connection holds of it, because its steps are          *)
(* Connection's.                                                            *)
(***************************************************************************)
EXTENDS HttpServer, ConnectionProofs, SequenceTheorems

-----------------------------------------------------------------------------
(* The HTTP server on its connections is a server with connections.         *)

LEMMA BodyIsBody ==
    ASSUME NEW c \in Coroutine, HttpBody(c) PROVE Body(c)
BY DEF HttpBody, Body, Execute, Executed, HandleByFix, Answer

LEMMA CompleteIsComplete ==
    ASSUME NEW c \in Coroutine, HttpComplete(c) PROVE Complete(c)
BY DEF HttpComplete, Complete, Read

LEMMA NextConnection == [HttpNext]_httpVars => [Next]_vars
BY BodyIsBody, CompleteIsComplete DEF HttpNext, Next, httpVars

\* Every behaviour of the HTTP server is one of Connection's servers.
THEOREM RefinesConnection == HttpSpec => Spec
<1>1. HttpInit => Init
  BY DEF HttpInit
<1> QED
  BY <1>1, NextConnection, PTL DEF HttpSpec, Spec

\* The server always listens, with one coroutine only.
THEOREM HttpServerListens == HttpSpec => []OneListener
BY RefinesConnection, ServerListens, PTL

\* A coroutine in yield is never forgotten.
THEOREM HttpWaitsAreAnswered == HttpSpec => []WaitIsAnswered
BY RefinesConnection, WaitsAreAnswered, PTL

\* A wait begun with no wake-up owed to its coroutine ends with its own result.
THEOREM HttpResultsAreOwn == HttpSpec => []OwnResult
BY RefinesConnection, ResultsAreOwn, PTL

\* The server, its connections and its clients use the scheduler as they may.
THEOREM HttpRefinesSchedule == HttpSpec => ImplementsSchedule
BY RefinesConnection, RefinesSchedule, PTL

-----------------------------------------------------------------------------
(* Types.                                                                   *)

\* The buffers, views and requests.
ParserTyped ==
    /\ asked \in [Coroutine -> 0..MaxRequests]
    /\ data \in [Coroutine -> [1..BufferSize -> 0..MaxRequests]]
    /\ given \in [Coroutine -> 0..BufferSize]
    /\ parsed \in [Coroutine -> 0..BufferSize]
    /\ \A c \in Coroutine : parsed[c] <= given[c]
    /\ handled \in [Coroutine -> Seq(1..MaxRequests)]

LEMMA FillTyped ==
    ASSUME ParserTyped, NEW c \in Coroutine, NEW n \in Nat, Fill(c, n)
    PROVE  /\ asked' \in [Coroutine -> 0..MaxRequests]
           /\ data' \in [Coroutine -> [1..BufferSize -> 0..MaxRequests]]
<1> USE BufferHoldsOne, RequestsAreNat
<1>0. asked \in [Coroutine -> 0..MaxRequests]
  BY DEF ParserTyped
<1>1. asked[c] + n \in 0..MaxRequests
  BY <1>0 DEF Fill
<1>2. asked' \in [Coroutine -> 0..MaxRequests]
  BY <1>0, <1>1 DEF Fill
<1> DEFINE filled == [i \in 1..BufferSize |-> IF i <= n THEN asked[c] + i ELSE data[c][i]]
<1>3. \A i \in 1..BufferSize : i <= n => asked[c] + i \in 0..MaxRequests
  BY <1>0, <1>1
<1>4. \A i \in 1..BufferSize : data[c][i] \in 0..MaxRequests
  BY DEF ParserTyped
<1>5. filled \in [1..BufferSize -> 0..MaxRequests]
  BY <1>3, <1>4
<1>6. data' = [data EXCEPT ![c] = filled]
  BY DEF Fill
<1> HIDE DEF filled
<1>7. data' \in [Coroutine -> [1..BufferSize -> 0..MaxRequests]]
  BY <1>5, <1>6 DEF ParserTyped
<1> QED
  BY <1>2, <1>7

LEMMA HandTyped ==
    ASSUME ParserTyped, NEW c \in Coroutine, Hand(c)
    PROVE  ParserTyped'
<1> USE BufferHoldsOne, RequestsAreNat
<1>0. /\ data \in [Coroutine -> [1..BufferSize -> 0..MaxRequests]]
      /\ given \in [Coroutine -> 0..BufferSize] /\ parsed \in [Coroutine -> 0..BufferSize]
      /\ \A d \in Coroutine : parsed[d] <= given[d]
  BY DEF ParserTyped
<1>1. /\ parsed[c] + 1 \in 1..BufferSize
      /\ parsed[c] + 1 <= given[c]
  BY <1>0 DEF Hand
<1>2. data[c][parsed[c] + 1] \in 1..MaxRequests
  <2>1. data[c] \in [1..BufferSize -> 0..MaxRequests]
    BY <1>0
  <2>2. data[c][parsed[c] + 1] \in 0..MaxRequests
    BY <1>1, <2>1
  <2> QED
    BY <2>2 DEF Hand
<1>3. handled' \in [Coroutine -> Seq(1..MaxRequests)]
  <2>1. handled \in [Coroutine -> Seq(1..MaxRequests)]
    BY DEF ParserTyped
  <2>2. Append(handled[c], data[c][parsed[c] + 1]) \in Seq(1..MaxRequests)
    BY <1>2, <2>1
  <2> QED
    BY <2>1, <2>2, Zenon DEF Hand
<1>4. /\ parsed' = [parsed EXCEPT ![c] = parsed[c] + 1]
      /\ UNCHANGED <<asked, data, given>>
  BY DEF Hand
<1>5. /\ parsed' \in [Coroutine -> 0..BufferSize]
      /\ \A d \in Coroutine : parsed'[d] <= given'[d]
  BY <1>0, <1>1, <1>4
<1> QED
  BY <1>3, <1>4, <1>5 DEF ParserTyped

LEMMA NextParserTyped == ParserTyped /\ [HttpNext]_httpVars => ParserTyped'
<1> SUFFICES ASSUME ParserTyped, [HttpNext]_httpVars PROVE ParserTyped'
  OBVIOUS
<1> USE BufferHoldsOne
<1>1. CASE UNCHANGED parserVars
  BY <1>1 DEF ParserTyped, parserVars
<1>2. ASSUME NEW c \in Coroutine, Execute(c) PROVE ParserTyped'
  <2>1. PICK n \in 0..BufferSize : given' = [given EXCEPT ![c] = n]
    BY <1>2 DEF Execute
  <2>2. parsed' = [parsed EXCEPT ![c] = 0] /\ UNCHANGED <<asked, data, handled>>
    BY <1>2 DEF Execute
  <2>3. /\ given \in [Coroutine -> 0..BufferSize] /\ parsed \in [Coroutine -> 0..BufferSize]
        /\ \A d \in Coroutine : parsed[d] <= given[d]
    BY DEF ParserTyped
  <2>4. /\ given' \in [Coroutine -> 0..BufferSize] /\ parsed' \in [Coroutine -> 0..BufferSize]
        /\ \A d \in Coroutine : parsed'[d] <= given'[d]
    BY <2>1, <2>2, <2>3
  <2> QED
    BY <2>2, <2>4 DEF ParserTyped
<1>3. ASSUME NEW c \in Coroutine, Read(c) PROVE ParserTyped'
  <2>1. CASE UNCHANGED <<asked, data, given, parsed, handled>>
    BY <1>1, <2>1 DEF parserVars
  <2>2. ASSUME NEW n \in 1..BufferSize, Fill(c, n), handled' = handled,
               given' = IF pc[c] = "read" THEN [given EXCEPT ![c] = n] ELSE given,
               parsed' = IF pc[c] = "read" THEN [parsed EXCEPT ![c] = 0] ELSE parsed
        PROVE  ParserTyped'
    <3>1. /\ asked' \in [Coroutine -> 0..MaxRequests]
          /\ data' \in [Coroutine -> [1..BufferSize -> 0..MaxRequests]]
      BY <2>2, FillTyped
    <3>2. /\ given' \in [Coroutine -> 0..BufferSize]
          /\ parsed' \in [Coroutine -> 0..BufferSize]
          /\ \A d \in Coroutine : parsed'[d] <= given'[d]
      <4>1. /\ given \in [Coroutine -> 0..BufferSize]
            /\ parsed \in [Coroutine -> 0..BufferSize]
            /\ \A d \in Coroutine : parsed[d] <= given[d]
        BY DEF ParserTyped
      <4>2. CASE pc[c] = "read"
        <5>1. given' = [given EXCEPT ![c] = n] /\ parsed' = [parsed EXCEPT ![c] = 0]
          BY <2>2, <4>2
        <5> QED
          BY <4>1, <5>1
      <4>3. CASE pc[c] # "read"
        BY <2>2, <4>1, <4>3
      <4> QED
        BY <4>2, <4>3
    <3> QED
      BY <2>2, <3>1, <3>2 DEF ParserTyped
  <2> QED
    BY <1>3, <2>1, <2>2 DEF Read
<1>4. ASSUME NEW c \in Coroutine, Hand(c) PROVE ParserTyped'
  BY <1>4, HandTyped
<1>5. CASE UNCHANGED httpVars
  BY <1>1, <1>5 DEF httpVars
<1> QED
  BY <1>1, <1>2, <1>3, <1>4, <1>5
  DEF HttpNext, HttpBody, HttpComplete, Executed, HandleByFix, Answer

\* The type invariant of the server with its buffers and its parsers.
THEOREM HttpTypeCorrect == HttpSpec => []HttpTypeOK
<1>1. HttpInit => ParserTyped
  BY BufferHoldsOne, RequestsAreNat DEF HttpInit, ParserTyped
<1>2. TypeOK /\ ParserTyped => HttpTypeOK
  BY DEF HttpTypeOK, ParserTyped
<1> QED
  BY <1>1, <1>2, NextParserTyped, RefinesConnection, TypeCorrect, PTL DEF HttpSpec

-----------------------------------------------------------------------------
(* Requests are handed over each once and in order.                         *)

\* What the proofs below speak of in a coroutine, all of it unchanged.
Kept(d) ==
    /\ asked'[d] = asked[d] /\ data'[d] = data[d] /\ given'[d] = given[d]
    /\ parsed'[d] = parsed[d] /\ handled'[d] = handled[d]
    /\ pc'[d] = pc[d] /\ op'[d] = op[d] /\ out'[d] = out[d] /\ size'[d] = size[d]
    /\ sent'[d] = sent[d] /\ responses'[d] = responses[d] /\ wire'[d] = wire[d]
    /\ d \in owing' <=> d \in owing

\* A step of another coroutine leaves one's parser alone.
LEMMA OthersKeepParser ==
    ASSUME NEW d \in Coroutine, NEW c \in Coroutine \ {d}, ParserTyped,
           HttpBody(c) \/ HttpComplete(c)
    PROVE  /\ asked'[d] = asked[d] /\ data'[d] = data[d] /\ given'[d] = given[d]
           /\ parsed'[d] = parsed[d] /\ handled'[d] = handled[d]
<1> DEFINE Goal == /\ asked'[d] = asked[d] /\ data'[d] = data[d] /\ given'[d] = given[d]
                   /\ parsed'[d] = parsed[d] /\ handled'[d] = handled[d]
<1> USE DEF ParserTyped
<1>1. CASE UNCHANGED parserVars
  BY <1>1 DEF parserVars
<1>2. CASE Execute(c)
  BY <1>2 DEF Execute
<1>3. CASE Hand(c)
  BY <1>3 DEF Hand
<1>4. CASE Read(c)
  <2>1. ASSUME NEW n, Fill(c, n) PROVE asked'[d] = asked[d] /\ data'[d] = data[d]
    BY <2>1 DEF Fill
  <2> QED
    BY <1>4, <2>1 DEF Read
<1> QED
  BY <1>1, <1>2, <1>3, <1>4
  DEF HttpBody, HttpComplete, Executed, HandleByFix, Answer

\* Nor does it touch one's connection.
LEMMA OthersKeepConnection ==
    ASSUME NEW d \in Coroutine, NEW c \in Coroutine \ {d}, TypeOK,
           Body(c) \/ Complete(c)
    PROVE  /\ pc'[d] = pc[d] /\ op'[d] = op[d] /\ out'[d] = out[d] /\ size'[d] = size[d]
           /\ sent'[d] = sent[d] /\ responses'[d] = responses[d] /\ wire'[d] = wire[d]
           /\ d \in owing' <=> d \in owing
<1> DEFINE Goal == /\ pc'[d] = pc[d] /\ op'[d] = op[d] /\ out'[d] = out[d]
                   /\ size'[d] = size[d] /\ sent'[d] = sent[d]
                   /\ responses'[d] = responses[d] /\ wire'[d] = wire[d]
                   /\ d \in owing' <=> d \in owing
<1> USE DEF TypeOK
<1>1. CASE Listen(c) \/ AcceptFailed(c) \/ Recv(c) \/ Respond(c) \/ SendMore(c)
  BY <1>1 DEF Listen, AcceptFailed, Recv, Respond, SendMore, Await, Goto, peerVars
<1>2. CASE (\E e \in Coroutine : Accepted(c, e)) \/ Received(c) \/ Sent(c)
  BY <1>2 DEF Accepted, Received, Sent, Leave, Goto, peerVars
<1>3. CASE Close(c) \/ NeedMore(c) \/ Call(c)
  BY <1>3 DEF Close, NeedMore, Call, Goto, sockVars, peerVars
<1>4. CASE CallAgain(c) \/ Fail(c) \/ SendFailed(c)
  BY <1>4 DEF CallAgain, Fail, SendFailed, connVars, sockVars, peerVars
<1>5. CASE CompleteAccept(c) \/ CompleteRead(c) \/ CompleteLeftRead(c)
  BY <1>5 DEF CompleteAccept, CompleteRead, CompleteLeftRead, peerVars
<1>6. CASE CompleteWrite(c) \/ CompleteLeftWrite(c)
  <2>1. ASSUME NEW w, NEW result, NEW n, WriteResult(c, w, result, n)
        PROVE  wire'[d] = wire[d]
    BY <2>1 DEF WriteResult
  <2> QED
    BY <1>6, <2>1 DEF CompleteWrite, CompleteLeftWrite
<1> QED
  BY <1>1, <1>2, <1>3, <1>4, <1>5, <1>6 DEF Body, Complete

\* Every step that is not the coroutine's own or a completion of its operations
\* leaves it as it was.
LEMMA Frame ==
    ASSUME NEW d \in Coroutine, TypeOK, ParserTyped, [HttpNext]_httpVars,
           ~HttpBody(d), ~HttpComplete(d)
    PROVE  Kept(d)
<1>1. ASSUME NEW c \in Coroutine, HttpBody(c) \/ HttpComplete(c) PROVE Kept(d)
  BY <1>1, BodyIsBody, CompleteIsComplete, OthersKeepParser, OthersKeepConnection
  DEF Kept
<1>2. CASE UNCHANGED <<connVars, parserVars>>
  BY <1>2 DEF Kept, connVars, sockVars, peerVars, parserVars
<1>3. ASSUME NEW c \in Coroutine, OnRecv(c) \/ HangUp(c), UNCHANGED parserVars
      PROVE  Kept(d)
  BY <1>3 DEF Kept, OnRecv, HangUp, sockVars, peerVars, parserVars
<1> QED
  BY <1>1, <1>2, <1>3
  DEF HttpNext, httpVars, vars, Serve, TimerExpire, IoThread, Stop

\* The requests handed over are the first ones, and the rest of the view holds
\* the next ones, up to the last that was read.
View(d) ==
    /\ Len(handled[d]) = asked[d] + parsed[d] - given[d]
    /\ \A i \in 1..BufferSize :
          parsed[d] < i /\ i <= given[d] => data[d][i] = Len(handled[d]) + i - parsed[d]

\* What holds of a connection where no operation began with a wake-up owed:
\* outside the handler everything read was handed over, in it the view has the
\* rest.  With the bound on responses met the handler takes no more.
ParserOf(d) ==
    d \notin owing =>
        /\ \A i \in DOMAIN handled[d] : handled[d][i] = i
        /\ responses[d] < MaxResponses =>
              /\ \/ pc[d] \in {"start", "accept", "recv"}
                 \/ pc[d] = "read" /\ op[d] # None
                 => Len(handled[d]) = asked[d]
              /\ \/ pc[d] \in {"serve", "call", "write"}
                 \/ pc[d] = "read" /\ op[d] = None /\ out[d] = "ok"
                 => View(d)
              /\ pc[d] = "read" /\ op[d] = None /\ out[d] = "ok" => parsed[d] = 0

\* Handing the next request of the view over leaves the rest of it.
LEMMA HandParser ==
    ASSUME ParserTyped, NEW d \in Coroutine, View(d), Hand(d),
           \A i \in DOMAIN handled[d] : handled[d][i] = i
    PROVE  View(d)' /\ \A i \in DOMAIN handled'[d] : handled'[d][i] = i
<1> USE BufferHoldsOne
<1>0. /\ parsed[d] \in 0..BufferSize /\ given[d] \in 0..BufferSize
      /\ asked[d] \in 0..MaxRequests /\ handled[d] \in Seq(1..MaxRequests)
  BY DEF ParserTyped
<1>1. /\ parsed[d] \in Nat /\ given[d] \in Nat /\ asked[d] \in Nat
      /\ handled[d] \in Seq(1..MaxRequests) /\ Len(handled[d]) \in Nat
      /\ parsed[d] + 1 \in 1..BufferSize
  BY <1>0 DEF Hand
<1> DEFINE next == parsed[d] + 1
<1>2. data[d][parsed[d] + 1] = Len(handled[d]) + 1
  <2>1. next \in 1..BufferSize /\ parsed[d] < next /\ next <= given[d]
    BY <1>1 DEF Hand
  <2>2. data[d][next] = Len(handled[d]) + next - parsed[d]
    BY <2>1 DEF View
  <2> QED
    BY <1>1, <2>2
<1>3. /\ handled'[d] = Append(handled[d], Len(handled[d]) + 1)
      /\ parsed'[d] = parsed[d] + 1
      /\ UNCHANGED <<asked, data, given>>
  BY <1>2 DEF ParserTyped, Hand
<1>4. Len(handled'[d]) = Len(handled[d]) + 1
  BY <1>1, <1>3
<1>5. \A i \in DOMAIN handled'[d] : handled'[d][i] = i
  <2> DEFINE l == Len(handled[d]) + 1
  <2>1. /\ handled'[d] = Append(handled[d], l) /\ DOMAIN handled'[d] = 1..l
        /\ DOMAIN handled[d] = 1..Len(handled[d])
    BY <1>0, <1>3
  <2>2. \A i \in 1..Len(handled[d]) : handled'[d][i] = handled[d][i]
    BY <1>0, <1>3
  <2>3. handled'[d][l] = l
    BY <1>0, <1>3
  <2>4. \A i \in 1..l : i \in 1..Len(handled[d]) \/ i = l
    BY <1>1
  <2> HIDE DEF l
  <2> QED
    BY <2>1, <2>2, <2>3, <2>4
<1>6. View(d)'
  <2>0. /\ asked'[d] = asked[d] /\ data'[d] = data[d] /\ given'[d] = given[d]
        /\ parsed'[d] = parsed[d] + 1 /\ Len(handled'[d]) = Len(handled[d]) + 1
    BY <1>1, <1>3, <1>4
  <2>1. Len(handled'[d]) = asked'[d] + parsed'[d] - given'[d]
    <3>1. Len(handled[d]) = asked[d] + parsed[d] - given[d]
      BY DEF View
    <3>2. Len(handled[d]) + 1 = asked[d] + (parsed[d] + 1) - given[d]
      <4>1. PICK h \in Nat, a \in Nat, p \in Nat, g \in Nat :
               h = Len(handled[d]) /\ a = asked[d] /\ p = parsed[d] /\ g = given[d]
        BY <1>1, Zenon
      <4>2. h = a + p - g
        BY <3>1, <4>1, Zenon
      <4>3. h + 1 = a + (p + 1) - g
        BY <4>2
      <4> QED
        BY <4>1, <4>3, Zenon
    <3> QED
      BY <2>0, <3>2, Zenon
  <2>2. ASSUME NEW i \in 1..BufferSize, parsed'[d] < i /\ i <= given'[d]
        PROVE  data'[d][i] = Len(handled'[d]) + i - parsed'[d]
    <3>1. parsed[d] < i /\ i <= given[d]
      BY <1>1, <1>3, <2>2
    <3>2. data[d][i] = Len(handled[d]) + i - parsed[d]
      BY <3>1 DEF View
    <3>3. \A h, p \in Nat : h + i - p = (h + 1) + i - (p + 1)
      OBVIOUS
    <3>4. Len(handled[d]) + i - parsed[d] = (Len(handled[d]) + 1) + i - (parsed[d] + 1)
      BY <1>1, <3>3, Zenon
    <3> QED
      BY <2>0, <3>2, <3>4, Zenon
  <2> QED
    BY <2>1, <2>2 DEF View
<1> QED
  BY <1>5, <1>6

\* A step that keeps the parser and ends in the same part of the loop.
LEMMA SameParser ==
    ASSUME NEW d \in Coroutine, ParserOf(d),
           UNCHANGED <<asked[d], data[d], given[d], parsed[d], handled[d]>>,
           d \in owing => d \in owing',
           responses'[d] < MaxResponses => responses[d] < MaxResponses,
           \/ pc'[d] \notin {"start", "accept", "recv", "read", "serve", "call", "write"}
           \/ /\ pc[d] \in {"start", "accept", "recv"}
              /\ \/ pc'[d] \in {"start", "accept", "recv"}
                 \/ pc'[d] = "read" /\ op'[d] # None
           \/ pc[d] \in {"call", "write"} /\ pc'[d] \in {"serve", "call", "write"}
    PROVE  ParserOf(d)'
<1> SUFFICES ASSUME d \notin owing' PROVE ParserOf(d)'
  BY DEF ParserOf
<1>1. \A i \in DOMAIN handled'[d] : handled'[d][i] = i
  BY DEF ParserOf
<1>2. View(d) => View(d)'
  BY DEF View
<1>3. ASSUME responses'[d] < MaxResponses,
             pc'[d] \in {"start", "accept", "recv"} \/ (pc'[d] = "read" /\ op'[d] # None)
      PROVE  Len(handled'[d]) = asked'[d]
  BY <1>3 DEF ParserOf
<1>4. ASSUME responses'[d] < MaxResponses, pc'[d] \in {"serve", "call", "write"}
      PROVE  View(d)'
  BY <1>2, <1>4 DEF ParserOf
<1> QED
  BY <1>1, <1>3, <1>4 DEF ParserOf

\* recv hands out what its read put there; the parser is done when the view is.
LEMMA LoopParser ==
    ASSUME TypeOK, ParserTyped, NEW d \in Coroutine, OwnOf(d), ParserOf(d),
           Execute(d) \/ Executed(d)
    PROVE  ParserOf(d)'
<1> USE BufferHoldsOne
<1>1. UNCHANGED <<owing, responses, handled, asked, data>>
  BY DEF Execute, Executed, Received, NeedMore, Leave, sockVars, parserVars
<1> SUFFICES ASSUME d \notin owing, responses[d] < MaxResponses PROVE ParserOf(d)'
  BY <1>1 DEF ParserOf
<1>2. CASE Execute(d)
  <2>1. /\ pc[d] = "read" /\ status[d] = "running" /\ out[d] # "error"
        /\ pc'[d] = "serve"
    BY <1>2 DEF Execute, Received, At, Leave, Goto, TypeOK
  <2>2. op[d] = None /\ out[d] = "ok"
    BY <2>1 DEF OwnOf, Operation, Pending, Answered, TypeOK
  <2>3. View(d) /\ parsed[d] = 0
    BY <2>1, <2>2 DEF ParserOf
  <2>4. given'[d] = given[d] /\ parsed'[d] = 0
    BY <1>2, <2>2 DEF Execute, ParserTyped
  <2>5. View(d)'
    BY <1>1, <2>3, <2>4 DEF View
  <2> QED
    BY <1>1, <2>1, <2>5 DEF ParserOf
<1>3. CASE Executed(d)
  <2>1. pc[d] = "serve" /\ pc'[d] = "recv" /\ UNCHANGED parserVars
    BY <1>3 DEF Executed, NeedMore, At, Goto, TypeOK
  <2>2. View(d)
    BY <2>1 DEF ParserOf
  <2>3. /\ parsed[d] \in Nat /\ given[d] \in 0..BufferSize /\ asked[d] \in Nat
        /\ Len(handled[d]) \in Nat
    BY DEF ParserTyped
  <2>4. parsed[d] = given[d]
    <3> SUFFICES ASSUME parsed[d] < given[d], data[d][parsed[d] + 1] = 0 PROVE FALSE
      <4>1. \/ parsed[d] = given[d]
            \/ parsed[d] < given[d] /\ data[d][parsed[d] + 1] = 0
            \/ responses[d] = MaxResponses
        BY <1>3 DEF Executed
      <4>2. responses[d] # MaxResponses
        BY BoundsAreNat
      <4> QED
        BY <4>1, <4>2, Zenon
    <3> DEFINE next == parsed[d] + 1
    <3>1. next \in 1..BufferSize /\ parsed[d] < next /\ next <= given[d]
      BY <2>3
    <3>2. data[d][next] = Len(handled[d]) + next - parsed[d]
      BY <2>2, <3>1 DEF View
    <3> QED
      BY <2>3, <3>2
  <2>5. Len(handled[d]) = asked[d]
    BY <2>2, <2>3, <2>4 DEF View
  <2> QED
    BY <2>1, <2>5 DEF ParserOf, parserVars
<1> QED
  BY <1>2, <1>3

\* The handler takes the next request of the view, or goes on with the last.
LEMMA HandlerParser ==
    ASSUME TypeOK, ParserTyped, NEW d \in Coroutine, ParserOf(d),
           HandleByFix(d) \/ Answer(d)
    PROVE  ParserOf(d)'
<1>1. /\ responses[d] < MaxResponses
      /\ pc[d] \in {"serve", "call"} /\ pc'[d] \in {"call", "write"}
      /\ d \in owing => d \in owing'
      /\ responses'[d] \in {responses[d], responses[d] + 1}
      /\ IF pc[d] = "serve" THEN Hand(d) ELSE UNCHANGED parserVars
  BY DEF HandleByFix, Answer, Call, Respond, Handling, At, Await, Goto, sockVars, TypeOK
<1>2. responses'[d] < MaxResponses => responses[d] < MaxResponses
  BY <1>1
<1>3. CASE pc[d] = "call"
  BY <1>1, <1>2, <1>3, SameParser DEF parserVars
<1>4. CASE pc[d] = "serve" /\ d \notin owing
  <2>1. Hand(d) /\ View(d) /\ \A i \in DOMAIN handled[d] : handled[d][i] = i
    BY <1>1, <1>4 DEF ParserOf
  <2>2. View(d)' /\ \A i \in DOMAIN handled'[d] : handled'[d][i] = i
    BY <2>1, HandParser
  <2> QED
    BY <1>1, <2>2 DEF ParserOf
<1> QED
  BY <1>1, <1>3, <1>4 DEF ParserOf

LEMMA BodyParser ==
    ASSUME TypeOK, ParserTyped, NEW d \in Coroutine, OwnOf(d), ParserOf(d), HttpBody(d)
    PROVE  ParserOf(d)'
<1>1. CASE Execute(d) \/ Executed(d)
  BY <1>1, LoopParser
<1>2. CASE HandleByFix(d) \/ Answer(d)
  BY <1>2, HandlerParser
<1>3. CASE UNCHANGED parserVars /\ (Listen(d) \/ AcceptFailed(d) \/ Recv(d) \/ SendMore(d))
  <2>1. /\ responses' = responses
        /\ d \in owing => d \in owing'
        /\ \/ pc[d] \in {"start", "accept"} /\ pc'[d] = "accept"
           \/ pc[d] = "recv" /\ pc'[d] = "read" /\ op'[d] = "read"
           \/ pc[d] = "write" /\ pc'[d] = "write"
    BY <1>3 DEF Listen, AcceptFailed, Recv, SendMore, At, Await, Goto, TypeOK
  <2> QED
    BY <1>3, <2>1, SameParser, NoneIsNoOperation DEF parserVars
<1>4. CASE /\ UNCHANGED parserVars
           /\ (\E e \in Coroutine : Accepted(d, e)) \/ Sent(d) \/ Close(d)
  <2>1. /\ responses' = responses /\ owing' = owing
        /\ \/ pc[d] = "accept" /\ pc'[d] = "recv"
           \/ pc[d] = "write" /\ pc'[d] = "serve"
           \/ pc'[d] = "over"
    BY <1>4 DEF Accepted, Sent, Close, At, Leave, Goto, TypeOK
  <2> QED
    BY <1>4, <2>1, SameParser DEF parserVars
<1>5. CASE UNCHANGED parserVars /\ (CallAgain(d) \/ Fail(d) \/ SendFailed(d))
  BY <1>5 DEF CallAgain, Fail, SendFailed, connVars, sockVars, parserVars, ParserOf, View
<1> QED
  BY <1>1, <1>2, <1>3, <1>4, <1>5 DEF HttpBody

\* A read fills the buffer with the next requests only when all before were
\* handed over: with none left behind it is the read of the recv that waits.
LEMMA CompleteParser ==
    ASSUME TypeOK, ParserTyped, NEW d \in Coroutine, OwnOf(d), ParserOf(d), HttpComplete(d)
    PROVE  ParserOf(d)'
<1> USE BufferHoldsOne
<1>1. UNCHANGED <<owing, responses, handled, pc>>
  BY DEF HttpComplete, Read, CompleteAccept, CompleteRead, CompleteLeftRead,
         CompleteWrite, CompleteLeftWrite, parserVars
<1> SUFFICES ASSUME d \notin owing, responses[d] < MaxResponses PROVE ParserOf(d)'
  BY <1>1 DEF ParserOf
<1>2. ~CompleteLeftRead(d) /\ ~CompleteLeftWrite(d)
  BY DEF CompleteLeftRead, CompleteLeftWrite, OwnOf
<1>3. CASE UNCHANGED parserVars /\ (CompleteAccept(d) \/ CompleteWrite(d))
  <2>1. pc[d] \in {"accept", "write"}
    BY <1>3, NoneIsNoOperation DEF CompleteAccept, CompleteWrite, OwnOf
  <2> QED
    BY <1>1, <1>3, <2>1 DEF ParserOf, View, parserVars
<1>4. CASE Read(d)
  <2>1. pc[d] = "read" /\ op[d] = "read" /\ op'[d] = None /\ CompleteRead(d)
    BY <1>2, <1>4, NoneIsNoOperation DEF Read, CompleteRead, OwnOf, TypeOK
  <2>2. Len(handled[d]) = asked[d]
    BY <2>1, NoneIsNoOperation DEF ParserOf
  <2>3. CASE reads' = reads
    <3>1. out'[d] = "error"
      BY <2>1, <2>3 DEF CompleteRead, ReadResult, TypeOK
    <3> QED
      BY <1>1, <2>1, <3>1 DEF ParserOf
  <2>4. ASSUME NEW n \in 1..BufferSize, Fill(d, n), given'[d] = n, parsed'[d] = 0
        PROVE  View(d)'
    <3>1. /\ asked'[d] = asked[d] + n
          /\ \A i \in 1..BufferSize : i <= n => data'[d][i] = asked[d] + i
      BY <2>4 DEF Fill, ParserTyped
    <3>2. asked[d] \in Nat /\ handled' = handled
      BY <1>1 DEF ParserTyped
    <3>3. Len(handled'[d]) = asked'[d] + parsed'[d] - given'[d]
      BY <2>2, <2>4, <3>1, <3>2
    <3>4. ASSUME NEW i \in 1..BufferSize, parsed'[d] < i /\ i <= given'[d]
          PROVE  data'[d][i] = Len(handled'[d]) + i - parsed'[d]
      BY <2>2, <2>4, <3>1, <3>2, <3>4
    <3> QED
      BY <3>3, <3>4 DEF View
  <2>5. CASE reads' # reads
    <3>1. PICK n \in 1..BufferSize : /\ Fill(d, n)
                                     /\ given'[d] = n /\ parsed'[d] = 0
      BY <1>4, <2>1, <2>5 DEF Read, ParserTyped
    <3>2. View(d)' /\ parsed'[d] = 0
      BY <2>4, <3>1
    <3> QED
      BY <1>1, <2>1, <3>2 DEF ParserOf
  <2> QED
    BY <2>3, <2>5
<1> QED
  BY <1>2, <1>3, <1>4 DEF HttpComplete

ParserInv == \A c \in Coroutine : ParserOf(c)

LEMMA NextParserInv ==
    TypeOK /\ ParserTyped /\ OwnInv /\ ParserInv /\ [HttpNext]_httpVars => ParserInv'
<1> SUFFICES ASSUME TypeOK, ParserTyped, OwnInv, ParserInv, [HttpNext]_httpVars,
                    NEW d \in Coroutine
             PROVE  ParserOf(d)'
  BY DEF ParserInv
<1>1. OwnOf(d) /\ ParserOf(d)
  BY DEF OwnInv, ParserInv
<1>2. CASE HttpBody(d) \/ HttpComplete(d)
  BY <1>1, <1>2, BodyParser, CompleteParser
<1>3. CASE ~HttpBody(d) /\ ~HttpComplete(d)
  <2>1. Kept(d)
    BY <1>3, Frame
  <2> QED
    BY <1>1, <2>1 DEF Kept, ParserOf, View
<1> QED
  BY <1>2, <1>3

\* What ConnectionProofs shows on the way to ResultsAreOwn.
LEMMA OwnInvHolds == HttpSpec => []OwnInv
<1>1. Init => OwnInv
  BY DEF Init, OwnInv, OwnOf, Operation
<1>2. Spec => []OwnInv
  BY <1>1, TypeCorrect, Scheduled, NextOwnInv, PTL DEF Spec
<1> QED
  BY <1>2, RefinesConnection, PTL

\* On a connection where no operation began with a wake-up owed to it, the
\* handler gets the client's requests each once and in order, and all that were
\* read before the connection reads again.
THEOREM RequestsInOrder == HttpSpec => []HandledInOrder
<1>1. HttpInit => ParserInv
  BY DEF HttpInit, Init, ParserInv, ParserOf
<1>2. ParserTyped /\ ParserInv => HandledInOrder
  <2> SUFFICES ASSUME ParserTyped, ParserInv, NEW c \in Coroutine \ owing
               PROVE  /\ handled[c] = [i \in 1..Len(handled[c]) |-> i]
                      /\ pc[c] \in {"recv", "read"} /\ op[c] # None
                            /\ responses[c] < MaxResponses
                         => Len(handled[c]) = asked[c]
    BY DEF HandledInOrder
  <2>1. ParserOf(c)
    BY DEF ParserInv
  <2>2. handled[c] \in Seq(1..MaxRequests) /\ \A i \in DOMAIN handled[c] : handled[c][i] = i
    BY <2>1 DEF ParserTyped, ParserOf
  <2>3. handled[c] = [i \in 1..Len(handled[c]) |-> i]
    BY <2>2
  <2> QED
    BY <2>1, <2>3 DEF ParserOf
<1>3. HttpInit => ParserTyped
  BY BufferHoldsOne, RequestsAreNat DEF HttpInit, ParserTyped
<1> QED
  BY <1>1, <1>2, <1>3, NextParserTyped, NextParserInv, OwnInvHolds, RefinesConnection,
     TypeCorrect, PTL DEF HttpSpec

-----------------------------------------------------------------------------
(* Responses are written each once, whole and in order.                     *)

\* Division by the number of parts is unique.
LEMMA Digits ==
    ASSUME NEW q \in Nat, NEW k \in 0..(Parts - 1)
    PROVE  (Parts * q + k) \div Parts = q /\ (Parts * q + k) % Parts = k
<1> USE PartsIsPositive
<1>1. ASSUME NEW x \in Int, NEW y \in Int, x >= y + 1
      PROVE  Parts * x >= Parts * y + Parts
  <2>1. PICK z \in Nat : x = y + 1 + z
    <3>1. x - y - 1 \in Nat /\ x = y + 1 + (x - y - 1)
      BY <1>1
    <3> QED
      BY <3>1
  <2>2. Parts * x = Parts * y + Parts + Parts * z
    BY <2>1
  <2>3. Parts * z \in Nat
    OBVIOUS
  <2> QED
    BY <2>2, <2>3
<1>2. PICK n \in Nat : n = Parts * q + k
  OBVIOUS
<1>3. /\ n = Parts * (n \div Parts) + (n % Parts)
      /\ n \div Parts \in Nat /\ n % Parts \in 0..(Parts - 1)
  OBVIOUS
<1>4. PICK r \in Nat, l \in 0..(Parts - 1) : /\ r = n \div Parts /\ l = n % Parts
                                           /\ Parts * q + k = Parts * r + l
  BY <1>2, <1>3
<1>5. ~(q >= r + 1) /\ ~(r >= q + 1)
  BY <1>1, <1>4
<1>6. q = r /\ k = l
  BY <1>4, <1>5
<1> QED
  BY <1>2, <1>4, <1>6

\* What the client should find at a place of what is written to it: the number
\* of a response, and of a part of it.
Piece(i) == <<((i - 1) \div Parts) + 1, ((i - 1) % Parts) + 1>>

InPieces(w) == \A i \in DOMAIN w : w[i] = Piece(i)

\* What may be on a socket.
Written == Seq(Nat \X (1..Parts))

\* The parts s + 1 to s + n of response r.
Run(r, s, n) == [i \in 1..n |-> <<r, s + i>>]

\* What holds of a connection where no operation began with a wake-up owed:
\* each request handed over has its response, each response is on the socket,
\* but for what the write in progress has left.
WireOf(d) ==
    d \notin owing =>
        /\ Len(handled[d]) = responses[d] + (IF pc[d] = "call" THEN 1 ELSE 0)
        /\ InPieces(wire[d])
        /\ pc[d] # "write" => Len(wire[d]) = Parts * responses[d]
        /\ pc[d] = "write" =>
              /\ responses[d] > 0
              /\ op[d] # None => out[d] = "none" /\ size[d] = 0
              /\ out[d] # "error" =>
                    /\ Len(wire[d]) = Parts * (responses[d] - 1) + (sent[d] + size[d])
                    /\ sent[d] + size[d] <= Parts

\* On a socket there are the responses before r, and s parts of that one.
Reached(w, r, s) ==
    /\ w \in Written /\ InPieces(w)
    /\ r \in Nat \ {0} /\ s \in Nat
    /\ Len(w) = Parts * (r - 1) + s

\* More of the response in progress is what the client waits for.
LEMMA MorePieces ==
    \A w, r, s, n :
        Reached(w, r, s) /\ n \in 1..Parts /\ s + n <= Parts
            => Reached(w \o Run(r, s, n), r, s + n)
<1> SUFFICES ASSUME NEW w, NEW r, NEW s, NEW n,
                    Reached(w, r, s), n \in 1..Parts, s + n <= Parts
             PROVE  Reached(w \o Run(r, s, n), r, s + n)
  OBVIOUS
<1>0. /\ w \in Written /\ InPieces(w)
      /\ r \in Nat /\ r > 0 /\ s \in Nat
      /\ Len(w) = Parts * (r - 1) + s
  BY DEF Reached
<1> USE PartsIsPositive, <1>0
<1> DEFINE more == Run(r, s, n)
<1>1. more \in Seq(Nat \X (1..Parts)) /\ Len(more) = n
  <2>1. \A i \in 1..n : <<r, s + i>> \in Nat \X (1..Parts)
    OBVIOUS
  <2> QED
    BY <2>1 DEF Run
<1> HIDE DEF more
<1>2. PICK l \in Nat : l = Len(w)
  BY DEF Written
<1> DEFINE T == Nat \X (1..Parts)
           whole == w \o more
<1>3. /\ whole \in Seq(T) /\ Len(whole) = l + n
      /\ \A i \in 1..(l + n) : whole[i] = IF i <= l THEN w[i] ELSE more[i - l]
  <2> HIDE DEF T
  <2>1. w \in Seq(T) /\ more \in Seq(T)
    BY <1>1 DEF T, Written
  <2>2. /\ whole \in Seq(T) /\ Len(whole) = Len(w) + Len(more)
        /\ \A i \in 1..Len(w) + Len(more) : whole[i] = IF i <= Len(w) THEN w[i] ELSE more[i - Len(w)]
    BY <2>1, ConcatProperties, Zenon
  <2> QED
    BY <1>1, <1>2, <2>2, Zenon
<1> HIDE DEF T, whole
<1>4. ASSUME NEW i \in 1..l PROVE whole[i] = Piece(i)
  <2>1. i \in 1..(l + n) /\ i <= l
    BY <1>4
  <2>2. whole[i] = w[i]
    BY <1>3, <2>1, Zenon
  <2>3. i \in DOMAIN w
    BY <1>2 DEF Written
  <2> QED
    BY <2>2, <2>3 DEF InPieces
<1>5. ASSUME NEW j \in 1..n, NEW i \in Nat, i = l + j PROVE whole[i] = Piece(i)
  <2>0. more[j] = <<r, s + j>>
    BY DEF Run, more
  <2>1. whole[i] = more[j]
    <3>1. i \in 1..(l + n) /\ ~(i <= l) /\ i - l = j
      BY <1>2, <1>5
    <3> QED
      BY <1>3, <3>1
  <2>2. PICK q \in Nat, k \in 0..(Parts - 1) : q = r - 1 /\ k = s + j - 1
    <3>1. r - 1 \in Nat /\ s + j - 1 \in 0..(Parts - 1)
      OBVIOUS
    <3> QED
      BY <3>1
  <2>3. i - 1 = Parts * q + k
    BY <1>2, <1>5, <2>2
  <2>4. Piece(i) = <<q + 1, k + 1>>
    BY <2>3, Digits DEF Piece
  <2>5. q + 1 = r /\ k + 1 = s + j
    BY <2>2
  <2> QED
    BY <2>0, <2>1, <2>4, <2>5
<1>6. InPieces(whole)
  <2> SUFFICES ASSUME NEW i \in 1..(l + n) PROVE whole[i] = Piece(i)
    BY <1>3 DEF InPieces
  <2>1. CASE i \in 1..l
    BY <1>4, <2>1
  <2>2. CASE i \notin 1..l
    <3>1. PICK j \in 1..n : i = l + j
      <4>1. i - l \in 1..n /\ i = l + (i - l)
        BY <1>2, <2>2
      <4> QED
        BY <4>1, Zenon
    <3>2. i \in Nat
      OBVIOUS
    <3> QED
      BY <1>5, <3>1, <3>2, Zenon
  <2> QED
    BY <2>1, <2>2
<1>7. Len(whole) = Parts * (r - 1) + (s + n)
  <2>1. Len(whole) = l + n /\ l = Parts * (r - 1) + s
    BY <1>2, <1>3
  <2>2. Parts * (r - 1) \in Nat
    OBVIOUS
  <2> QED
    BY <2>1, <2>2
<1>8. whole \in Written /\ r \in Nat \ {0} /\ s + n \in Nat
  BY <1>3 DEF Written, T
<1> QED
  BY <1>6, <1>7, <1>8 DEF Reached, whole, more

\* Reading, parsing and handling: what is written stays, and each request taken
\* gets its response's write begun, now or when FIX answers.
LEMMA HandlerWire ==
    ASSUME TypeOK, ParserTyped, NEW d \in Coroutine, WireOf(d),
           HandleByFix(d) \/ Answer(d)
    PROVE  WireOf(d)'
<1> USE PartsIsPositive, BoundsAreNat
<1>1. d \in owing => d \in owing'
  BY DEF HandleByFix, Answer, Call, Respond, Await, sockVars
<1> SUFFICES ASSUME d \notin owing PROVE WireOf(d)'
  BY <1>1 DEF WireOf
<1>2. /\ pc[d] \in {"serve", "call"} /\ wire' = wire
      /\ responses[d] \in Nat /\ Len(handled[d]) \in Nat /\ Len(wire[d]) \in Nat
  <2>1. pc[d] \in {"serve", "call"} /\ wire' = wire
    BY DEF HandleByFix, Answer, Call, Respond, Handling, At, peerVars
  <2>2. responses[d] \in Nat /\ wire[d] \in Seq(Nat \X (1..Parts))
    <3>1. responses[d] \in 0..MaxResponses
      BY DEF TypeOK
    <3>2. wire[d] \in Seq(Nat \X (1..Parts))
      BY Zenon DEF TypeOK
    <3> QED
      BY <3>1, <3>2
  <2>3. handled[d] \in Seq(1..MaxRequests)
    BY DEF ParserTyped
  <2> QED
    BY <2>1, <2>2, <2>3
<1>3. Len(handled'[d]) = responses[d] + 1
  <2>1. CASE pc[d] = "serve"
    <3>1. Len(handled[d]) = responses[d]
      BY <1>2, <2>1 DEF WireOf
    <3>2. handled'[d] = Append(handled[d], data[d][parsed[d] + 1])
      BY <2>1 DEF HandleByFix, Answer, Hand, ParserTyped
    <3>3. Len(handled'[d]) = Len(handled[d]) + 1
      <4>1. handled[d] \in Seq(1..MaxRequests)
        BY DEF ParserTyped
      <4> QED
        BY <3>2, <4>1
    <3> QED
      BY <3>1, <3>3
  <2>2. CASE pc[d] = "call"
    <3>1. handled' = handled
      BY <2>2 DEF HandleByFix, Answer, Call, At, parserVars
    <3> QED
      BY <2>2, <3>1 DEF WireOf
  <2> QED
    BY <1>2, <2>1, <2>2
<1>4. InPieces(wire[d]) /\ Len(wire[d]) = Parts * responses[d]
  BY <1>2 DEF WireOf
<1>5. CASE HandleByFix(d)
  <2>1. pc'[d] = "call" /\ responses' = responses
    BY <1>5 DEF HandleByFix, Call, Goto, TypeOK
  <2> QED
    BY <1>2, <1>3, <1>4, <2>1 DEF WireOf
<1>6. CASE Answer(d)
  <2>1. /\ pc'[d] = "write" /\ responses'[d] = responses[d] + 1 /\ sent'[d] = 0
        /\ size'[d] = 0 /\ out'[d] = "none"
    BY <1>6 DEF Answer, Respond, Await, Goto, TypeOK
  <2>2. Len(wire[d]) = Parts * ((responses[d] + 1) - 1) + (0 + 0)
    BY <1>2, <1>4
  <2> QED
    BY <1>2, <1>3, <1>4, <2>1, <2>2 DEF WireOf
<1> QED
  BY <1>5, <1>6

\* A response that is written whole is over, another goes on where it was.
LEMMA SendWire ==
    ASSUME TypeOK, ParserTyped, NEW d \in Coroutine, OwnOf(d), WireOf(d),
           UNCHANGED parserVars, SendMore(d) \/ Sent(d)
    PROVE  WireOf(d)'
<1> USE PartsIsPositive, BoundsAreNat
<1>1. d \in owing => d \in owing'
  BY DEF SendMore, Sent, Await, Leave
<1> SUFFICES ASSUME d \notin owing PROVE WireOf(d)'
  BY <1>1 DEF WireOf
<1>2. /\ pc[d] = "write" /\ out[d] # "error"
      /\ UNCHANGED <<wire, handled, responses>>
      /\ responses[d] \in Nat /\ sent[d] \in Nat /\ size[d] \in 0..Parts
  BY DEF SendMore, Sent, At, peerVars, parserVars, TypeOK
<1>3. /\ Len(handled[d]) = responses[d] + 0 /\ InPieces(wire[d]) /\ responses[d] > 0
      /\ Len(wire[d]) = Parts * (responses[d] - 1) + (sent[d] + size[d])
      /\ sent[d] + size[d] <= Parts
  BY <1>2 DEF WireOf
<1>4. CASE SendMore(d)
  <2>1. /\ pc'[d] = "write" /\ sent'[d] = sent[d] + size[d]
        /\ size'[d] = 0 /\ out'[d] = "none"
    BY <1>4 DEF SendMore, Await, Goto, TypeOK
  <2>2. sent'[d] + size'[d] = sent[d] + size[d]
    BY <1>2, <2>1
  <2> QED
    BY <1>2, <1>3, <2>1, <2>2 DEF WireOf
<1>5. CASE Sent(d)
  <2>1. pc'[d] = "serve" /\ sent[d] + size[d] = Parts
    BY <1>5 DEF Sent, Leave, Goto, TypeOK
  <2>2. Len(wire[d]) = Parts * responses[d]
    BY <1>2, <1>3, <2>1
  <2> QED
    BY <1>2, <1>3, <2>1, <2>2 DEF WireOf
<1> QED
  BY <1>4, <1>5

LEMMA BodyWire ==
    ASSUME TypeOK, ParserTyped, NEW d \in Coroutine, OwnOf(d), WireOf(d), HttpBody(d)
    PROVE  WireOf(d)'
<1>1. CASE HandleByFix(d) \/ Answer(d)
  BY <1>1, HandlerWire
<1>2. CASE UNCHANGED parserVars /\ (SendMore(d) \/ Sent(d))
  BY <1>2, SendWire
<1>3. CASE UNCHANGED parserVars /\ (CallAgain(d) \/ Fail(d) \/ SendFailed(d))
  BY <1>3 DEF CallAgain, Fail, SendFailed, connVars, sockVars, peerVars, parserVars,
              WireOf
<1>4. CASE \/ Execute(d) \/ Executed(d)
           \/ /\ UNCHANGED parserVars
              /\ \/ Listen(d) \/ AcceptFailed(d) \/ Recv(d) \/ Close(d)
                 \/ \E e \in Coroutine : Accepted(d, e)
  <2>1. /\ UNCHANGED <<handled, responses, wire>>
        /\ d \in owing => d \in owing'
    BY <1>4 DEF Execute, Executed, Received, NeedMore, Listen, AcceptFailed, Recv, Close,
                Accepted, Await, Leave, sockVars, peerVars, parserVars
  <2>2. /\ pc[d] \notin {"call", "write"}
        /\ pc'[d] \in {"accept", "recv", "read", "serve", "over"}
    BY <1>4 DEF Execute, Executed, Received, NeedMore, Listen, AcceptFailed, Recv, Close,
                Accepted, At, Await, Leave, Goto, TypeOK
  <2> QED
    BY <2>1, <2>2 DEF WireOf
<1> QED
  BY <1>1, <1>2, <1>3, <1>4 DEF HttpBody

\* A write that succeeds appends a run of parts.
LEMMA WrittenRun ==
    ASSUME TypeOK, NEW d \in Coroutine, NEW w, NEW n, WriteResult(d, w, "ok", n)
    PROVE  /\ n \in 1..Parts /\ w.sent + n <= Parts
           /\ wire'[d] = wire[d] \o Run(w.response, w.sent, n)
<1>1. /\ n \in 1..Parts /\ w.sent + n <= Parts
      /\ wire' = [wire EXCEPT ![d] = @ \o [i \in 1..n |-> <<w.response, w.sent + i>>]]
  BY DEF WriteResult
<1>2. wire \in [Coroutine -> Seq(Nat \X (1..Parts))]
  BY DEF TypeOK
<1>3. wire'[d] = wire[d] \o [i \in 1..n |-> <<w.response, w.sent + i>>]
  BY <1>1, <1>2, Zenon
<1> QED
  BY <1>1, <1>3 DEF Run

\* A write puts the next parts of the response in progress on the socket: with
\* none left behind it is the write of the send that waits.
LEMMA CompleteWire ==
    ASSUME TypeOK, ParserTyped, NEW d \in Coroutine, OwnOf(d), WireOf(d), HttpComplete(d)
    PROVE  WireOf(d)'
<1> USE PartsIsPositive, BoundsAreNat
<1>1. UNCHANGED <<owing, responses, handled, pc, sent>>
  BY DEF HttpComplete, Read, CompleteAccept, CompleteRead, CompleteLeftRead,
         CompleteWrite, CompleteLeftWrite, parserVars
<1> SUFFICES ASSUME d \notin owing PROVE WireOf(d)'
  BY <1>1 DEF WireOf
<1>2. ~CompleteLeftRead(d) /\ ~CompleteLeftWrite(d)
  BY DEF CompleteLeftRead, CompleteLeftWrite, OwnOf
<1>3. CASE CompleteAccept(d) \/ CompleteRead(d)
  <2>1. pc[d] \in {"accept", "read"} /\ wire' = wire
    BY <1>3, NoneIsNoOperation DEF CompleteAccept, CompleteRead, OwnOf, peerVars
  <2> QED
    BY <1>1, <2>1 DEF WireOf
<1>4. CASE CompleteWrite(d)
  <2> DEFINE r == responses[d]
             s == sent[d]
             w == [response |-> r, sent |-> s]
  <2>1. /\ pc[d] = "write" /\ op[d] # None /\ op'[d] = None
        /\ r \in Nat /\ s \in Nat /\ wire[d] \in Written
    <3>1. /\ pc \in [Coroutine -> Place] /\ op \in [Coroutine -> Operation \cup {None}]
          /\ responses[d] \in 0..MaxResponses /\ sent[d] \in Nat
          /\ wire[d] \in Seq(Nat \X (1..Parts))
      BY DEF TypeOK
    <3>2. op[d] = "write" /\ op' = [op EXCEPT ![d] = None]
      BY <1>4 DEF CompleteWrite
    <3>3. op[d] # None /\ op'[d] = None
      BY <3>1, <3>2, NoneIsNoOperation
    <3>4. pc[d] = "write"
      BY <3>2, <3>3 DEF OwnOf
    <3> QED
      BY <3>1, <3>3, <3>4 DEF Written
  <2>2. /\ r > 0 /\ size[d] = 0 /\ InPieces(wire[d]) /\ s + size[d] <= Parts
        /\ Len(wire[d]) = Parts * (r - 1) + (s + size[d])
        /\ Len(handled[d]) = r + 0
    BY <2>1 DEF WireOf
  <2>3. PICK result \in {"ok", "error"}, n \in 0..Parts :
           /\ WriteResult(d, w, result, n)
           /\ out' = [out EXCEPT ![d] = result]
           /\ size' = [size EXCEPT ![d] = n]
    BY <1>4 DEF CompleteWrite
  <2>4. out'[d] = result /\ size'[d] = n
    BY <2>3 DEF TypeOK
  <2>5. CASE result = "error"
    <3>1. wire' = wire
      BY <2>3, <2>5 DEF WriteResult
    <3> QED
      BY <1>1, <2>1, <2>2, <2>4, <2>5, <3>1 DEF WireOf
  <2>6. CASE result = "ok"
    <3>1. n \in 1..Parts /\ s + n <= Parts /\ wire'[d] = wire[d] \o Run(r, s, n)
      <4>1. WriteResult(d, w, "ok", n)
        BY <2>3, <2>6
      <4>2. w.response = r /\ w.sent = s
        OBVIOUS
      <4> HIDE DEF w, r, s
      <4>3. /\ n \in 1..Parts /\ w.sent + n <= Parts
            /\ wire'[d] = wire[d] \o Run(w.response, w.sent, n)
        BY <4>1, WrittenRun
      <4> QED
        BY <4>2, <4>3
    <3>2. Reached(wire[d], r, s)
      <4>1. s + size[d] = s
        BY <2>1, <2>2
      <4> QED
        BY <2>1, <2>2, <4>1 DEF Reached
    <3> HIDE DEF r, s, w
    <3>3. Reached(wire'[d], r, s + n)
      BY <3>1, <3>2, MorePieces, Zenon
    <3>4. InPieces(wire'[d]) /\ Len(wire'[d]) = Parts * (r - 1) + (s + n)
      BY <3>3 DEF Reached
    <3> QED
      BY <1>1, <2>1, <2>2, <2>4, <2>6, <3>1, <3>4 DEF WireOf, r, s
  <2> QED
    BY <2>5, <2>6
<1> QED
  BY <1>2, <1>3, <1>4 DEF HttpComplete, Read

WireInv == \A c \in Coroutine : WireOf(c)

LEMMA NextWireInv ==
    TypeOK /\ ParserTyped /\ OwnInv /\ WireInv /\ [HttpNext]_httpVars => WireInv'
<1> SUFFICES ASSUME TypeOK, ParserTyped, OwnInv, WireInv, [HttpNext]_httpVars,
                    NEW d \in Coroutine
             PROVE  WireOf(d)'
  BY DEF WireInv
<1>1. OwnOf(d) /\ WireOf(d)
  BY DEF OwnInv, WireInv
<1>2. CASE HttpBody(d) \/ HttpComplete(d)
  BY <1>1, <1>2, BodyWire, CompleteWire
<1>3. CASE ~HttpBody(d) /\ ~HttpComplete(d)
  <2>1. Kept(d)
    BY <1>3, Frame
  <2> QED
    BY <1>1, <2>1 DEF Kept, WireOf
<1> QED
  BY <1>2, <1>3

\* On a connection where no operation began with a wake-up owed to it, each
\* request handed over gets one response, and the client gets every response
\* once, whole and in order before the next request is handed over.
THEOREM ResponsesInOrder == HttpSpec => []AnsweredInOrder
<1>1. HttpInit => ParserTyped /\ WireInv
  BY PartsIsPositive, BufferHoldsOne, RequestsAreNat
  DEF HttpInit, Init, ParserTyped, WireInv, WireOf, InPieces
<1>2. WireInv => AnsweredInOrder
  BY DEF WireInv, WireOf, InPieces, Piece, AnsweredInOrder
<1> QED
  BY <1>1, <1>2, NextParserTyped, NextWireInv, OwnInvHolds, RefinesConnection,
     TypeCorrect, PTL DEF HttpSpec
=============================================================================
