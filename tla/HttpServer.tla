---------------------------- MODULE HttpServer ----------------------------
(***************************************************************************)
(* The HTTP server on its connections: what a connection reads is handed   *)
(* to its session's parser, the parser calls the handler for each request  *)
(* it completes, and the handler answers, in the coroutine that reads.     *)
(*                                                                         *)
(* The steps are Connection's; this module adds the data.  recv reads into *)
(* one buffer of the connection and hands out a view of it, and the parser *)
(* works on that view while the handler waits for FIX or for its writes.   *)
(* A client may send its next requests without waiting for answers, so a   *)
(* buffer holds one or several; HttpSession has requests cut into pieces.  *)
(***************************************************************************)
EXTENDS Connection

CONSTANTS
    BufferSize,    \* how many requests the buffer holds
    MaxRequests    \* bound: requests a client sends

ASSUME BufferHoldsOne == BufferSize \in Nat \ {0}
ASSUME RequestsAreNat == MaxRequests \in Nat

VARIABLES
    asked,     \* how many requests were read from the socket
    data,      \* data_: the request in each place, 0 where nothing was read yet
    given,     \* recv's size, and then the length of the view handed out
    parsed,    \* how many requests of the view the parser has completed
    handled    \* history: the requests handed to the handler

parserVars == <<asked, data, given, parsed, handled>>
httpVars == <<vars, parserVars>>

HttpTypeOK ==
    /\ TypeOK
    /\ asked \in [Coroutine -> 0..MaxRequests]
    /\ data \in [Coroutine -> [1..BufferSize -> 0..MaxRequests]]
    /\ given \in [Coroutine -> 0..BufferSize]
    /\ parsed \in [Coroutine -> 0..BufferSize]
    /\ \A c \in Coroutine : parsed[c] <= given[c]
    /\ handled \in [Coroutine -> Seq(1..MaxRequests)]

HttpInit ==
    /\ Init
    /\ asked = [c \in Coroutine |-> 0]
    /\ data = [c \in Coroutine |-> [i \in 1..BufferSize |-> 0]]
    /\ given = [c \in Coroutine |-> 0]
    /\ parsed = [c \in Coroutine |-> 0]
    /\ handled = [c \in Coroutine |-> <<>>]

-----------------------------------------------------------------------------
(* Reading into the buffer.                                                 *)

\* n more requests are in the client's data: they overwrite the buffer's front,
\* whoever may still be looking at it.
Fill(c, n) ==
    /\ n \in 1..BufferSize /\ asked[c] + n <= MaxRequests
    /\ asked' = [asked EXCEPT ![c] = @ + n]
    /\ data' = [data EXCEPT ![c] =
          [i \in 1..BufferSize |-> IF i <= n THEN asked[c] + i ELSE @[i]]]

\* A read of this coroutine completes.  One that was left behind stores its size
\* only where a recv is waiting to find it.
Read(c) ==
    /\ CompleteRead(c) \/ CompleteLeftRead(c)
    /\ \/ \E n \in 1..BufferSize :
             /\ reads' # reads
             /\ Fill(c, n)
             /\ given' = IF pc[c] = "read" THEN [given EXCEPT ![c] = n] ELSE given
             /\ parsed' = IF pc[c] = "read" THEN [parsed EXCEPT ![c] = 0] ELSE parsed
       \/ reads' = reads /\ UNCHANGED <<asked, data, given, parsed>>
    /\ UNCHANGED handled

\* A variant with a bug: the parser goes on where it was in the view before.
ExecuteGoing(c) ==
    /\ Received(c)
    /\ \E n \in 0..BufferSize :
          /\ out[c] = "ok" => n = given[c]
          /\ given' = [given EXCEPT ![c] = n]
    /\ UNCHANGED <<asked, data, parsed, handled>>

\* recv hands its buffer out.  Without a result the size is what was on the
\* stack, which may be an old size, and the buffer is what it was.  A size beyond
\* the buffer, whose bytes are no requests, is left out.
Execute(c) ==
    /\ Received(c)
    /\ \E n \in 0..BufferSize :
          /\ out[c] = "ok" => n = given[c]
          /\ given' = [given EXCEPT ![c] = n]
    /\ parsed' = [parsed EXCEPT ![c] = 0]
    /\ UNCHANGED <<asked, data, handled>>

-----------------------------------------------------------------------------
(* HttpSession::on_recv: llhttp_execute over the view.                      *)

\* A variant with a bug: every request of a view is taken from its beginning.
HandFirst(c) ==
    /\ parsed[c] < given[c] /\ data[c][1] # 0
    /\ handled' = [handled EXCEPT ![c] = Append(@, data[c][1])]
    /\ parsed' = [parsed EXCEPT ![c] = @ + 1]
    /\ UNCHANGED <<asked, data, given>>

\* The parser completes the next request, reading the buffer as it is now, and
\* hands it to the handler.
Hand(c) ==
    /\ parsed[c] < given[c] /\ data[c][parsed[c] + 1] # 0
    /\ handled' = [handled EXCEPT ![c] = Append(@, data[c][parsed[c] + 1])]
    /\ parsed' = [parsed EXCEPT ![c] = @ + 1]
    /\ UNCHANGED <<asked, data, given>>

\* A variant with a bug: the loop reads again after the first request.
ExecutedFirst(c) ==
    /\ NeedMore(c)
    /\ UNCHANGED parserVars

\* Nothing is left of the view, or what is left was never read and is no HTTP, or
\* the bound on responses is met.
Executed(c) ==
    /\ NeedMore(c)
    /\ \/ parsed[c] = given[c]
       \/ parsed[c] < given[c] /\ data[c][parsed[c] + 1] = 0
       \/ responses[c] = MaxResponses
    /\ UNCHANGED parserVars

\* The handler of the next request asks FIX.
HandleByFix(c) == Call(c) /\ Hand(c)

\* A variant with a bug: the next request is taken while this one is answered.
AnswerTaking(c) ==
    /\ Respond(c)
    /\ IF parsed[c] < given[c] THEN Hand(c) ELSE UNCHANGED parserVars

\* The handler answers, at once or after FIX did.
Answer(c) ==
    /\ Respond(c)
    /\ IF pc[c] = "serve" THEN Hand(c) ELSE UNCHANGED parserVars

-----------------------------------------------------------------------------
HttpBody(c) ==
    \/ Execute(c) \/ Executed(c) \/ HandleByFix(c) \/ Answer(c)
    \/ /\ \/ Listen(c) \/ AcceptFailed(c)
          \/ \E d \in Coroutine : Accepted(c, d)
          \/ Recv(c) \/ Close(c) \/ CallAgain(c) \/ Fail(c)
          \/ SendFailed(c) \/ SendMore(c) \/ Sent(c)
       /\ UNCHANGED parserVars

HttpComplete(c) ==
    \/ Read(c)
    \/ /\ CompleteAccept(c) \/ CompleteWrite(c) \/ CompleteLeftWrite(c)
       /\ UNCHANGED parserVars

HttpNext ==
    \/ \E c \in Coroutine : HttpBody(c) \/ HttpComplete(c)
    \/ /\ \/ \E c \in Coroutine :
                \/ Serve(c) \/ OnRecv(c) \/ HangUp(c) \/ TimerExpire(c)
          \/ IoThread
          \/ Stop
       /\ UNCHANGED parserVars

HttpSpec == HttpInit /\ [][HttpNext]_httpVars

\* The io thread and the bodies go on and timers are noticed.  Of the clients only
\* this: once one has closed its end what is pending on its socket ends, and until
\* then it takes what is written to it.
HttpFairness ==
    /\ WF_httpVars(IoThread /\ UNCHANGED parserVars)
    /\ \A c \in Coroutine :
          /\ WF_httpVars(HttpBody(c))
          /\ SF_httpVars(TimerExpire(c) /\ UNCHANGED parserVars)
          /\ SF_httpVars(c \in hangup /\ HttpComplete(c))
          /\ SF_httpVars((CompleteWrite(c) \/ CompleteLeftWrite(c)) /\ UNCHANGED parserVars)

HttpFairSpec == HttpSpec /\ HttpFairness

-----------------------------------------------------------------------------
(* Properties.                                                              *)

\* On a connection that never began an operation with a wake-up owed to it the
\* handler gets the client's requests each once and in order, however many came
\* in one piece and however long the handler waited in between; and before the
\* connection reads again it got them all.
HandledInOrder ==
    \A c \in Coroutine \ owing :
        /\ handled[c] = [i \in 1..Len(handled[c]) |-> i]
        /\ pc[c] \in {"recv", "read"} /\ op[c] # None /\ responses[c] < MaxResponses
           => Len(handled[c]) = asked[c]

\* On such a connection each request handed over gets one response, in order, and
\* the client gets every response once and whole before the next request is
\* handed over.
AnsweredInOrder ==
    \A c \in Coroutine \ owing :
        /\ Len(handled[c]) = responses[c] + (IF pc[c] = "call" THEN 1 ELSE 0)
        /\ \A i \in DOMAIN wire[c] :
              wire[c][i] = <<((i - 1) \div Parts) + 1, ((i - 1) % Parts) + 1>>
        /\ pc[c] # "write" => Len(wire[c]) = Parts * responses[c]

\* Every request that was read is answered, unless the connection or the process
\* ends, or the connection began an operation with a wake-up owed to it, or a
\* create of it keeps passing replies over.
EveryRequestEnds ==
    \A c \in Coroutine :
        \/ \A n \in 1..MaxRequests :
              asked[c] >= n ~>
                  \/ responses[c] >= n /\ pc[c] # "write"
                  \/ status[c] = "done" \/ ios # "running" \/ c \in owing
        \/ []<>PassedOver(c)

\* No request is handed to the handler twice.
RequestOnce ==
    \A c \in Coroutine : \A i, j \in DOMAIN handled[c] :
        handled[c][i] = handled[c][j] => i = j
=============================================================================
