----------------------------- MODULE Connection -----------------------------
(***************************************************************************)
(* A server and its connections (tcp_server, uds_server: the same code     *)
(* over two kinds of socket), over the scheduler.                          *)
(*                                                                         *)
(* One coroutine listens.  When a client connects it spawns the next       *)
(* listener and becomes that client's connection: it reads, hands what it  *)
(* read to the handler, and the handler sends responses.  Every socket     *)
(* operation is started, then the coroutine yields, and the operation's    *)
(* completion stores its result in variables of the coroutine's stack and  *)
(* resumes it.  Nothing ties a resume to an operation: a coroutine resumed *)
(* for another reason goes on without a result, and the operation it       *)
(* started stays behind, pointing into its stack.                          *)
(*                                                                         *)
(* What the handler does is left open: it may need more data, respond at   *)
(* once, first wait for a FIX response as FixBuilder::create does, or let  *)
(* an exception escape.                                                    *)
(***************************************************************************)
EXTENDS Naturals, Sequences, FiniteSets

CONSTANTS
    Coroutine,     \* the coroutines that may be spawned
    First,         \* the one of them that is spawned first
    Parts,         \* in how many parts a response is written, at most
    MaxReads,      \* bound: pieces a client's data comes in
    MaxResponses,  \* bound: responses sent on one connection
    None,          \* no operation
    MaxQueue       \* Schedule's bound on clients

ASSUME PartsIsPositive == Parts \in Nat \ {0}
ASSUME BoundsAreNat == MaxReads \in Nat /\ MaxResponses \in Nat
ASSUME ScheduleBound == MaxQueue \in Nat
ASSUME NoneIsNoOperation == None \notin {"accept", "read", "write"}

VARIABLES
    status, cos, timer, queue, ios,   \* the scheduler's
    pc,          \* where in handle each coroutine is
    op,          \* the operation its wait started, while it is pending
    out,         \* what was stored in ec: "none" before anything is
    size,        \* what was stored in send's size
    leftReads,   \* how many reads were left behind by waits that are over
    leftWrites,  \* the writes left behind, oldest first
    sent,        \* send_size
    responses,   \* how many responses were begun on the connection
    wire,        \* the parts written to the socket
    reads,       \* how many pieces were read from the socket
    value,       \* value_ of the promise of its call of create, if it is in one
    hangup,      \* the clients that closed their end
    owing        \* history: who began an operation with a wake-up owed to it

schVars == <<status, cos, timer, queue, ios>>
leftVars == <<leftReads, leftWrites>>
sockVars == <<op, out, size, leftVars, owing>>
peerVars == <<wire, reads, hangup>>
connVars == <<pc, sockVars, sent, responses, value, peerVars>>
vars == <<schVars, connVars>>

Sch == INSTANCE Schedule

\* Before accept, in accept, before recv, in recv, in the handler, in the
\* handler's wait for FIX, in send, and after the loop.
Place == {"start", "accept", "recv", "read", "serve", "call", "write", "over"}
Operation == {"accept", "read", "write"}

\* A reply of FIX, by what create does with it: it ends the call, as the response
\* or by the lookup of a MsgType the request lacks, or create waits past it.
Reply == {"ends", "passed"}

\* A write: the response and how much of it had been written before.
Write == [response : Nat, sent : Nat]

TypeOK ==
    /\ pc \in [Coroutine -> Place]
    /\ op \in [Coroutine -> Operation \cup {None}]
    /\ out \in [Coroutine -> {"none", "ok", "error"}]
    /\ size \in [Coroutine -> 0..Parts]
    /\ leftReads \in [Coroutine -> Nat]
    /\ leftWrites \in [Coroutine -> Seq(Write)]
    /\ sent \in [Coroutine -> Nat]
    /\ responses \in [Coroutine -> 0..MaxResponses]
    /\ wire \in [Coroutine -> Seq(Nat \X (1..Parts))]
    /\ reads \in [Coroutine -> 0..MaxReads]
    /\ value \in [Coroutine -> {"none"} \cup Reply]
    /\ hangup \in SUBSET Coroutine
    /\ owing \in SUBSET Coroutine

Init ==
    /\ Sch!Init
    /\ pc = [c \in Coroutine |-> "start"]
    /\ op = [c \in Coroutine |-> None]
    /\ out = [c \in Coroutine |-> "none"]
    /\ size = [c \in Coroutine |-> 0]
    /\ leftReads = [c \in Coroutine |-> 0]
    /\ leftWrites = [c \in Coroutine |-> <<>>]
    /\ sent = [c \in Coroutine |-> 0]
    /\ responses = [c \in Coroutine |-> 0]
    /\ wire = [c \in Coroutine |-> <<>>]
    /\ reads = [c \in Coroutine |-> 0]
    /\ value = [c \in Coroutine |-> "none"]
    /\ hangup = {}
    /\ owing = {}

\* The body is the one that runs, and it is at this place.
At(c, place) == status[c] = "running" /\ ios # "terminated" /\ pc[c] = place
Goto(c, place) == pc' = [pc EXCEPT ![c] = place]

\* A wake-up is on its way to the coroutine that is not of its next operation.
Owed(c) ==
    \/ Sch!Queued(Sch!Resumes \cup {"timeout"}, c)
    \/ leftReads[c] > 0
    \/ leftWrites[c] # <<>>

\* The operation of a wait that ended without it stays with the socket.
Abandon(c) ==
    /\ leftReads' = [leftReads EXCEPT ![c] = IF op[c] = "read" THEN @ + 1 ELSE @]
    /\ leftWrites' = [leftWrites EXCEPT ![c] =
          IF op[c] = "write"
          THEN Append(@, [response |-> responses[c], sent |-> sent[c]])
          ELSE @]

\* Start an operation and yield.
Await(c, o) ==
    /\ Sch!Yield(c)
    /\ Goto(c, o)
    /\ Abandon(c)
    /\ op' = [op EXCEPT ![c] = o]
    /\ out' = [out EXCEPT ![c] = "none"]
    /\ size' = [size EXCEPT ![c] = 0]
    /\ owing' = IF Owed(c) \/ op[c] # None THEN owing \cup {c} ELSE owing

\* Go on after a wait.
Leave(c, place) ==
    /\ Goto(c, place)
    /\ Abandon(c)
    /\ op' = [op EXCEPT ![c] = None]
    /\ UNCHANGED <<out, size, owing>>

-----------------------------------------------------------------------------
(* The server: the first listener, accept and handle.                       *)

\* The constructor spawns the first listener.
Serve(c) ==
    /\ c = First
    /\ \A d \in Coroutine : status[d] = "unborn"
    /\ Sch!Spawn(c)
    /\ UNCHANGED connVars

Listen(c) ==
    /\ At(c, "start")
    /\ Await(c, "accept")
    /\ UNCHANGED <<sent, responses, value, peerVars>>

AcceptFailed(c) ==
    /\ At(c, "accept")
    /\ out[c] = "error"
    /\ Await(c, "accept")
    /\ UNCHANGED <<sent, responses, value, peerVars>>

\* A variant with a bug: the next listener is left for later.
AcceptedAlone(c, next) ==
    /\ At(c, "accept")
    /\ out[c] = "ok"
    /\ Leave(c, "recv")
    /\ UNCHANGED <<schVars, sent, responses, value, peerVars>>

\* The client is taken and the next listener spawned.
Accepted(c, next) ==
    /\ At(c, "accept")
    /\ out[c] = "ok"
    /\ Sch!Spawn(next)
    /\ Leave(c, "recv")
    /\ UNCHANGED <<sent, responses, value, peerVars>>

-----------------------------------------------------------------------------
(* TcpConnection::recv.                                                     *)

Recv(c) ==
    /\ At(c, "recv")
    /\ Await(c, "read")
    /\ UNCHANGED <<sent, responses, value, peerVars>>

\* No error was stored: whatever data_ and size hold goes to the handler.  The
\* size is not initialised, so without a result it may be anything.
Received(c) ==
    /\ At(c, "read")
    /\ out[c] # "error"
    /\ Leave(c, "serve")
    /\ UNCHANGED <<schVars, sent, responses, value, peerVars>>

\* A variant with a bug: recv says true after an error, and the loop goes on.
CloseRetry(c) ==
    /\ At(c, "read")
    /\ out[c] = "error"
    /\ Leave(c, "recv")
    /\ UNCHANGED <<schVars, sent, responses, value, peerVars>>

\* The connection is closed and the loop left.  What close cancels resumes a
\* coroutine that is over.
Close(c) ==
    /\ At(c, "read")
    /\ out[c] = "error"
    /\ Sch!Finish(c)
    /\ Goto(c, "over")
    /\ op' = [op EXCEPT ![c] = None]
    /\ leftReads' = [leftReads EXCEPT ![c] = 0]
    /\ leftWrites' = [leftWrites EXCEPT ![c] = <<>>]
    /\ UNCHANGED <<out, size, owing, sent, responses, value, peerVars>>

-----------------------------------------------------------------------------
(* The handler, HttpBuilder::on_recv or HttpMonitor::on_recv under the parser. *)

NeedMore(c) ==
    /\ At(c, "serve")
    /\ Goto(c, "recv")
    /\ UNCHANGED <<schVars, sockVars, sent, responses, value, peerVars>>

\* FixBuilder::create registers a new promise, sends, and waits with its limit.
Call(c) ==
    /\ At(c, "serve")
    /\ responses[c] < MaxResponses
    /\ Sch!YieldFor(c)
    /\ Goto(c, "call")
    /\ UNCHANGED <<sockVars, sent, responses, value, peerVars>>

\* A reply was passed over.  value_ keeps it, so whatever wakes the coroutine,
\* its limit included, create waits again: for ever, if no other reply comes.
PassedOver(c) == pc[c] = "call" /\ value[c] = "passed"

CallAgain(c) ==
    /\ At(c, "call") /\ PassedOver(c)
    /\ Sch!YieldFor(c)
    /\ UNCHANGED <<pc, sockVars, sent, responses, value, peerVars>>

\* The handler goes on: at once, or when create came back or threw.
Handling(c) == At(c, "serve") \/ (At(c, "call") /\ ~PassedOver(c))

\* session->send: a response, be it an error's.  create's promise is gone.
Respond(c) ==
    /\ Handling(c)
    /\ responses[c] < MaxResponses
    /\ responses' = [responses EXCEPT ![c] = @ + 1]
    /\ sent' = [sent EXCEPT ![c] = 0]
    /\ value' = [value EXCEPT ![c] = "none"]
    /\ Await(c, "write")
    /\ UNCHANGED peerVars

\* An exception that nothing catches: such as that of a body that is no JSON, or
\* before there is a connection that of remote_endpoint, of a client gone already.
Fail(c) ==
    /\ Handling(c) \/ (At(c, "accept") /\ out[c] = "ok")
    /\ Sch!Throw(c)
    /\ UNCHANGED connVars

-----------------------------------------------------------------------------
(* TcpConnection::send.                                                     *)

SendFailed(c) ==
    /\ At(c, "write")
    /\ out[c] = "error"
    /\ Sch!Throw(c)
    /\ UNCHANGED connVars

SendMore(c) ==
    /\ At(c, "write")
    /\ out[c] # "error" /\ sent[c] + size[c] # Parts
    /\ sent' = [sent EXCEPT ![c] = @ + size[c]]
    /\ Await(c, "write")
    /\ UNCHANGED <<responses, value, peerVars>>

Sent(c) ==
    /\ At(c, "write")
    /\ out[c] # "error" /\ sent[c] + size[c] = Parts
    /\ sent' = [sent EXCEPT ![c] = Parts]
    /\ Leave(c, "serve")
    /\ UNCHANGED <<schVars, responses, value, peerVars>>

-----------------------------------------------------------------------------
(* The completions, in the io thread: store the result, resume.  Operations  *)
(* of one kind complete in the order they were started.                      *)

\* A variant with a bug: the completion runs the coroutine itself.
CompleteAcceptInline(c) ==
    /\ Sch!Ready
    /\ op[c] = "accept"
    /\ out' = [out EXCEPT ![c] = "error"]
    /\ op' = [op EXCEPT ![c] = None]
    /\ status' = [status EXCEPT ![c] = "running"]
    /\ UNCHANGED <<cos, timer, queue, ios, pc, size, leftVars, owing, sent,
                   responses, value, peerVars>>

CompleteAccept(c) ==
    /\ Sch!Ready
    /\ op[c] = "accept"
    /\ \/ /\ \E d \in Coroutine : status[d] = "unborn"
          /\ out' = [out EXCEPT ![c] = "ok"]
       \/ out' = [out EXCEPT ![c] = "error"]
    /\ op' = [op EXCEPT ![c] = None]
    /\ Sch!Resume(c)
    /\ UNCHANGED <<pc, size, leftVars, owing, sent, responses, value, peerVars>>

\* What a read finds: a piece of the client's data, or its end.
ReadResult(c, result) ==
    \/ /\ result = "ok"
       /\ reads[c] < MaxReads
       /\ reads' = [reads EXCEPT ![c] = @ + 1]
    \/ result = "error" /\ c \in hangup /\ UNCHANGED reads

\* A variant with a bug: an error is stored and nobody is told.
CompleteReadSilent(c) ==
    /\ Sch!Ready
    /\ op[c] = "read" /\ leftReads[c] = 0
    /\ \E result \in {"ok", "error"} :
          /\ ReadResult(c, result)
          /\ out' = [out EXCEPT ![c] = result]
          /\ IF result = "ok" THEN Sch!Resume(c) ELSE UNCHANGED schVars
    /\ op' = [op EXCEPT ![c] = None]
    /\ UNCHANGED <<pc, size, leftVars, owing, sent, responses, value, wire, hangup>>

CompleteRead(c) ==
    /\ Sch!Ready
    /\ op[c] = "read" /\ leftReads[c] = 0
    /\ \E result \in {"ok", "error"} :
          ReadResult(c, result) /\ out' = [out EXCEPT ![c] = result]
    /\ op' = [op EXCEPT ![c] = None]
    /\ Sch!Resume(c)
    /\ UNCHANGED <<pc, size, leftVars, owing, sent, responses, value, wire, hangup>>

\* A read left behind stores its result where its recv had its variables.  The
\* next recv is called from the same loop and has its own in the same place, so
\* a read left behind answers the recv that is waiting; else no one looks there.
CompleteLeftRead(c) ==
    /\ Sch!Ready
    /\ leftReads[c] > 0
    /\ leftReads' = [leftReads EXCEPT ![c] = @ - 1]
    /\ \E result \in {"ok", "error"} :
          /\ ReadResult(c, result)
          /\ out' = [out EXCEPT ![c] = IF pc[c] = "read" THEN result ELSE @]
    /\ Sch!Resume(c)
    /\ UNCHANGED <<pc, op, size, leftWrites, owing, sent, responses, value, wire, hangup>>

\* What a write does to the socket: part of the rest of the response is
\* written, or an error.  A rest below nothing wraps to a length no socket takes.
WriteResult(c, w, result, n) ==
    \/ /\ result = "ok"
       /\ n \in 1..Parts /\ w.sent + n <= Parts
       /\ wire' = [wire EXCEPT ![c] = @ \o [i \in 1..n |-> <<w.response, w.sent + i>>]]
    \/ /\ result = "error" /\ n = 0
       /\ c \in hangup \/ w.sent > Parts
       /\ UNCHANGED wire

CompleteWrite(c) ==
    /\ Sch!Ready
    /\ op[c] = "write" /\ leftWrites[c] = <<>>
    /\ \E result \in {"ok", "error"}, n \in 0..Parts :
          /\ WriteResult(c, [response |-> responses[c], sent |-> sent[c]], result, n)
          /\ out' = [out EXCEPT ![c] = result]
          /\ size' = [size EXCEPT ![c] = n]
    /\ op' = [op EXCEPT ![c] = None]
    /\ Sch!Resume(c)
    /\ UNCHANGED <<pc, leftVars, owing, sent, responses, value, reads, hangup>>

\* A write left behind stores its result likewise, in the send that is waiting.
CompleteLeftWrite(c) ==
    /\ Sch!Ready
    /\ leftWrites[c] # <<>>
    /\ leftWrites' = [leftWrites EXCEPT ![c] = Tail(@)]
    /\ \E result \in {"ok", "error"}, n \in 0..Parts :
          /\ WriteResult(c, Head(leftWrites[c]), result, n)
          /\ out' = [out EXCEPT ![c] = IF pc[c] = "write" THEN result ELSE @]
          /\ size' = [size EXCEPT ![c] = IF pc[c] = "write" THEN n ELSE @]
    /\ Sch!Resume(c)
    /\ UNCHANGED <<pc, op, leftReads, owing, sent, responses, value, reads, hangup>>

Complete(c) ==
    \/ CompleteAccept(c)
    \/ CompleteRead(c) \/ CompleteLeftRead(c)
    \/ CompleteWrite(c) \/ CompleteLeftWrite(c)

-----------------------------------------------------------------------------
\* A variant with a bug: the promises of calls that are over are still set.
OnRecvLate(c) ==
    /\ pc[c] # "start"
    /\ \E reply \in Reply : value' = [value EXCEPT ![c] = reply]
    /\ Sch!Resume(c)
    /\ UNCHANGED <<pc, sockVars, sent, responses, peerVars>>

\* FixBuilder::on_recv, in QuickFIX's thread: the promise of a call in progress
\* is set, over what it holds already, and the coroutine resumed.
OnRecv(c) ==
    /\ pc[c] = "call"
    /\ \E reply \in Reply : value' = [value EXCEPT ![c] = reply]
    /\ Sch!Resume(c)
    /\ UNCHANGED <<pc, sockVars, sent, responses, peerVars>>

\* The client closes its end.
HangUp(c) ==
    /\ pc[c] \notin {"start", "accept", "over"}
    /\ c \notin hangup
    /\ hangup' = hangup \cup {c}
    /\ UNCHANGED <<schVars, pc, sockVars, sent, responses, value, wire, reads>>

IoThread == Sch!RunHandler /\ UNCHANGED connVars
TimerExpire(c) == Sch!TimerExpire(c) /\ UNCHANGED connVars
Stop == Sch!Stop /\ UNCHANGED connVars

Body(c) ==
    \/ Listen(c) \/ AcceptFailed(c)
    \/ \E d \in Coroutine : Accepted(c, d)
    \/ Recv(c) \/ Received(c) \/ Close(c)
    \/ NeedMore(c) \/ Call(c) \/ CallAgain(c) \/ Respond(c) \/ Fail(c)
    \/ SendFailed(c) \/ SendMore(c) \/ Sent(c)

Next ==
    \/ \E c \in Coroutine :
          \/ Serve(c) \/ Body(c) \/ Complete(c)
          \/ OnRecv(c) \/ HangUp(c) \/ TimerExpire(c)
    \/ IoThread
    \/ Stop

Spec == Init /\ [][Next]_vars

-----------------------------------------------------------------------------
(* Properties.                                                              *)

\* There is always exactly one coroutine that listens, or is about to: no client
\* finds the server deaf, and no two coroutines wait on one acceptor.
OneListener ==
    ios # "terminated" =>
        \/ \A c \in Coroutine : status[c] = "unborn"
        \/ Cardinality({c \in Coroutine :
               status[c] # "unborn" /\ pc[c] \in {"start", "accept"}}) = 1

\* A coroutine waiting for an operation is not forgotten: the operation is still
\* pending or a resume is queued, whatever woke it and left behind before.
WaitIsAnswered ==
    \A c \in Coroutine :
        status[c] = "yield" => op[c] # None \/ Sch!Queued({"resume"}, c)

\* A wait begun with nothing owed to the coroutine ends by its own operation:
\* the result is there when the coroutine goes on.
OwnResult ==
    \A c \in Coroutine :
        /\ status[c] = "running"
        /\ pc[c] \in {"accept", "read", "write"}
        /\ c \notin owing
        => op[c] = None /\ out[c] # "none"

\* The connections, the completions and QuickFIX's thread use the scheduler as
\* its clients may.
ImplementsSchedule == Sch!Spec

\* A client that has gone is noticed: its connection is closed, or an exception
\* ends the process, even when operations were left behind.  A connection whose
\* create keeps passing replies over notices nothing any more.
HangUpEnds ==
    \A c \in Coroutine :
        \/ c \in hangup ~> status[c] = "done" \/ ios # "running"
        \/ []<>PassedOver(c)
=============================================================================
