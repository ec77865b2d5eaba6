-------------------------- MODULE ConnectionProofs --------------------------
(***************************************************************************)
(* Proofs about Connection, for any coroutines, any parts of a response    *)
(* and any bounds.                                                         *)
(***************************************************************************)
EXTENDS Connection, FiniteSetTheorems, TLAPS

SchP == INSTANCE ScheduleProofs

-----------------------------------------------------------------------------
(* Types.                                                                   *)

\* Starting an operation, or going on after one, keeps types: what a wait
\* leaves behind is a read or a write of the connection's response.
LEMMA AbandonTyped ==
    ASSUME TypeOK, NEW c \in Coroutine, Abandon(c)
    PROVE  /\ leftReads' \in [Coroutine -> Nat]
           /\ leftWrites' \in [Coroutine -> Seq(Write)]
<1> USE BoundsAreNat DEF TypeOK
<1>1. leftReads' \in [Coroutine -> Nat]
  BY DEF Abandon
<1>2. [response |-> responses[c], sent |-> sent[c]] \in Write
  BY DEF Write
<1>3. leftWrites' \in [Coroutine -> Seq(Write)]
  BY <1>2 DEF Abandon
<1> QED
  BY <1>1, <1>3

LEMMA AwaitTyped ==
    ASSUME TypeOK, NEW c \in Coroutine, NEW o \in Operation, Await(c, o)
    PROVE  /\ pc' \in [Coroutine -> Place]
           /\ op' \in [Coroutine -> Operation \cup {None}]
           /\ out' \in [Coroutine -> {"none", "ok", "error"}]
           /\ size' \in [Coroutine -> 0..Parts]
           /\ leftReads' \in [Coroutine -> Nat]
           /\ leftWrites' \in [Coroutine -> Seq(Write)]
           /\ owing' \in SUBSET Coroutine
<1>1. Abandon(c)
  BY DEF Await
<1>2. 0 \in 0..Parts
  BY PartsIsPositive
<1> QED
  BY <1>1, <1>2, AbandonTyped DEF TypeOK, Await, Goto, Place, Operation

LEMMA LeaveTyped ==
    ASSUME TypeOK, NEW c \in Coroutine, NEW place \in Place, Leave(c, place)
    PROVE  /\ pc' \in [Coroutine -> Place]
           /\ op' \in [Coroutine -> Operation \cup {None}]
           /\ out' \in [Coroutine -> {"none", "ok", "error"}]
           /\ size' \in [Coroutine -> 0..Parts]
           /\ leftReads' \in [Coroutine -> Nat]
           /\ leftWrites' \in [Coroutine -> Seq(Write)]
           /\ owing' \in SUBSET Coroutine
<1>1. Abandon(c)
  BY DEF Leave
<1> QED
  BY <1>1, AbandonTyped DEF TypeOK, Leave, Goto

\* The steps of the bodies.
LEMMA BodyTyped ==
    ASSUME TypeOK, NEW c \in Coroutine, Body(c)
    PROVE  TypeOK'
<1>1. CASE Listen(c) \/ AcceptFailed(c) \/ Recv(c)
  <2>1. PICK o \in Operation : Await(c, o)
    BY <1>1 DEF Listen, AcceptFailed, Recv, Operation
  <2> QED
    BY <1>1, <2>1, AwaitTyped
    DEF TypeOK, Listen, AcceptFailed, Recv, peerVars
<1>2. CASE (\E d \in Coroutine : Accepted(c, d)) \/ Received(c)
  <2>1. PICK place \in Place : Leave(c, place)
    BY <1>2 DEF Accepted, Received, Place
  <2> QED
    BY <1>2, <2>1, LeaveTyped DEF TypeOK, Accepted, Received, peerVars
<1>3. CASE Close(c)
  <2>1. <<>> \in Seq(Write)
    OBVIOUS
  <2> QED
    BY <1>3, <2>1 DEF TypeOK, Close, Goto, Place, peerVars
<1>4. CASE NeedMore(c)
  BY <1>4 DEF TypeOK, NeedMore, Goto, Place, sockVars, leftVars, peerVars
<1>5. CASE Call(c) \/ CallAgain(c)
  BY <1>5 DEF TypeOK, Call, CallAgain, Goto, Place, sockVars, leftVars, peerVars
<1>6. CASE Respond(c)
  <2>1. Await(c, "write") /\ "write" \in Operation
    BY <1>6 DEF Respond, Operation
  <2>2. responses' \in [Coroutine -> 0..MaxResponses]
    BY <1>6, BoundsAreNat DEF TypeOK, Respond
  <2>3. value' \in [Coroutine -> {"none"} \cup Reply]
    BY <1>6 DEF TypeOK, Respond
  <2> QED
    BY <1>6, <2>1, <2>2, <2>3, AwaitTyped DEF TypeOK, Respond, peerVars
<1>7. CASE Fail(c) \/ SendFailed(c)
  BY <1>7 DEF TypeOK, Fail, SendFailed, connVars, sockVars, leftVars, peerVars
<1>8. CASE SendMore(c)
  <2>1. Await(c, "write") /\ "write" \in Operation
    BY <1>8 DEF SendMore, Operation
  <2>2. sent' \in [Coroutine -> Nat]
    BY <1>8, PartsIsPositive DEF TypeOK, SendMore
  <2> QED
    BY <1>8, <2>1, <2>2, AwaitTyped DEF TypeOK, SendMore, peerVars
<1>9. CASE Sent(c)
  <2>1. Leave(c, "serve") /\ "serve" \in Place
    BY <1>9 DEF Sent, Place
  <2>2. sent' \in [Coroutine -> Nat]
    BY <1>9, PartsIsPositive DEF TypeOK, Sent
  <2> QED
    BY <1>9, <2>1, <2>2, LeaveTyped DEF TypeOK, Sent, peerVars
<1> QED
  BY <1>1, <1>2, <1>3, <1>4, <1>5, <1>6, <1>7, <1>8, <1>9 DEF Body

\* What a read or a write does to the socket keeps types.
LEMMA ReadTyped ==
    ASSUME TypeOK, NEW c \in Coroutine, NEW result, ReadResult(c, result)
    PROVE  reads' \in [Coroutine -> 0..MaxReads]
<1>1. reads[c] \in 0..MaxReads
  BY DEF TypeOK
<1>2. reads[c] < MaxReads => reads[c] + 1 \in 0..MaxReads
  BY <1>1, BoundsAreNat
<1> QED
  BY <1>2 DEF TypeOK, ReadResult

LEMMA WriteTyped ==
    ASSUME TypeOK, NEW c \in Coroutine, NEW result, NEW n \in 0..Parts,
           NEW w \in Write, WriteResult(c, w, result, n)
    PROVE  wire' \in [Coroutine -> Seq(Nat \X (1..Parts))]
<1>1. CASE UNCHANGED wire
  BY <1>1 DEF TypeOK
<1>2. CASE ~UNCHANGED wire
  <2> DEFINE more == [i \in 1..n |-> <<w.response, w.sent + i>>]
  <2>1. /\ n \in 1..Parts /\ w.sent + n <= Parts
        /\ wire' = [wire EXCEPT ![c] = @ \o more]
    BY <1>2 DEF WriteResult
  <2>2. w.response \in Nat /\ w.sent \in Nat
    BY DEF Write
  <2>3. \A i \in 1..n : <<w.response, w.sent + i>> \in Nat \X (1..Parts)
    BY <2>1, <2>2, PartsIsPositive
  <2>4. more \in Seq(Nat \X (1..Parts))
    BY <2>1, <2>3
  <2>5. wire[c] \o more \in Seq(Nat \X (1..Parts))
    BY <2>4 DEF TypeOK
  <2> QED
    BY <2>1, <2>5 DEF TypeOK
<1> QED
  BY <1>1, <1>2

LEMMA CompleteTyped ==
    ASSUME TypeOK, NEW c \in Coroutine, Complete(c)
    PROVE  TypeOK'
<1>1. CASE CompleteAccept(c)
  BY <1>1 DEF TypeOK, CompleteAccept, leftVars, peerVars
<1>2. CASE CompleteRead(c)
  <2>1. PICK result \in {"ok", "error"} : ReadResult(c, result)
    BY <1>2 DEF CompleteRead
  <2>2. reads' \in [Coroutine -> 0..MaxReads]
    BY <2>1, ReadTyped
  <2> QED
    BY <1>2, <2>2 DEF TypeOK, CompleteRead, leftVars
<1>3. CASE CompleteLeftRead(c)
  <2>1. PICK result \in {"ok", "error"} : ReadResult(c, result)
    BY <1>3 DEF CompleteLeftRead
  <2>2. reads' \in [Coroutine -> 0..MaxReads]
    BY <2>1, ReadTyped
  <2>3. leftReads' \in [Coroutine -> Nat]
    BY <1>3 DEF TypeOK, CompleteLeftRead
  <2> QED
    BY <1>3, <2>2, <2>3 DEF TypeOK, CompleteLeftRead
<1>4. CASE CompleteWrite(c)
  <2> DEFINE w == [response |-> responses[c], sent |-> sent[c]]
  <2>1. w \in Write
    BY BoundsAreNat DEF TypeOK, Write
  <2>2. PICK result \in {"ok", "error"}, n \in 0..Parts :
           /\ WriteResult(c, w, result, n)
           /\ out' = [out EXCEPT ![c] = result]
           /\ size' = [size EXCEPT ![c] = n]
    BY <1>4 DEF CompleteWrite
  <2> HIDE DEF w
  <2>3. wire' \in [Coroutine -> Seq(Nat \X (1..Parts))]
    BY <2>1, <2>2, WriteTyped
  <2> QED
    BY <1>4, <2>2, <2>3 DEF TypeOK, CompleteWrite, leftVars
<1>5. CASE CompleteLeftWrite(c)
  <2> DEFINE w == Head(leftWrites[c])
  <2>1. w \in Write /\ Tail(leftWrites[c]) \in Seq(Write)
    BY <1>5 DEF TypeOK, CompleteLeftWrite
  <2>2. PICK result \in {"ok", "error"}, n \in 0..Parts :
           /\ WriteResult(c, w, result, n)
           /\ out' = [out EXCEPT ![c] = IF pc[c] = "write" THEN result ELSE @]
           /\ size' = [size EXCEPT ![c] = IF pc[c] = "write" THEN n ELSE @]
    BY <1>5 DEF CompleteLeftWrite
  <2> HIDE DEF w
  <2>3. wire' \in [Coroutine -> Seq(Nat \X (1..Parts))]
    BY <2>1, <2>2, WriteTyped
  <2>4. leftWrites' \in [Coroutine -> Seq(Write)]
    BY <1>5, <2>1 DEF TypeOK, CompleteLeftWrite
  <2> QED
    BY <1>5, <2>2, <2>3, <2>4 DEF TypeOK, CompleteLeftWrite
<1> QED
  BY <1>1, <1>2, <1>3, <1>4, <1>5 DEF Complete

LEMMA NextTyped == TypeOK /\ [Next]_vars => TypeOK'
<1> SUFFICES ASSUME TypeOK, [Next]_vars PROVE TypeOK'
  OBVIOUS
<1> USE DEF connVars, sockVars, leftVars, peerVars
<1>1. ASSUME NEW c \in Coroutine, Serve(c) \/ TimerExpire(c) PROVE TypeOK'
  BY <1>1 DEF TypeOK, Serve, TimerExpire
<1>2. ASSUME NEW c \in Coroutine, OnRecv(c) \/ HangUp(c) PROVE TypeOK'
  BY <1>2 DEF TypeOK, OnRecv, HangUp
<1>3. ASSUME NEW c \in Coroutine, Body(c) PROVE TypeOK'
  BY <1>3, BodyTyped
<1>4. ASSUME NEW c \in Coroutine, Complete(c) PROVE TypeOK'
  BY <1>4, CompleteTyped
<1>5. CASE IoThread \/ Stop \/ UNCHANGED vars
  BY <1>5 DEF TypeOK, IoThread, Stop, vars
<1> QED
  BY <1>1, <1>2, <1>3, <1>4, <1>5 DEF Next

\* The type invariant of the connections and their sockets.
THEOREM TypeCorrect == Spec => []TypeOK
<1>1. Init => TypeOK
  BY PartsIsPositive, BoundsAreNat DEF Init, TypeOK, Place
<1> QED
  BY <1>1, NextTyped, PTL DEF Spec

-----------------------------------------------------------------------------
(* The connections are clients of the scheduler.                            *)

\* A step of a body, of a completion, of QuickFIX's thread or of a client is a
\* step of the scheduler or leaves it alone.
LEMMA NextSchedule == TypeOK /\ [Next]_vars => [Sch!Next]_(Sch!vars)
<1> SUFFICES ASSUME TypeOK, [Next]_vars PROVE Sch!Next \/ UNCHANGED Sch!vars
  OBVIOUS
<1> USE DEF Sch!vars, schVars
<1>1. ASSUME NEW c \in Coroutine, Serve(c) PROVE Sch!Next
  BY <1>1 DEF Serve, Sch!Next
<1>2. ASSUME NEW c \in Coroutine, Body(c)
      PROVE  Sch!Next \/ UNCHANGED Sch!vars
  <2>1. CASE Listen(c) \/ AcceptFailed(c) \/ Recv(c) \/ Respond(c) \/ SendMore(c)
    <3>1. Sch!Yield(c)
      BY <2>1 DEF Listen, AcceptFailed, Recv, Respond, SendMore, Await
    <3> QED
      BY <3>1 DEF Sch!Next, Sch!Suspend
  <2>2. ASSUME NEW d \in Coroutine, Accepted(c, d) PROVE Sch!Next
    BY <2>2 DEF Accepted, Sch!Next
  <2>3. CASE Close(c) \/ Call(c) \/ CallAgain(c) \/ Fail(c) \/ SendFailed(c)
    <3>1. Sch!Finish(c) \/ Sch!YieldFor(c) \/ Sch!Throw(c)
      BY <2>3 DEF Close, Call, CallAgain, Fail, SendFailed
    <3> QED
      BY <3>1 DEF Sch!Next, Sch!Suspend
  <2>4. CASE Received(c) \/ NeedMore(c) \/ Sent(c)
    BY <2>4 DEF Received, NeedMore, Sent
  <2> QED
    BY <1>2, <2>1, <2>2, <2>3, <2>4 DEF Body
<1>3. ASSUME NEW c \in Coroutine, Complete(c) \/ OnRecv(c) PROVE Sch!Next
  <2>1. Sch!Resume(c)
    BY <1>3 DEF Complete, OnRecv, CompleteAccept, CompleteRead,
                CompleteLeftRead, CompleteWrite, CompleteLeftWrite
  <2> QED
    BY <2>1 DEF Sch!Next
<1>4. ASSUME NEW c \in Coroutine, HangUp(c) \/ TimerExpire(c)
      PROVE  Sch!Next \/ UNCHANGED Sch!vars
  BY <1>4 DEF HangUp, TimerExpire, Sch!Next
<1>5. CASE IoThread \/ Stop \/ UNCHANGED vars
  BY <1>5 DEF IoThread, Stop, vars, Sch!Next
<1> QED
  BY <1>1, <1>2, <1>3, <1>4, <1>5 DEF Next

\* Whatever the server, its clients and QuickFIX do, the scheduler underneath is
\* the one of Schedule: each step is one of its steps or leaves it alone.
THEOREM RefinesSchedule == Spec => ImplementsSchedule
<1>1. Init => Sch!Init
  BY DEF Init
<1> QED
  BY <1>1, TypeCorrect, NextSchedule, PTL
  DEF Spec, Sch!Spec, ImplementsSchedule

\* The proofs about the scheduler speak of their own instance of it, which is
\* the same.
LEMMA SameActions ==
    /\ Sch!Stop <=> SchP!Stop
    /\ Sch!RunHandler <=> SchP!RunHandler
    /\ \A c \in Coroutine :
          /\ Sch!Spawn(c) <=> SchP!Spawn(c)
          /\ Sch!Resume(c) <=> SchP!Resume(c)
          /\ Sch!Yield(c) <=> SchP!Yield(c)
          /\ Sch!Suspend(c) <=> SchP!Suspend(c)
          /\ Sch!TimerExpire(c) <=> SchP!TimerExpire(c)
<1> USE DEF Sch!Resumes, SchP!Resumes, Sch!Suspended, SchP!Suspended,
            Sch!handler, SchP!handler, Sch!Post, SchP!Post,
            Sch!Idle, SchP!Idle, Sch!Ready, SchP!Ready,
            Sch!CancelInto, SchP!CancelInto, Sch!TimerOff, SchP!TimerOff
<1>1. \A c \in Coroutine :
        /\ Sch!Spawn(c) <=> SchP!Spawn(c)
        /\ Sch!Resume(c) <=> SchP!Resume(c)
        /\ Sch!Yield(c) <=> SchP!Yield(c)
        /\ Sch!Suspend(c) <=> SchP!Suspend(c)
        /\ Sch!TimerExpire(c) <=> SchP!TimerExpire(c)
  BY DEF Sch!Spawn, SchP!Spawn, Sch!Resume, SchP!Resume,
         Sch!TimerExpire, SchP!TimerExpire, Sch!Suspend, SchP!Suspend,
         Sch!Yield, SchP!Yield, Sch!YieldFor, SchP!YieldFor,
         Sch!Finish, SchP!Finish, Sch!Throw, SchP!Throw
<1>2. Sch!Stop <=> SchP!Stop
  BY DEF Sch!Stop, SchP!Stop
<1>3. Sch!RunHandler <=> SchP!RunHandler
  BY DEF Sch!RunHandler, SchP!RunHandler, Sch!RunResume, SchP!RunResume,
         Sch!RunTimeout, SchP!RunTimeout, Sch!RunAborted, SchP!RunAborted
<1> QED
  BY <1>1, <1>2, <1>3

LEMMA SameSchedule ==
    /\ Sch!Init <=> SchP!Init
    /\ [Sch!Next]_(Sch!vars) <=> [SchP!Next]_(SchP!vars)
    /\ \A kinds, c : Sch!Queued(kinds, c) <=> SchP!Holds(queue, kinds, c)
<1>1. Sch!Init <=> SchP!Init
  BY DEF Sch!Init, SchP!Init
<1>2. [Sch!Next]_(Sch!vars) <=> [SchP!Next]_(SchP!vars)
  BY SameActions DEF Sch!Next, SchP!Next, Sch!vars, SchP!vars
<1>3. \A kinds, c : Sch!Queued(kinds, c) <=> SchP!Holds(queue, kinds, c)
  BY DEF Sch!Queued, Sch!Holds, SchP!Holds
<1> QED
  BY <1>1, <1>2, <1>3

\* What is proved of the scheduler for any clients holds here.
LEMMA Scheduled == Spec => []SchP!IInv
<1>1. Spec => SchP!Spec
  BY RefinesSchedule, SameSchedule, PTL
  DEF ImplementsSchedule, Sch!Spec, SchP!Spec
<1>2. SchP!MaxQueueIsNat
  BY ScheduleBound DEF SchP!MaxQueueIsNat
<1>3. SchP!Spec => []SchP!IInv
  BY <1>2, SchP!Inductive
<1> QED
  BY <1>1, <1>3, PTL

-----------------------------------------------------------------------------
(* No waiting coroutine is forgotten.                                       *)

\* A completion posts a resume to its coroutine and to no other.
LEMMA CompletePosts ==
    ASSUME SchP!TypeOK, NEW c \in Coroutine, Sch!Resume(c)
    PROVE  /\ SchP!Holds(queue', {"resume"}, c)
           /\ UNCHANGED <<status, cos, timer, ios>>
<1>1. queue \in Seq(SchP!Handler)
  BY DEF SchP!TypeOK
<1>2. queue' = Append(queue, SchP!handler("resume", c))
  BY DEF Sch!Resume, Sch!Post, Sch!handler, SchP!handler
<1>3. SchP!MaxQueueIsNat
  BY ScheduleBound DEF SchP!MaxQueueIsNat
<1>4. SchP!Holds(queue', {"resume"}, c)
  BY <1>1, <1>2, <1>3, SchP!PostHolds
<1> QED
  BY <1>4 DEF Sch!Resume

\* A body that goes on to wait has started an operation; a step of another
\* coroutine leaves a waiting one's operation alone.
LEMMA BodyOps ==
    ASSUME TypeOK, SchP!TypeOK, NEW c \in Coroutine, Body(c),
           NEW d \in Coroutine, status'[d] = "yield"
    PROVE  \/ d = c /\ op'[d] # None
           \/ d # c /\ status[d] = "yield" /\ op'[d] = op[d]
<1> DEFINE Goal == \/ d = c /\ op'[d] # None
                   \/ d # c /\ status[d] = "yield" /\ op'[d] = op[d]
<1> USE DEF TypeOK, SchP!TypeOK, At
<1>1. ASSUME NEW o \in Operation, Await(c, o) PROVE Goal
  BY <1>1, NoneIsNoOperation DEF Await, Operation, Sch!Yield
<1>2. CASE Listen(c) \/ AcceptFailed(c) \/ Recv(c) \/ Respond(c) \/ SendMore(c)
  BY <1>1, <1>2
  DEF Listen, AcceptFailed, Recv, Respond, SendMore, Operation
<1>3. ASSUME NEW e \in Coroutine, Accepted(c, e) PROVE Goal
  BY <1>3 DEF Accepted, Leave, Sch!Spawn
<1>4. CASE Received(c) \/ Sent(c)
  BY <1>4 DEF Received, Sent, Leave, schVars
<1>5. CASE Close(c)
  BY <1>5 DEF Close, Sch!Finish
<1>6. CASE NeedMore(c) \/ Call(c) \/ CallAgain(c) \/ Fail(c) \/ SendFailed(c)
  BY <1>6 DEF NeedMore, Call, CallAgain, Fail, SendFailed, Sch!YieldFor, Sch!Throw,
              schVars, connVars, sockVars
<1> QED
  BY <1>2, <1>3, <1>4, <1>5, <1>6 DEF Body

\* The steps that are no body's: a completion takes an operation and posts.
LEMMA OtherOps ==
    ASSUME TypeOK, SchP!TypeOK, [Next]_vars, ~\E c \in Coroutine : Body(c),
           NEW d \in Coroutine, status'[d] = "yield"
    PROVE  /\ status[d] = "yield"
           /\ op'[d] = op[d] \/ SchP!Holds(queue', {"resume"}, d)
<1> DEFINE Goal == /\ status[d] = "yield"
                   /\ op'[d] = op[d] \/ SchP!Holds(queue', {"resume"}, d)
<1> USE DEF TypeOK, SchP!TypeOK
<1>1. ASSUME NEW c \in Coroutine, Serve(c) PROVE Goal
  BY <1>1 DEF Serve, Sch!Spawn, connVars, sockVars
<1>2. ASSUME NEW c \in Coroutine, Complete(c) PROVE Goal
  <2>1. /\ Sch!Resume(c)
        /\ op' = op \/ op' = [op EXCEPT ![c] = None]
    BY <1>2 DEF Complete, CompleteAccept, CompleteRead, CompleteLeftRead,
                CompleteWrite, CompleteLeftWrite
  <2> QED
    BY <2>1, CompletePosts
<1>3. ASSUME NEW c \in Coroutine, OnRecv(c) \/ HangUp(c) \/ TimerExpire(c) PROVE Goal
  BY <1>3 DEF OnRecv, HangUp, TimerExpire, Sch!Resume, Sch!TimerExpire,
              schVars, connVars, sockVars
<1>4. CASE IoThread
  BY <1>4 DEF IoThread, Sch!RunHandler, Sch!RunResume, Sch!RunTimeout,
              Sch!RunAborted, connVars, sockVars
<1>5. CASE Stop \/ UNCHANGED vars
  BY <1>5 DEF Stop, Sch!Stop, vars, schVars, connVars, sockVars
<1> QED
  BY <1>1, <1>2, <1>3, <1>4, <1>5 DEF Next

\* A resume that is queued stays queued while its coroutine waits.
LEMMA NextWaitIsAnswered ==
    TypeOK /\ SchP!IInv /\ WaitIsAnswered /\ [Next]_vars => WaitIsAnswered'
<1> SUFFICES ASSUME TypeOK, SchP!IInv, WaitIsAnswered, [Next]_vars,
                    NEW d \in Coroutine, status'[d] = "yield"
             PROVE  op'[d] # None \/ SchP!Holds(queue', {"resume"}, d)
  BY DEF WaitIsAnswered, Sch!Queued, Sch!Holds, SchP!Holds
<1>1. CASE \E c \in Coroutine : Body(c) /\ d = c /\ op'[d] # None
  BY <1>1
<1>2. CASE ~\E c \in Coroutine : Body(c) /\ d = c /\ op'[d] # None
  <2>1. /\ status[d] = "yield"
        /\ op'[d] = op[d] \/ SchP!Holds(queue', {"resume"}, d)
    BY <1>2, BodyOps, OtherOps DEF SchP!IInv
  <2>2. op[d] # None \/ SchP!Holds(queue, {"resume"}, d)
    BY <2>1, SameSchedule DEF WaitIsAnswered
  <2>3. [SchP!Next]_(SchP!vars)
    BY NextSchedule, SameSchedule
  <2>4. d \in cos
    BY <2>1 DEF SchP!IInv, SchP!SuspendedIsKept, SchP!Suspended
  <2>5. SchP!MaxQueueIsNat
    BY ScheduleBound DEF SchP!MaxQueueIsNat
  <2>6. SchP!Holds(queue, {"resume"}, d) => SchP!Holds(queue', {"resume"}, d)
    BY <2>3, <2>4, <2>5, SchP!WakerSurvives DEF SchP!IInv
  <2> QED
    BY <2>1, <2>2, <2>6
<1> QED
  BY <1>1, <1>2

\* A coroutine in yield is never forgotten: its operation is pending or a
\* resume is queued for it.
THEOREM WaitsAreAnswered == Spec => []WaitIsAnswered
<1>1. Init => WaitIsAnswered
  BY DEF Init, Sch!Init, WaitIsAnswered
<1> QED
  BY <1>1, TypeCorrect, Scheduled, NextWaitIsAnswered, PTL DEF Spec

-----------------------------------------------------------------------------
(* One listener.                                                            *)

Listening == {c \in Coroutine : status[c] # "unborn" /\ pc[c] \in {"start", "accept"}}

\* Before the server is made there is no coroutine; from then on, as long as no
\* exception ended the process, exactly one listens.
ListenerInv ==
    /\ TypeOK
    /\ \A c \in Coroutine : status[c] = "unborn" => pc[c] = "start"
    /\ ios # "terminated" =>
          \/ \A c \in Coroutine : status[c] = "unborn"
          \/ \E l \in Coroutine : Listening = {l}

\* A step that makes no coroutine listen or stop listening.
LEMMA SameListening ==
    ASSUME ListenerInv, TypeOK',
           ios' # "terminated" => ios # "terminated",
           \A c \in Coroutine : status'[c] = "unborn" <=> status[c] = "unborn",
           \A c \in Coroutine : pc'[c] \in {"start", "accept"} <=> pc[c] \in {"start", "accept"},
           \A c \in Coroutine : status[c] = "unborn" => pc'[c] = pc[c]
    PROVE  ListenerInv'
<1>1. Listening' = Listening
  BY DEF Listening
<1> QED
  BY <1>1 DEF ListenerInv

LEMMA NextListenerInv == ListenerInv /\ SchP!IInv /\ [Next]_vars => ListenerInv'
<1> SUFFICES ASSUME ListenerInv, SchP!IInv, [Next]_vars PROVE ListenerInv'
  OBVIOUS
<1>0. TypeOK /\ TypeOK'
  BY NextTyped DEF ListenerInv
<1> USE DEF SchP!IInv, SchP!TypeOK
<1>1. ASSUME NEW c \in Coroutine, Serve(c) PROVE ListenerInv'
  <2>1. /\ \A d \in Coroutine : status[d] = "unborn" /\ pc[d] = "start"
        /\ status' = [status EXCEPT ![c] = "ready"]
        /\ pc' = pc
    BY <1>1 DEF Serve, Sch!Spawn, connVars, ListenerInv
  <2>2. Listening' = {c}
    BY <2>1 DEF Listening
  <2> QED
    BY <1>0, <2>1, <2>2 DEF ListenerInv
<1>2. ASSUME NEW c \in Coroutine, NEW d \in Coroutine, Accepted(c, d)
      PROVE  ListenerInv'
  <2>1. /\ ios # "terminated" /\ status[c] = "running" /\ pc[c] = "accept"
        /\ status[d] = "unborn" /\ status' = [status EXCEPT ![d] = "ready"]
        /\ pc' = [pc EXCEPT ![c] = "recv"]
    BY <1>2 DEF Accepted, At, Leave, Goto, Sch!Spawn
  <2>2. PICK l \in Coroutine : Listening = {l}
    BY <2>1 DEF ListenerInv
  <2>3. Listening = {c} /\ pc[d] = "start"
    BY <2>1, <2>2 DEF Listening, ListenerInv
  <2>4. Listening' = {d}
    <3>1. d \in Listening'
      BY <1>0, <2>1, <2>3 DEF Listening, TypeOK
    <3>2. ASSUME NEW e \in Coroutine, e # d, e \in Listening' PROVE FALSE
      BY <1>0, <2>1, <2>3, <3>2 DEF Listening, TypeOK
    <3> QED
      BY <3>1, <3>2 DEF Listening
  <2> QED
    BY <1>0, <2>1, <2>4 DEF ListenerInv, TypeOK
<1>3. ASSUME NEW c \in Coroutine, Body(c), ~\E d \in Coroutine : Accepted(c, d)
      PROVE  ListenerInv'
  <2>1. /\ status[c] = "running"
        /\ \E s \in {"running", "yield", "yield_for", "done", "failed"} :
              status' = [status EXCEPT ![c] = s]
        /\ ios' = ios \/ ios' = "terminated"
    <3>1. CASE Listen(c) \/ AcceptFailed(c) \/ Recv(c) \/ Respond(c) \/ SendMore(c)
      BY <3>1 DEF Listen, AcceptFailed, Recv, Respond, SendMore, Await, Sch!Yield
    <3>2. CASE Close(c) \/ Call(c) \/ CallAgain(c) \/ Fail(c) \/ SendFailed(c)
      BY <3>2 DEF Close, Call, CallAgain, Fail, SendFailed, Sch!Finish, Sch!YieldFor,
                  Sch!Throw
    <3>3. CASE Received(c) \/ NeedMore(c) \/ Sent(c)
      BY <3>3 DEF Received, NeedMore, Sent, At, schVars
    <3> QED
      BY <1>3, <3>1, <3>2, <3>3 DEF Body
  <2>2. \/ pc[c] \in {"start", "accept"} /\ pc' = [pc EXCEPT ![c] = "accept"]
        \/ /\ pc[c] \notin {"start", "accept"}
           /\ \E place \in {"recv", "read", "serve", "call", "write", "over"} :
                 pc' = [pc EXCEPT ![c] = place]
        \/ pc' = pc
    BY <1>3 DEF Body, Listen, AcceptFailed, Recv, Respond, SendMore, Await,
                Close, Call, CallAgain, Fail, SendFailed, Received, NeedMore, Sent,
                Handling, At, Leave, Goto, connVars
  <2>3. \A d \in Coroutine : status'[d] = "unborn" <=> status[d] = "unborn"
    BY <2>1
  <2>4. \A d \in Coroutine : pc'[d] \in {"start", "accept"} <=> pc[d] \in {"start", "accept"}
    BY <1>0, <2>2 DEF TypeOK
  <2>5. \A d \in Coroutine : status[d] = "unborn" => pc'[d] = pc[d]
    BY <1>0, <2>1, <2>2 DEF TypeOK
  <2>6. ios' # "terminated" => ios # "terminated"
    BY <2>1
  <2> QED
    BY <1>0, <2>3, <2>4, <2>5, <2>6, SameListening
<1>4. ASSUME NEW c \in Coroutine, Complete(c) \/ OnRecv(c) PROVE ListenerInv'
  <2>1. Sch!Resume(c) /\ pc' = pc
    BY <1>4 DEF Complete, OnRecv, CompleteAccept, CompleteRead,
                CompleteLeftRead, CompleteWrite, CompleteLeftWrite, connVars
  <2> QED
    BY <1>0, <2>1, SameListening DEF Sch!Resume
<1>5. ASSUME NEW c \in Coroutine, HangUp(c) \/ TimerExpire(c) PROVE ListenerInv'
  BY <1>0, <1>5, SameListening
  DEF HangUp, TimerExpire, Sch!TimerExpire, schVars, connVars
<1>6. CASE IoThread
  <2>1. pc' = pc /\ ios' = ios
    BY <1>6 DEF IoThread, connVars, Sch!RunHandler, Sch!RunResume,
                Sch!RunTimeout, Sch!RunAborted
  <2>2. \A d \in Coroutine : status'[d] = "unborn" <=> status[d] = "unborn"
    BY <1>6 DEF IoThread, Sch!RunHandler, Sch!RunResume, Sch!RunTimeout,
                Sch!RunAborted, SchP!KeptIsLive, SchP!Suspended
  <2> QED
    BY <1>0, <2>1, <2>2, SameListening
<1>7. CASE Stop \/ UNCHANGED vars
  BY <1>0, <1>7, SameListening DEF Stop, Sch!Stop, vars, schVars, connVars
<1> QED
  BY <1>1, <1>2, <1>3, <1>4, <1>5, <1>6, <1>7 DEF Next, Body

\* The server always listens, and with one coroutine only, whatever errors
\* accept returns and however its connections end, until the process ends.
THEOREM ServerListens == Spec => []OneListener
<1>1. Init => ListenerInv
  BY PartsIsPositive, BoundsAreNat
  DEF Init, Sch!Init, ListenerInv, TypeOK, Place
<1>2. ListenerInv => OneListener
  <2>1. ASSUME NEW l \in Coroutine, Listening = {l} PROVE Cardinality(Listening) = 1
    BY <2>1, FS_Singleton
  <2> QED
    BY <2>1 DEF ListenerInv, OneListener, Listening
<1> QED
  BY <1>1, <1>2, Scheduled, NextListenerInv, PTL DEF Spec

-----------------------------------------------------------------------------
(* A wait begun with nothing owed ends by its own operation.                *)

Woken(c) == SchP!Holds(queue, SchP!Wakers, c)

\* The operation is pending and nothing is on its way to wake the coroutine.
Pending(c) == op[c] # None /\ status[c] = "yield" /\ ~Woken(c)

\* The operation is complete and its result is stored.
Answered(c) == op[c] = None /\ out[c] # "none"

\* An operation belongs to the place where its coroutine waits; one that never
\* began an operation with a wake-up owed to it left none behind, and its
\* operation is pending undisturbed or has its result.
OwnOf(c) ==
    /\ op[c] # None => op[c] = pc[c]
    /\ c \notin owing =>
          /\ leftReads[c] = 0 /\ leftWrites[c] = <<>>
          /\ pc[c] \in Operation => Pending(c) \/ Answered(c)

OwnInv == \A c \in Coroutine : OwnOf(c)

\* A step that leaves the coroutine's variables alone and does not wake it.
LEMMA OwnFrame ==
    ASSUME NEW d \in Coroutine, OwnOf(d),
           op'[d] = op[d], pc'[d] = pc[d], out'[d] = out[d],
           leftReads'[d] = leftReads[d], leftWrites'[d] = leftWrites[d],
           d \in owing' <=> d \in owing,
           status[d] = "yield" /\ ~Woken(d) => status'[d] = "yield" /\ ~Woken(d)'
    PROVE  OwnOf(d)'
BY DEF OwnOf, Pending, Answered

\* Starting an operation: what is owed is recorded, else the wait is undisturbed.
LEMMA AwaitOwn ==
    ASSUME TypeOK, SchP!TypeOK, NEW d \in Coroutine, OwnOf(d),
           NEW o \in Operation, Await(d, o)
    PROVE  OwnOf(d)'
<1> USE DEF TypeOK, SchP!TypeOK
<1>1. /\ status'[d] = "yield" /\ queue' = queue
      /\ pc'[d] = o /\ op'[d] = o
      /\ leftReads'[d] = IF op[d] = "read" THEN leftReads[d] + 1 ELSE leftReads[d]
      /\ op[d] # "write" => leftWrites'[d] = leftWrites[d]
      /\ owing' = IF Owed(d) \/ op[d] # None THEN owing \cup {d} ELSE owing
  BY DEF Await, Abandon, Goto, Sch!Yield
<1>2. CASE d \notin owing'
  <2>1. ~Owed(d) /\ op[d] = None /\ d \notin owing
    BY <1>1, <1>2
  <2>2. ~Woken(d)
    BY <2>1, SameSchedule
    DEF Owed, Woken, SchP!Wakers, Sch!Resumes, SchP!Resumes
  <2>3. ~Woken(d)'
    BY <1>1, <2>2 DEF Woken, SchP!Holds
  <2>4. leftReads'[d] = 0 /\ leftWrites'[d] = <<>>
    BY <1>1, <2>1, NoneIsNoOperation DEF OwnOf
  <2> QED
    BY <1>1, <2>3, <2>4, NoneIsNoOperation DEF OwnOf, Pending, Operation
<1>3. CASE d \in owing'
  BY <1>1, <1>3 DEF OwnOf
<1> QED
  BY <1>2, <1>3

\* Going on after a wait: nothing is left behind that was not recorded.
LEMMA LeaveOwn ==
    ASSUME TypeOK, NEW d \in Coroutine, OwnOf(d), status[d] = "running",
           NEW place \in Place \ Operation, Leave(d, place)
    PROVE  OwnOf(d)'
<1>1. /\ pc'[d] = place /\ op'[d] = None /\ owing' = owing
      /\ leftReads'[d] = IF op[d] = "read" THEN leftReads[d] + 1 ELSE leftReads[d]
      /\ op[d] # "write" => leftWrites'[d] = leftWrites[d]
  BY DEF TypeOK, Leave, Goto, Abandon
<1>2. d \notin owing => op[d] = None
  BY DEF TypeOK, OwnOf, Pending, Answered
<1>3. d \notin owing => leftReads'[d] = 0 /\ leftWrites'[d] = <<>>
  BY <1>1, <1>2, NoneIsNoOperation DEF OwnOf
<1> QED
  BY <1>1, <1>3 DEF OwnOf

\* The steps of a coroutine's own body.
LEMMA BodyOwn ==
    ASSUME TypeOK, SchP!TypeOK, NEW d \in Coroutine, OwnOf(d), Body(d)
    PROVE  OwnOf(d)'
<1>1. CASE Listen(d) \/ AcceptFailed(d) \/ Recv(d) \/ Respond(d) \/ SendMore(d)
  <2>1. PICK o \in Operation : Await(d, o)
    BY <1>1 DEF Listen, AcceptFailed, Recv, Respond, SendMore, Operation
  <2> QED
    BY <2>1, AwaitOwn
<1>2. CASE (\E e \in Coroutine : Accepted(d, e)) \/ Received(d) \/ Sent(d)
  <2>1. PICK place \in Place \ Operation : Leave(d, place)
    BY <1>2 DEF Accepted, Received, Sent, Place, Operation
  <2>2. status[d] = "running"
    BY <1>2 DEF Accepted, Received, Sent, At
  <2> QED
    BY <2>1, <2>2, LeaveOwn
<1>3. CASE Close(d)
  BY <1>3 DEF TypeOK, Close, Goto, OwnOf, Operation
<1>4. CASE NeedMore(d) \/ Call(d)
  <2>1. /\ pc[d] = "serve"
        /\ pc' = [pc EXCEPT ![d] = "recv"] \/ pc' = [pc EXCEPT ![d] = "call"]
        /\ UNCHANGED <<op, leftReads, leftWrites, owing>>
    BY <1>4 DEF NeedMore, Call, At, Goto, sockVars, leftVars
  <2>2. op[d] = None
    BY <2>1 DEF TypeOK, OwnOf, Operation
  <2> QED
    BY <2>1, <2>2 DEF TypeOK, OwnOf, Operation
<1>5. CASE CallAgain(d) \/ Fail(d) \/ SendFailed(d)
  <2>1. status[d] = "running" /\ UNCHANGED <<pc, sockVars>>
    BY <1>5 DEF CallAgain, Fail, SendFailed, Handling, At, connVars
  <2> QED
    BY <2>1, OwnFrame DEF sockVars, leftVars
<1> QED
  BY <1>1, <1>2, <1>3, <1>4, <1>5 DEF Body

\* A step of another body changes nothing of the coroutine's and wakes it not.
LEMMA OtherBodyOwn ==
    ASSUME TypeOK, SchP!TypeOK, NEW d \in Coroutine, OwnOf(d),
           NEW c \in Coroutine, c # d, Body(c)
    PROVE  OwnOf(d)'
<1> USE DEF TypeOK, SchP!TypeOK
<1> DEFINE Same == /\ op'[d] = op[d] /\ pc'[d] = pc[d] /\ out'[d] = out[d]
                   /\ leftReads'[d] = leftReads[d] /\ leftWrites'[d] = leftWrites[d]
                   /\ d \in owing' <=> d \in owing
           Quiet == status[d] = "yield" /\ ~Woken(d) =>
                       status'[d] = "yield" /\ ~Woken(d)'
<1>0. SchP!MaxQueueIsNat
  BY ScheduleBound DEF SchP!MaxQueueIsNat
<1>1. ASSUME NEW o, Await(c, o) PROVE Same
  BY <1>1 DEF Await, Abandon, Goto
<1>2. ASSUME NEW place, Leave(c, place) PROVE Same
  BY <1>2 DEF Leave, Abandon, Goto
<1>3. Same
  <2>1. CASE Listen(c) \/ AcceptFailed(c) \/ Recv(c) \/ Respond(c) \/ SendMore(c)
    BY <1>1, <2>1 DEF Listen, AcceptFailed, Recv, Respond, SendMore
  <2>2. CASE (\E e \in Coroutine : Accepted(c, e)) \/ Received(c) \/ Sent(c)
    BY <1>2, <2>2 DEF Accepted, Received, Sent
  <2>3. CASE Close(c)
    BY <2>3 DEF Close, Goto
  <2>4. CASE NeedMore(c) \/ Call(c)
    BY <2>4 DEF NeedMore, Call, Goto, sockVars, leftVars
  <2>5. CASE CallAgain(c) \/ Fail(c) \/ SendFailed(c)
    BY <2>5 DEF CallAgain, Fail, SendFailed, connVars, sockVars, leftVars
  <2> QED
    BY <2>1, <2>2, <2>3, <2>4, <2>5 DEF Body
<1>4. ASSUME SchP!Suspend(c) PROVE Quiet
  <2>1. status'[d] = status[d]
    BY <1>4 DEF SchP!Suspend, SchP!Yield, SchP!YieldFor, SchP!Finish, SchP!Throw
  <2>2. ~Woken(d) => ~Woken(d)'
    BY <1>0, <1>4, SchP!OthersWakeNone DEF Woken, SchP!Queued
  <2> QED
    BY <2>1, <2>2
<1>5. ASSUME NEW e \in Coroutine, SchP!Spawn(e) PROVE Quiet
  <2>1. status[d] = "yield" => e # d /\ status'[d] = "yield"
    BY <1>5 DEF SchP!Spawn
  <2>2. e # d /\ ~Woken(d) => ~Woken(d)'
    BY <1>0, <1>5, SchP!OthersWakeNone DEF Woken, SchP!Queued
  <2> QED
    BY <2>1, <2>2
<1>6. ASSUME UNCHANGED schVars PROVE Quiet
  BY <1>6 DEF schVars, Woken, SchP!Holds
<1>7. \/ SchP!Suspend(c) \/ UNCHANGED schVars
      \/ \E e \in Coroutine : SchP!Spawn(e)
  BY SameActions
  DEF Body, Listen, AcceptFailed, Accepted, Recv, Received, Close, NeedMore, Call,
      CallAgain, Respond, Fail, SendFailed, SendMore, Sent, Await, Sch!Suspend
<1>8. Quiet
  BY <1>4, <1>5, <1>6, <1>7
<1> QED
  BY <1>3, <1>8, OwnFrame

\* The completions: an own operation's stores its result; a coroutine that left
\* none behind has no others.
LEMMA CompleteOwn ==
    ASSUME TypeOK, SchP!TypeOK, NEW d \in Coroutine, OwnOf(d),
           NEW c \in Coroutine, Complete(c) \/ OnRecv(c)
    PROVE  OwnOf(d)'
<1> USE DEF TypeOK, SchP!TypeOK
<1>1. Sch!Resume(c)
  BY DEF Complete, OnRecv, CompleteAccept, CompleteRead, CompleteLeftRead,
         CompleteWrite, CompleteLeftWrite
<1>2. CASE c # d
  <2>0. SchP!MaxQueueIsNat
    BY ScheduleBound DEF SchP!MaxQueueIsNat
  <2>1. status' = status
    BY <1>1 DEF Sch!Resume
  <2>2. ~Woken(d) => ~Woken(d)'
    BY <1>1, <1>2, <2>0, SameActions, SchP!OthersWakeNone DEF Woken, SchP!Queued
  <2>3. /\ op'[d] = op[d] /\ pc'[d] = pc[d] /\ out'[d] = out[d]
        /\ leftReads'[d] = leftReads[d] /\ leftWrites'[d] = leftWrites[d]
        /\ owing' = owing
    BY <1>2
    DEF Complete, OnRecv, CompleteAccept, CompleteRead, CompleteLeftRead,
        CompleteWrite, CompleteLeftWrite, connVars, sockVars, leftVars
  <2> QED
    BY <2>1, <2>2, <2>3, OwnFrame
<1>3. CASE c = d /\ OnRecv(d)
  BY <1>3 DEF OnRecv, OwnOf, Operation, connVars, sockVars, leftVars
<1>4. CASE c = d /\ (CompleteAccept(d) \/ CompleteRead(d) \/ CompleteWrite(d))
  <2>1. /\ op'[d] = None /\ out'[d] \in {"ok", "error"}
        /\ UNCHANGED <<pc, leftReads, leftWrites, owing>>
    BY <1>4 DEF CompleteAccept, CompleteRead, CompleteWrite, leftVars
  <2> QED
    BY <2>1 DEF OwnOf, Answered
<1>5. CASE c = d /\ (CompleteLeftRead(d) \/ CompleteLeftWrite(d))
  <2>1. d \in owing
    BY <1>5 DEF CompleteLeftRead, CompleteLeftWrite, OwnOf
  <2>2. UNCHANGED <<pc, op, owing>>
    BY <1>5 DEF CompleteLeftRead, CompleteLeftWrite
  <2> QED
    BY <2>1, <2>2 DEF OwnOf
<1> QED
  BY <1>2, <1>3, <1>4, <1>5 DEF Complete

LEMMA NextOwnInv == TypeOK /\ SchP!IInv /\ OwnInv /\ [Next]_vars => OwnInv'
<1> SUFFICES ASSUME TypeOK, SchP!IInv, OwnInv, [Next]_vars, NEW d \in Coroutine
             PROVE  OwnOf(d)'
  BY DEF OwnInv
<1>0. /\ OwnOf(d) /\ SchP!TypeOK /\ SchP!PendingTimerIsAwaited
      /\ SchP!MaxQueueIsNat
  BY ScheduleBound DEF OwnInv, SchP!IInv, SchP!MaxQueueIsNat
<1>1. ASSUME NEW c \in Coroutine, Body(c) PROVE OwnOf(d)'
  BY <1>0, <1>1, BodyOwn, OtherBodyOwn
<1>2. ASSUME NEW c \in Coroutine, Complete(c) \/ OnRecv(c) PROVE OwnOf(d)'
  BY <1>0, <1>2, CompleteOwn
<1>3. ASSUME NEW c \in Coroutine, Serve(c) \/ TimerExpire(c) PROVE OwnOf(d)'
  <2>1. SchP!Spawn(c) \/ SchP!TimerExpire(c)
    BY <1>3, SameActions DEF Serve, TimerExpire
  <2>2. status[d] = "yield" => c # d
    BY <1>0, <2>1 DEF SchP!Spawn, SchP!TimerExpire, SchP!PendingTimerIsAwaited
  <2>3. status[d] = "yield" => status'[d] = "yield"
    BY <1>0, <2>1, <2>2 DEF SchP!Spawn, SchP!TimerExpire, SchP!TypeOK
  <2>4. c # d /\ ~Woken(d) => ~Woken(d)'
    BY <1>0, <2>1, SchP!OthersWakeNone DEF Woken, SchP!Queued
  <2>5. UNCHANGED connVars
    BY <1>3 DEF Serve, TimerExpire
  <2> QED
    BY <1>0, <2>2, <2>3, <2>4, <2>5, OwnFrame DEF connVars, sockVars, leftVars
<1>4. ASSUME NEW c \in Coroutine, HangUp(c) PROVE OwnOf(d)'
  BY <1>0, <1>4, OwnFrame
  DEF HangUp, schVars, sockVars, leftVars, Woken, SchP!Holds
<1>5. CASE IoThread
  <2>1. SchP!RunHandler /\ UNCHANGED connVars
    BY <1>5, SameActions DEF IoThread
  <2>2. ~Woken(d) => ~Woken(d)' /\ status'[d] = status[d]
    BY <1>0, <2>1, SchP!HandlersWakeOwn DEF Woken, SchP!Queued
  <2> QED
    BY <1>0, <2>1, <2>2, OwnFrame DEF connVars, sockVars, leftVars
<1>6. CASE Stop \/ UNCHANGED vars
  BY <1>0, <1>6, OwnFrame
  DEF Stop, Sch!Stop, vars, schVars, connVars, sockVars, leftVars, Woken, SchP!Holds
<1> QED
  BY <1>1, <1>2, <1>3, <1>4, <1>5, <1>6 DEF Next

\* On a connection to which no wake-up was owed when its operations began, a
\* coroutine that goes on after accept, recv or send has that operation's result.
THEOREM ResultsAreOwn == Spec => []OwnResult
<1>1. Init => OwnInv
  BY DEF Init, OwnInv, OwnOf, Operation
<1>2. OwnInv => OwnResult
  BY DEF OwnInv, OwnOf, Pending, Answered, OwnResult, Operation
<1> QED
  BY <1>1, <1>2, TypeCorrect, Scheduled, NextOwnInv, PTL DEF Spec
=============================================================================
