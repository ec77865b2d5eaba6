--------------------------- MODULE ScheduleProofs ---------------------------
(***************************************************************************)
(* Proofs about Schedule, for any set of coroutines and any MaxQueue.      *)
(***************************************************************************)
EXTENDS Schedule, FiniteSetTheorems, SequenceTheorems, TLAPS

(***************************************************************************)
(* The queue of handlers.                                                  *)
(***************************************************************************)

\* Every handler the module posts is a handler.
LEMMA HandlerTypes ==
    ASSUME NEW c \in Coroutine,
           NEW kind \in {"resume", "expired", "timeout", "aborted"}
    PROVE  /\ handler(kind, c) \in Handler
           /\ handler(kind, c).kind = kind
           /\ handler(kind, c).co = c
BY DEF handler, Handler, Resumes

\* Posting keeps every handler that was queued and adds the one posted.
LEMMA AppendHolds ==
    ASSUME NEW q \in Seq(Handler), NEW h \in Handler, NEW kinds, NEW d
    PROVE  /\ Append(q, h) \in Seq(Handler)
           /\ Holds(q, kinds, d) => Holds(Append(q, h), kinds, d)
           /\ h.kind \in kinds /\ h.co = d => Holds(Append(q, h), kinds, d)
<1>1. Append(q, h) \in Seq(Handler)
  OBVIOUS
<1>2. /\ DOMAIN q \subseteq DOMAIN Append(q, h)
      /\ \A i \in DOMAIN q : Append(q, h)[i] = q[i]
      /\ Len(q) + 1 \in DOMAIN Append(q, h)
      /\ Append(q, h)[Len(q) + 1] = h
  OBVIOUS
<1>3. Holds(q, kinds, d) => Holds(Append(q, h), kinds, d)
  BY <1>2 DEF Holds
<1>4. h.kind \in kinds /\ h.co = d => Holds(Append(q, h), kinds, d)
  BY <1>2 DEF Holds
<1> QED
  BY <1>1, <1>3, <1>4

\* Taking the first handler off loses that one only.
LEMMA TailHolds ==
    ASSUME NEW q \in Seq(Handler), q # <<>>, NEW kinds, NEW d
    PROVE  /\ Head(q) \in Handler
           /\ Tail(q) \in Seq(Handler)
           /\ Holds(q, kinds, d) =>
                 \/ Head(q).kind \in kinds /\ Head(q).co = d
                 \/ Holds(Tail(q), kinds, d)
<1>1. Head(q) \in Handler /\ Tail(q) \in Seq(Handler) /\ Head(q) = q[1]
  OBVIOUS
<1>2. ASSUME NEW i \in DOMAIN q, i # 1
      PROVE  i - 1 \in DOMAIN Tail(q) /\ Tail(q)[i - 1] = q[i]
  BY <1>2
<1>3. ASSUME Holds(q, kinds, d)
      PROVE  \/ Head(q).kind \in kinds /\ Head(q).co = d
             \/ Holds(Tail(q), kinds, d)
  <2>1. PICK i \in DOMAIN q : q[i].kind \in kinds /\ q[i].co = d
    BY <1>3 DEF Holds
  <2>2. CASE i = 1
    BY <2>1, <2>2, <1>1
  <2>3. CASE i # 1
    BY <2>1, <2>3, <1>2 DEF Holds
  <2> QED
    BY <2>2, <2>3
<1> QED
  BY <1>1, <1>3

\* The same, for a handler named by its kind and its coroutine.
LEMMA PostHolds ==
    ASSUME NEW q \in Seq(Handler), NEW c \in Coroutine,
           NEW kind \in {"resume", "expired", "timeout", "aborted"},
           NEW kinds, NEW d
    PROVE  /\ Append(q, handler(kind, c)) \in Seq(Handler)
           /\ Holds(q, kinds, d) => Holds(Append(q, handler(kind, c)), kinds, d)
           /\ kind \in kinds /\ c = d => Holds(Append(q, handler(kind, c)), kinds, d)
<1> DEFINE h == handler(kind, c)
<1>1. h \in Handler /\ h.kind = kind /\ h.co = c
  BY HandlerTypes
<1> HIDE DEF h
<1>2. /\ Append(q, h) \in Seq(Handler)
      /\ Holds(q, kinds, d) => Holds(Append(q, h), kinds, d)
      /\ kind \in kinds /\ c = d => Holds(Append(q, h), kinds, d)
  BY <1>1, AppendHolds
<1> QED
  BY <1>2 DEF h

\* Cancelling a timer posts one more handler, or none.
LEMMA CancelHolds ==
    ASSUME NEW q \in Seq(Handler), NEW c \in Coroutine, NEW kinds, NEW d
    PROVE  /\ CancelInto(c, q) \in Seq(Handler)
           /\ Holds(q, kinds, d) => Holds(CancelInto(c, q), kinds, d)
BY PostHolds DEF CancelInto

(***************************************************************************)
(* Types.                                                                  *)
(***************************************************************************)

\* Every step keeps every value in its type.
LEMMA NextTypeOK == TypeOK /\ [Next]_vars => TypeOK'
<1> SUFFICES ASSUME TypeOK, [Next]_vars PROVE TypeOK'
  OBVIOUS
<1> USE DEF TypeOK
<1>1. ASSUME NEW c \in Coroutine, Spawn(c) PROVE TypeOK'
  BY <1>1, PostHolds DEF Spawn, Post, Status, Suspended
<1>2. ASSUME NEW c \in Coroutine, Resume(c) PROVE TypeOK'
  BY <1>2, PostHolds DEF Resume, Post
<1>3. ASSUME NEW c \in Coroutine, Suspend(c) PROVE TypeOK'
  <2>1. CASE Yield(c)
    BY <2>1 DEF Yield, Status, Suspended
  <2>2. CASE YieldFor(c)
    <3>1. CancelInto(c, queue) \in Seq(Handler)
      BY CancelHolds
    <3> QED
      BY <2>2, <3>1 DEF YieldFor, Status, Suspended
  <2>3. CASE Finish(c)
    BY <2>3 DEF Finish, Status
  <2>4. CASE Throw(c)
    BY <2>4 DEF Throw, Status
  <2> QED
    BY <1>3, <2>1, <2>2, <2>3, <2>4 DEF Suspend
<1>4. ASSUME NEW c \in Coroutine, TimerExpire(c) PROVE TypeOK'
  BY <1>4, PostHolds DEF TimerExpire, TimerOff, Post
<1>5. CASE Stop
  BY <1>5 DEF Stop
<1>6. CASE RunResume
  <2> DEFINE c == Head(queue).co
  <2>1. Head(queue) \in Handler /\ Tail(queue) \in Seq(Handler)
    BY <1>6, TailHolds DEF RunResume, TimerOff
  <2>2. c \in Coroutine
    BY <2>1 DEF Handler
  <2>3. CancelInto(c, Tail(queue)) \in Seq(Handler)
    BY <2>1, <2>2, CancelHolds
  <2> HIDE DEF c
  <2>4. CASE c \in cos
    BY <1>6, <2>2, <2>3, <2>4 DEF RunResume, TimerOff, c, Status
  <2>5. CASE c \notin cos
    BY <1>6, <2>1, <2>5 DEF RunResume, TimerOff, c
  <2> QED
    BY <2>4, <2>5
<1>7. CASE RunTimeout
  <2>1. Head(queue) \in Handler /\ Tail(queue) \in Seq(Handler)
    BY <1>7, TailHolds DEF RunTimeout
  <2>2. Head(queue).co \in Coroutine
    BY <2>1 DEF Handler
  <2> QED
    BY <1>7, <2>1, <2>2, PostHolds DEF RunTimeout
<1>8. CASE RunAborted
  BY <1>8, TailHolds DEF RunAborted
<1>9. CASE UNCHANGED vars
  BY <1>9 DEF vars
<1> QED
  BY <1>1, <1>2, <1>3, <1>4, <1>5, <1>6, <1>7, <1>8, <1>9
  DEF Next, RunHandler

\* Every value stays in its type: in particular the queue holds handlers only.
THEOREM TypeCorrect == Spec => []TypeOK
<1>1. Init => TypeOK
  BY DEF Init, TypeOK, Status, Suspended, Handler
<1> QED
  BY <1>1, NextTypeOK, PTL DEF Spec

(***************************************************************************)
(* The inductive invariant.  The properties of Schedule hold by a common   *)
(* argument: what is suspended is kept, what is kept is alive or has ended *)
(* the process, and what waits with a limit has its waker queued.          *)
(***************************************************************************)

\* A coroutine that is kept is suspended or running, unless it threw, and then
\* the io thread is gone for good.
KeptIsLive ==
    \A c \in cos :
        \/ status[c] \in Suspended \cup {"running"}
        \/ status[c] = "failed" /\ ios = "terminated"

IInv ==
    /\ TypeOK
    /\ OneRunning
    /\ KeptIsLive
    /\ SuspendedIsKept
    /\ PendingTimerIsAwaited
    /\ TimedWaitEnds
    /\ SpawnedStarts

LEMMA InitIInv == Init => IInv
BY DEF Init, IInv, TypeOK, OneRunning, KeptIsLive, SuspendedIsKept,
       PendingTimerIsAwaited, TimedWaitEnds, SpawnedStarts, Status, Suspended,
       Handler

\* The only steps that start a body find none running.
LEMMA NextOneRunning == IInv /\ [Next]_vars => OneRunning'
<1> SUFFICES ASSUME IInv, [Next]_vars PROVE OneRunning'
  OBVIOUS
<1> USE DEF IInv, TypeOK, OneRunning
<1>1. ASSUME NEW c \in Coroutine, Spawn(c) PROVE OneRunning'
  BY <1>1 DEF Spawn
<1>2. ASSUME NEW c \in Coroutine, Resume(c) PROVE OneRunning'
  BY <1>2 DEF Resume
<1>3. ASSUME NEW c \in Coroutine, Suspend(c) PROVE OneRunning'
  BY <1>3 DEF Suspend, Yield, YieldFor, Finish, Throw
<1>4. ASSUME NEW c \in Coroutine, TimerExpire(c) PROVE OneRunning'
  BY <1>4 DEF TimerExpire, TimerOff
<1>5. CASE Stop \/ RunTimeout \/ RunAborted \/ UNCHANGED vars
  BY <1>5 DEF Stop, RunTimeout, RunAborted, vars
<1>6. CASE RunResume
  BY <1>6 DEF RunResume, TimerOff, Ready, Idle
<1> QED
  BY <1>1, <1>2, <1>3, <1>4, <1>5, <1>6 DEF Next, RunHandler

\* The erase comes with the return, and a throw ends the io thread.
LEMMA NextKeptIsLive == IInv /\ [Next]_vars => KeptIsLive'
<1> SUFFICES ASSUME IInv, [Next]_vars PROVE KeptIsLive'
  OBVIOUS
<1> USE DEF IInv, TypeOK, KeptIsLive, OneRunning, Suspended
<1>1. ASSUME NEW c \in Coroutine, Spawn(c) PROVE KeptIsLive'
  BY <1>1 DEF Spawn
<1>2. ASSUME NEW c \in Coroutine, Resume(c) PROVE KeptIsLive'
  BY <1>2 DEF Resume
<1>3. ASSUME NEW c \in Coroutine, Suspend(c) PROVE KeptIsLive'
  BY <1>3 DEF Suspend, Yield, YieldFor, Finish, Throw
<1>4. ASSUME NEW c \in Coroutine, TimerExpire(c) PROVE KeptIsLive'
  BY <1>4 DEF TimerExpire, TimerOff
<1>5. CASE Stop \/ RunTimeout \/ RunAborted \/ UNCHANGED vars
  BY <1>5 DEF Stop, RunTimeout, RunAborted, Ready, vars
<1>6. CASE RunResume
  BY <1>6 DEF RunResume, TimerOff, Ready
<1> QED
  BY <1>1, <1>2, <1>3, <1>4, <1>5, <1>6 DEF Next, RunHandler

\* Only the coroutine that returns is erased.
LEMMA NextSuspendedIsKept == IInv /\ [Next]_vars => SuspendedIsKept'
<1> SUFFICES ASSUME IInv, [Next]_vars PROVE SuspendedIsKept'
  OBVIOUS
<1> USE DEF IInv, TypeOK, SuspendedIsKept, OneRunning, Suspended
<1>1. ASSUME NEW c \in Coroutine, Spawn(c) PROVE SuspendedIsKept'
  BY <1>1 DEF Spawn
<1>2. ASSUME NEW c \in Coroutine, Resume(c) PROVE SuspendedIsKept'
  BY <1>2 DEF Resume
<1>3. ASSUME NEW c \in Coroutine, Suspend(c) PROVE SuspendedIsKept'
  BY <1>3 DEF Suspend, Yield, YieldFor, Finish, Throw
<1>4. ASSUME NEW c \in Coroutine, TimerExpire(c) PROVE SuspendedIsKept'
  BY <1>4 DEF TimerExpire, TimerOff
<1>5. CASE Stop \/ RunTimeout \/ RunAborted \/ UNCHANGED vars
  BY <1>5 DEF Stop, RunTimeout, RunAborted, Ready, vars
<1>6. CASE RunResume
  BY <1>6 DEF RunResume, TimerOff, Ready
<1> QED
  BY <1>1, <1>2, <1>3, <1>4, <1>5, <1>6 DEF Next, RunHandler

\* Running a coroutine cancels its timer first.
LEMMA NextPendingTimerIsAwaited == IInv /\ [Next]_vars => PendingTimerIsAwaited'
<1> SUFFICES ASSUME IInv, [Next]_vars PROVE PendingTimerIsAwaited'
  OBVIOUS
<1> USE DEF IInv, TypeOK, PendingTimerIsAwaited
<1>1. ASSUME NEW c \in Coroutine, Spawn(c) PROVE PendingTimerIsAwaited'
  BY <1>1 DEF Spawn
<1>2. ASSUME NEW c \in Coroutine, Resume(c) PROVE PendingTimerIsAwaited'
  BY <1>2 DEF Resume
<1>3. ASSUME NEW c \in Coroutine, Suspend(c) PROVE PendingTimerIsAwaited'
  BY <1>3 DEF Suspend, Yield, YieldFor, Finish, Throw
<1>4. ASSUME NEW c \in Coroutine, TimerExpire(c) PROVE PendingTimerIsAwaited'
  BY <1>4 DEF TimerExpire, TimerOff
<1>5. CASE Stop \/ RunTimeout \/ RunAborted \/ UNCHANGED vars
  BY <1>5 DEF Stop, RunTimeout, RunAborted, Ready, vars
<1>6. CASE RunResume
  BY <1>6 DEF RunResume, TimerOff, Ready
<1> QED
  BY <1>1, <1>2, <1>3, <1>4, <1>5, <1>6 DEF Next, RunHandler

\* Which handler wakes d survives every step, or the step wakes d.  This is the
\* step both waiting invariants rest on.
LEMMA WakerSurvives ==
    ASSUME TypeOK, [Next]_vars, NEW d \in Coroutine, NEW kinds,
           kinds \in {{"resume"}, Resumes \cup {"timeout"}},
           Holds(queue, kinds, d), d \in cos
    PROVE  Holds(queue', kinds, d) \/ status'[d] = "running"
<1> USE DEF TypeOK
<1> DEFINE Goal == Holds(queue', kinds, d) \/ status'[d] = "running"
<1>1. ASSUME NEW c \in Coroutine, Spawn(c) PROVE Goal
  BY <1>1, PostHolds DEF Spawn, Post
<1>2. ASSUME NEW c \in Coroutine, Resume(c) PROVE Goal
  BY <1>2, PostHolds DEF Resume, Post
<1>3. ASSUME NEW c \in Coroutine, Suspend(c) PROVE Goal
  BY <1>3, CancelHolds DEF Suspend, Yield, YieldFor, Finish, Throw
<1>4. ASSUME NEW c \in Coroutine, TimerExpire(c) PROVE Goal
  BY <1>4, PostHolds DEF TimerExpire, TimerOff, Post
<1>5. CASE Stop \/ UNCHANGED vars
  BY <1>5 DEF Stop, vars
<1>6. CASE RunHandler
  <2> DEFINE c == Head(queue).co
  <2>1. queue # <<>>
    BY <1>6 DEF RunHandler, RunResume, TimerOff, RunTimeout, RunAborted
  <2>2. /\ Head(queue) \in Handler
        /\ Tail(queue) \in Seq(Handler)
        /\ \/ Head(queue).kind \in kinds /\ c = d
           \/ Holds(Tail(queue), kinds, d)
    BY <2>1, TailHolds
  <2>3. c \in Coroutine
    BY <2>2 DEF Handler
  <2> HIDE DEF c
  <2>4. CASE RunResume
    <3>1. CASE c \in cos
      <4>1. /\ queue' = CancelInto(c, Tail(queue))
            /\ status' = [status EXCEPT ![c] = "running"]
        BY <2>4, <3>1 DEF RunResume, TimerOff, c
      <4> QED
        BY <4>1, <2>2, <2>3, CancelHolds
    <3>2. CASE c \notin cos
      BY <2>4, <2>2, <3>2 DEF RunResume, TimerOff, c
    <3> QED
      BY <3>1, <3>2
  <2>5. CASE RunTimeout
    <3>1. CASE c = d /\ Head(queue).kind \in kinds
      <4>1. "expired" \in kinds
        BY <2>5, <3>1 DEF RunTimeout, Resumes
      <4>2. queue' = Append(Tail(queue), handler("expired", d))
        BY <2>5, <3>1 DEF RunTimeout, c
      <4> QED
        BY <4>1, <4>2, <2>2, PostHolds
    <3>2. CASE Holds(Tail(queue), kinds, d)
      <4>1. \/ queue' = Append(Tail(queue), handler("expired", c))
            \/ queue' = Tail(queue)
        BY <2>5 DEF RunTimeout, c
      <4> QED
        BY <4>1, <3>2, <2>2, <2>3, PostHolds
    <3> QED
      BY <2>2, <3>1, <3>2
  <2>6. CASE RunAborted
    <3>1. Head(queue).kind \notin kinds
      BY <2>6 DEF RunAborted, Resumes
    <3> QED
      BY <2>6, <3>1, <2>2 DEF RunAborted
  <2> QED
    BY <1>6, <2>4, <2>5, <2>6 DEF RunHandler
<1> QED
  BY <1>1, <1>2, <1>3, <1>4, <1>5, <1>6 DEF Next

\* A timed wait starts with its timer pending; a pending timer stays until it
\* expires into the queue or its coroutine is resumed.
LEMMA NextTimedWaitEnds == IInv /\ [Next]_vars => TimedWaitEnds'
<1> SUFFICES ASSUME IInv, [Next]_vars,
                    NEW d \in Coroutine, status'[d] = "yield_for"
             PROVE  timer'[d] \/ Holds(queue', Resumes \cup {"timeout"}, d)
  BY DEF TimedWaitEnds, Queued
<1> USE DEF IInv, TypeOK
<1>1. CASE status[d] = "yield_for" /\ timer[d]
  <2>1. ASSUME NEW c \in Coroutine, Spawn(c) \/ Resume(c) \/ Suspend(c)
        PROVE  timer'[d]
    BY <1>1, <2>1 DEF Spawn, Resume, Suspend, Yield, YieldFor, Finish, Throw
  <2>2. ASSUME NEW c \in Coroutine, TimerExpire(c)
        PROVE  timer'[d] \/ Holds(queue', Resumes \cup {"timeout"}, d)
    <3>1. CASE c = d
      BY <2>2, <3>1, PostHolds DEF TimerExpire, TimerOff, Post
    <3>2. CASE c # d
      BY <1>1, <2>2, <3>2 DEF TimerExpire, TimerOff
    <3> QED
      BY <3>1, <3>2
  <2>3. CASE RunResume
    <3>1. Head(queue).co # d \/ d \notin cos
      BY <2>3 DEF RunResume, TimerOff
    <3> QED
      BY <1>1, <2>3, <3>1 DEF RunResume, TimerOff
  <2>4. CASE Stop \/ RunTimeout \/ RunAborted \/ UNCHANGED vars
    BY <1>1, <2>4 DEF Stop, RunTimeout, RunAborted, vars
  <2> QED
    BY <2>1, <2>2, <2>3, <2>4 DEF Next, RunHandler
<1>2. CASE status[d] = "yield_for" /\ ~timer[d]
  <2>1. Holds(queue, Resumes \cup {"timeout"}, d) /\ d \in cos
    BY <1>2 DEF TimedWaitEnds, Queued, SuspendedIsKept, Suspended
  <2> QED
    BY <2>1, WakerSurvives
<1>3. CASE status[d] # "yield_for"
  <2>1. ASSUME NEW c \in Coroutine, Suspend(c) PROVE timer'[d]
    BY <1>3, <2>1 DEF Suspend, Yield, YieldFor, Finish, Throw
  <2>2. ASSUME NEW c \in Coroutine, Spawn(c) \/ Resume(c) \/ TimerExpire(c)
        PROVE  FALSE
    BY <1>3, <2>2 DEF Spawn, Resume, TimerExpire, TimerOff
  <2>3. ~ (Stop \/ RunTimeout \/ RunAborted \/ RunResume \/ UNCHANGED vars)
    BY <1>3 DEF Stop, RunTimeout, RunAborted, RunResume, TimerOff, vars
  <2> QED
    BY <2>1, <2>2, <2>3 DEF Next, RunHandler
<1> QED
  BY <1>1, <1>2, <1>3

\* Spawning posts the first resume, and only running the coroutine takes it off.
LEMMA NextSpawnedStarts == IInv /\ [Next]_vars => SpawnedStarts'
<1> SUFFICES ASSUME IInv, [Next]_vars,
                    NEW d \in Coroutine, status'[d] = "ready"
             PROVE  Holds(queue', {"resume"}, d)
  BY DEF SpawnedStarts, Queued
<1> USE DEF IInv, TypeOK
<1>1. CASE status[d] = "ready"
  <2>1. Holds(queue, {"resume"}, d) /\ d \in cos
    BY <1>1 DEF SpawnedStarts, Queued, SuspendedIsKept, Suspended
  <2> QED
    BY <2>1, WakerSurvives
<1>2. CASE status[d] # "ready"
  <2>1. ASSUME NEW c \in Coroutine, Spawn(c)
        PROVE  Holds(queue', {"resume"}, d)
    <3>1. c = d
      BY <1>2, <2>1 DEF Spawn
    <3> QED
      BY <2>1, <3>1, PostHolds DEF Spawn, Post
  <2>2. ASSUME NEW c \in Coroutine, Resume(c) \/ Suspend(c) \/ TimerExpire(c)
        PROVE  FALSE
    BY <1>2, <2>2 DEF Resume, Suspend, Yield, YieldFor, Finish, Throw, TimerExpire, TimerOff
  <2>3. ~ (Stop \/ RunTimeout \/ RunAborted \/ RunResume \/ UNCHANGED vars)
    BY <1>2 DEF Stop, RunTimeout, RunAborted, RunResume, TimerOff, vars
  <2> QED
    BY <2>1, <2>2, <2>3 DEF Next, RunHandler
<1> QED
  BY <1>1, <1>2

\* The conjunction of the invariants is inductive.
THEOREM Inductive == Spec => []IInv
<1>1. IInv /\ [Next]_vars => IInv'
  <2>1. IInv /\ [Next]_vars => TypeOK'
    BY NextTypeOK DEF IInv
  <2> QED
    BY <2>1, NextOneRunning, NextKeptIsLive, NextSuspendedIsKept,
       NextPendingTimerIsAwaited, NextTimedWaitEnds, NextSpawnedStarts
    DEF IInv
<1> QED
  BY InitIInv, <1>1, PTL DEF Spec

\* The bodies of the coroutines exclude each other.
THEOREM BodiesExclude == Spec => []OneRunning
BY Inductive, PTL DEF IInv

\* assert(ps_) in Coroutine::resume never fails: the io thread only locks
\* coroutines that are suspended.
THEOREM AssertPsHolds == Spec => []LockedIsSuspended
<1>1. IInv => LockedIsSuspended
  BY DEF IInv, TypeOK, KeptIsLive, LockedIsSuspended, Ready, Idle
<1> QED
  BY Inductive, <1>1, PTL

\* No coroutine is stranded: it is kept as long as it is not over, its first
\* resume is queued until it starts, and a wait with a limit has its pending
\* timer or a handler that will wake it.
THEOREM NoneStranded ==
    Spec => []NoneForgotten
BY Inductive, PTL DEF IInv, NoneForgotten

\* The timer of a wait that is over never starts to run for a later wait.
THEOREM TimersAreAwaited == Spec => []PendingTimerIsAwaited
BY Inductive, PTL DEF IInv

(***************************************************************************)
(* Who wakes a coroutine: for the modules that compose the scheduler.      *)
(***************************************************************************)

Wakers == Resumes \cup {"timeout"}

\* A queue has no new waker by a handler of another coroutine or kind.
LEMMA AppendHoldsNone ==
    ASSUME NEW q \in Seq(Handler), NEW c \in Coroutine,
           NEW kind \in {"resume", "expired", "timeout", "aborted"},
           NEW d, ~Holds(q, Wakers, d), kind = "aborted" \/ c # d
    PROVE  ~Holds(Append(q, handler(kind, c)), Wakers, d)
<1> DEFINE h == handler(kind, c)
<1>1. h \in Handler /\ h.kind = kind /\ h.co = c
  BY HandlerTypes
<1> HIDE DEF h
<1>2. ASSUME NEW i \in DOMAIN Append(q, h),
             Append(q, h)[i].kind \in Wakers, Append(q, h)[i].co = d
      PROVE  FALSE
  <2>1. CASE i = Len(q) + 1
    BY <1>1, <1>2, <2>1 DEF Wakers, Resumes
  <2>2. CASE i # Len(q) + 1
    <3>1. i \in DOMAIN q /\ Append(q, h)[i] = q[i]
      BY <1>1, <2>2
    <3> QED
      BY <1>2, <3>1 DEF Holds
  <2> QED
    BY <2>1, <2>2
<1>3. ~Holds(Append(q, h), Wakers, d)
  BY <1>2 DEF Holds
<1> QED
  BY <1>3 DEF h

LEMMA TailHoldsNone ==
    ASSUME NEW q \in Seq(Handler), q # <<>>, NEW d, ~Holds(q, Wakers, d)
    PROVE  /\ ~Holds(Tail(q), Wakers, d)
           /\ Head(q).kind \in Wakers => Head(q).co # d
<1>1. \A i \in DOMAIN Tail(q) : i + 1 \in DOMAIN q /\ Tail(q)[i] = q[i + 1]
  OBVIOUS
<1>2. 1 \in DOMAIN q /\ Head(q) = q[1]
  OBVIOUS
<1> QED
  BY <1>1, <1>2 DEF Holds

LEMMA CancelHoldsNone ==
    ASSUME NEW q \in Seq(Handler), NEW c \in Coroutine, NEW d,
           ~Holds(q, Wakers, d)
    PROVE  ~Holds(CancelInto(c, q), Wakers, d)
BY AppendHoldsNone DEF CancelInto

\* What other coroutines do, and what a body does to suspend itself, wakes no
\* one else.
LEMMA OthersWakeNone ==
    ASSUME TypeOK, NEW d \in Coroutine, ~Queued(Wakers, d), NEW c \in Coroutine,
           \/ Suspend(c)
           \/ c # d /\ (Spawn(c) \/ Resume(c) \/ TimerExpire(c))
    PROVE  ~Holds(queue', Wakers, d)
<1> USE DEF TypeOK, Queued
<1>1. CASE Suspend(c)
  BY <1>1, CancelHoldsNone DEF Suspend, Yield, YieldFor, Finish, Throw
<1>2. CASE c # d /\ (Spawn(c) \/ Resume(c) \/ TimerExpire(c))
  BY <1>2, AppendHoldsNone DEF Spawn, Resume, TimerExpire, Post
<1> QED
  BY <1>1, <1>2

\* The io thread wakes a coroutine by its own handlers only.
LEMMA HandlersWakeOwn ==
    ASSUME TypeOK, NEW d \in Coroutine, ~Queued(Wakers, d), RunHandler
    PROVE  ~Holds(queue', Wakers, d) /\ status'[d] = status[d]
<1> USE DEF TypeOK, Queued
<1> DEFINE h == Head(queue)
<1>1. /\ queue # <<>> /\ h \in Handler /\ Tail(queue) \in Seq(Handler)
      /\ ~Holds(Tail(queue), Wakers, d)
      /\ h.kind \in Wakers => h.co # d
  <2>1. queue # <<>>
    BY DEF RunHandler, RunResume, RunTimeout, RunAborted
  <2> QED
    BY <2>1, TailHolds, TailHoldsNone
<1>2. h.co \in Coroutine
  BY <1>1 DEF Handler
<1>3. CASE RunResume
  <2>1. /\ h.co # d
        /\ \/ queue' = Tail(queue) /\ UNCHANGED status
           \/ /\ queue' = CancelInto(h.co, Tail(queue))
              /\ status' = [status EXCEPT ![h.co] = "running"]
    BY <1>1, <1>3 DEF RunResume, Wakers
  <2>2. ~Holds(CancelInto(h.co, Tail(queue)), Wakers, d)
    BY <1>1, <1>2, CancelHoldsNone
  <2> HIDE DEF h
  <2> QED
    BY <1>1, <2>1, <2>2
<1>4. CASE RunTimeout
  <2>1. /\ h.co # d
        /\ UNCHANGED status
        /\ \/ queue' = Append(Tail(queue), handler("expired", h.co))
           \/ queue' = Tail(queue)
    BY <1>1, <1>4 DEF RunTimeout, Wakers
  <2>2. ~Holds(Append(Tail(queue), handler("expired", h.co)), Wakers, d)
    BY <1>1, <1>2, <2>1, AppendHoldsNone
  <2> QED
    BY <1>1, <2>1, <2>2
<1>5. CASE RunAborted
  BY <1>1, <1>5 DEF RunAborted
<1> QED
  BY <1>3, <1>4, <1>5 DEF RunHandler

(***************************************************************************)
(* The queue implements the wake-ups, as far as safety goes: what a step of *)
(* the scheduler does to a coroutine is what a step of Wakeups does.       *)
(***************************************************************************)

\* The wake-ups of each coroutine in a queue.
Of(q, c) == {i \in DOMAIN q : q[i].co = c /\ q[i].kind \in Wakers}
Count(q) == [c \in Coroutine |-> Cardinality(Of(q, c))]

\* One of them more, or less, for the coroutine of a handler, if it is one.
Plus(n, h) == IF h.kind \in Wakers THEN [n EXCEPT ![h.co] = n[h.co] + 1] ELSE n
Minus(n, h) == IF h.kind \in Wakers THEN [n EXCEPT ![h.co] = n[h.co] - 1] ELSE n

\* The wake-ups of a queue can be counted.
LEMMA OfIsFinite ==
    ASSUME NEW q \in Seq(Handler), NEW c
    PROVE  IsFiniteSet(Of(q, c)) /\ Cardinality(Of(q, c)) \in Nat
<1>1. Of(q, c) \subseteq 1..Len(q) /\ Len(q) \in Nat
  BY DEF Of
<1>2. IsFiniteSet(1..Len(q))
  BY <1>1, FS_Interval
<1>3. IsFiniteSet(Of(q, c))
  BY <1>1, <1>2, FS_Subset
<1> QED
  BY <1>3, FS_CardinalityType

LEMMA CountIsNat ==
    ASSUME NEW q \in Seq(Handler)
    PROVE  Count(q) \in [Coroutine -> Nat]
BY OfIsFinite DEF Count

\* A handler that is posted is one wake-up more, unless it is aborted.
LEMMA CountOfAppend ==
    ASSUME NEW q \in Seq(Handler), NEW h \in Handler
    PROVE  Append(q, h) \in Seq(Handler) /\ Count(Append(q, h)) = Plus(Count(q), h)
<1> DEFINE n == Len(q) + 1
           t == Append(q, h)
<1>1. /\ t \in Seq(Handler) /\ Len(t) = n /\ t[n] = h
      /\ \A i \in 1..Len(q) : t[i] = q[i]
      /\ Len(q) \in Nat /\ h.co \in Coroutine
  BY AppendProperties DEF Handler
<1> HIDE DEF t
<1>2. ASSUME NEW c \in Coroutine
      PROVE  Count(t)[c] = Plus(Count(q), h)[c]
  <2>1. /\ Of(t, c) = IF h.co = c /\ h.kind \in Wakers THEN Of(q, c) \cup {n} ELSE Of(q, c)
        /\ n \notin Of(q, c)
    BY <1>1 DEF Of
  <2>2. Cardinality(Of(q, c) \cup {n}) = Cardinality(Of(q, c)) + 1
    BY <2>1, OfIsFinite, FS_AddElement
  <2>3. Plus(Count(q), h)[c] =
            IF h.co = c /\ h.kind \in Wakers THEN Count(q)[c] + 1 ELSE Count(q)[c]
    BY <1>1, CountIsNat DEF Plus
  <2> QED
    BY <2>1, <2>2, <2>3 DEF Count
<1>3. /\ DOMAIN Count(t) = Coroutine /\ Count(t) = [c \in Coroutine |-> Count(t)[c]]
      /\ DOMAIN Plus(Count(q), h) = Coroutine
      /\ Plus(Count(q), h) = [c \in Coroutine |-> Plus(Count(q), h)[c]]
  BY <1>1 DEF Count, Plus
<1>4. Count(t) = Plus(Count(q), h)
  BY <1>2, <1>3
<1> QED
  BY <1>1, <1>4 DEF t

\* A handler that is taken from the queue is one less, unless it is aborted.
LEMMA CountOfTail ==
    ASSUME NEW q \in Seq(Handler), q # <<>>
    PROVE  /\ Head(q) \in Handler /\ Tail(q) \in Seq(Handler)
           /\ Count(Tail(q)) = Minus(Count(q), Head(q))
           /\ Head(q).kind \in Wakers => Count(q)[Head(q).co] > 0
<1> DEFINE h == Head(q)
           t == Tail(q)
<1>1. /\ h \in Handler /\ t \in Seq(Handler) /\ Len(t) = Len(q) - 1 /\ q[1] = h
      /\ \A i \in 1..Len(t) : t[i] = q[i + 1]
      /\ Len(q) \in Nat /\ Len(t) \in Nat /\ Len(q) > 0
      /\ DOMAIN t = 1..Len(t) /\ DOMAIN q = 1..Len(q)
  OBVIOUS
<1> HIDE DEF t, h
<1>2. h \in Handler /\ h.co \in Coroutine
  BY <1>1 DEF Handler
<1>3. ASSUME NEW c \in Coroutine
      PROVE  /\ Cardinality(Of(t, c)) = Cardinality(Of(q, c) \ {1})
             /\ Cardinality(Of(q, c)) \in Nat
             /\ Cardinality(Of(q, c) \ {1}) \in Nat
             /\ Cardinality(Of(q, c)) =
                    IF h.co = c /\ h.kind \in Wakers
                    THEN Cardinality(Of(q, c) \ {1}) + 1
                    ELSE Cardinality(Of(q, c) \ {1})
  <2> DEFINE S == Of(t, c)
             T == Of(q, c) \ {1}
             up == [i \in S |-> i + 1]
  <2>1. up \in [S -> T]
    <3> SUFFICES ASSUME NEW i \in S PROVE i + 1 \in T
      OBVIOUS
    <3>1. i \in 1..Len(t) /\ t[i].co = c /\ t[i].kind \in Wakers
      BY <1>1 DEF Of
    <3>2. i + 1 \in 1..Len(q) /\ i + 1 # 1 /\ t[i] = q[i + 1]
      BY <1>1, <3>1
    <3> QED
      BY <1>1, <3>1, <3>2 DEF Of
  <2>2. \A i, j \in S : up[i] = up[j] => i = j
    <3>1. \A i \in S : i \in Int
      BY <1>1 DEF Of
    <3> HIDE DEF S
    <3> QED
      BY <3>1
  <2>3. \A j \in T : \E i \in S : up[i] = j
    <3> SUFFICES ASSUME NEW j \in T PROVE \E i \in S : up[i] = j
      OBVIOUS
    <3>1. j \in 1..Len(q) /\ j # 1 /\ q[j].co = c /\ q[j].kind \in Wakers
      BY <1>1 DEF Of
    <3>2. j - 1 \in 1..Len(t) /\ t[j - 1] = q[j] /\ (j - 1) + 1 = j
      BY <1>1, <3>1
    <3>3. j - 1 \in S
      BY <1>1, <3>1, <3>2 DEF Of
    <3> HIDE DEF S
    <3> QED
      BY <3>2, <3>3
  <2>4. up \in Bijection(S, T)
    BY <2>1, <2>2, <2>3 DEF Bijection, Injection, Surjection, IsInjective
  <2>5. ExistsBijection(S, T)
    BY <2>4 DEF ExistsBijection
  <2>6. IsFiniteSet(S)
    BY <1>1, OfIsFinite
  <2>7. Cardinality(T) = Cardinality(S)
    BY <2>5, <2>6, FS_Bijection
  <2>8. 1 \in Of(q, c) <=> h.co = c /\ h.kind \in Wakers
    BY <1>1 DEF Of
  <2>9. /\ IsFiniteSet(Of(q, c)) /\ IsFiniteSet(T)
        /\ Cardinality(T) = IF 1 \in Of(q, c) THEN Cardinality(Of(q, c)) - 1
                            ELSE Cardinality(Of(q, c))
    BY OfIsFinite, FS_RemoveElement
  <2>10. Cardinality(Of(q, c)) \in Nat /\ Cardinality(T) \in Nat
    BY <2>9, FS_CardinalityType
  <2> HIDE DEF T, S
  <2>11. Cardinality(Of(q, c)) =
            IF h.co = c /\ h.kind \in Wakers THEN Cardinality(T) + 1 ELSE Cardinality(T)
    BY <2>8, <2>9, <2>10
  <2> QED
    BY <2>7, <2>10, <2>11 DEF S, T
<1>4. ASSUME NEW c \in Coroutine
      PROVE  Count(t)[c] = Minus(Count(q), h)[c]
  <2>1. Minus(Count(q), h)[c] =
            IF h.co = c /\ h.kind \in Wakers THEN Count(q)[c] - 1 ELSE Count(q)[c]
    BY <1>2, CountIsNat DEF Minus
  <2>2. Count(t)[c] = Cardinality(Of(t, c)) /\ Count(q)[c] = Cardinality(Of(q, c))
    BY DEF Count
  <2>3. /\ Cardinality(Of(t, c)) \in Nat /\ Cardinality(Of(q, c)) \in Nat
        /\ Cardinality(Of(q, c)) = IF h.co = c /\ h.kind \in Wakers
                                  THEN Cardinality(Of(t, c)) + 1
                                  ELSE Cardinality(Of(t, c))
    BY <1>3
  <2> QED
    BY <2>1, <2>2, <2>3
<1>5. /\ DOMAIN Count(t) = Coroutine /\ Count(t) = [c \in Coroutine |-> Count(t)[c]]
      /\ DOMAIN Minus(Count(q), h) = Coroutine
      /\ Minus(Count(q), h) = [c \in Coroutine |-> Minus(Count(q), h)[c]]
  BY <1>2 DEF Count, Minus
<1>6. Count(t) = Minus(Count(q), h)
  BY <1>4, <1>5
<1>7. ASSUME h.kind \in Wakers PROVE Count(q)[h.co] > 0
  <2>1. Count(q)[h.co] = Cardinality(Of(q, h.co))
    BY <1>2 DEF Count
  <2>2. /\ Cardinality(Of(q, h.co)) = Cardinality(Of(t, h.co)) + 1
        /\ Cardinality(Of(t, h.co)) \in Nat
    BY <1>2, <1>3, <1>7
  <2> QED
    BY <2>1, <2>2
<1> QED
  BY <1>1, <1>2, <1>6, <1>7 DEF t, h

\* A handler is posted only for a coroutine that was spawned.
QueuedIsBorn == \A i \in DOMAIN queue : status[queue[i].co] # "unborn"

\* Only spawned coroutines are resumed and timed.
LEMMA NextBorn == IInv /\ QueuedIsBorn /\ [Next]_vars => QueuedIsBorn'
<1> SUFFICES ASSUME IInv, QueuedIsBorn, [Next]_vars
             PROVE  QueuedIsBorn'
  OBVIOUS
<1> USE DEF IInv, TypeOK
<1>1. \A d \in Coroutine : status'[d] = "unborn" => status[d] = "unborn"
  BY DEF Next, vars, Spawn, Resume, Suspend, Yield, YieldFor, Finish, Throw, Stop,
         TimerExpire, RunHandler, RunResume, RunTimeout, RunAborted
<1>2. \A i \in DOMAIN queue : queue[i].co \in Coroutine
  <2>1. \A i \in DOMAIN queue : queue[i] \in Handler
    OBVIOUS
  <2> QED
    BY <2>1 DEF Handler
<1>3. ASSUME NEW q \in Seq(Handler), NEW c \in Coroutine,
             NEW kind \in {"resume", "expired", "timeout", "aborted"},
             status'[c] # "unborn",
             \A i \in DOMAIN q : status'[q[i].co] # "unborn"
      PROVE  \A i \in DOMAIN Append(q, handler(kind, c)) :
                 status'[Append(q, handler(kind, c))[i].co] # "unborn"
  <2> DEFINE h == handler(kind, c)
  <2>1. h \in Handler /\ h.co = c
    BY HandlerTypes
  <2> HIDE DEF h
  <2>2. \A i \in DOMAIN Append(q, h) :
            \/ Append(q, h)[i] = h
            \/ i \in DOMAIN q /\ Append(q, h)[i] = q[i]
    BY <2>1
  <2>3. \A i \in DOMAIN Append(q, h) : status'[Append(q, h)[i].co] # "unborn"
    BY <1>3, <2>1, <2>2
  <2> QED
    BY <2>3 DEF h
<1>4. \A i \in DOMAIN queue : status'[queue[i].co] # "unborn"
  BY <1>1, <1>2 DEF QueuedIsBorn
<1>5. ASSUME queue # <<>>
      PROVE  /\ Tail(queue) \in Seq(Handler)
             /\ \A i \in DOMAIN Tail(queue) : status'[Tail(queue)[i].co] # "unborn"
             /\ Head(queue).co \in Coroutine /\ status'[Head(queue).co] # "unborn"
  <2>1. /\ \A i \in DOMAIN Tail(queue) : i + 1 \in DOMAIN queue /\ Tail(queue)[i] = queue[i + 1]
        /\ 1 \in DOMAIN queue /\ Head(queue) = queue[1] /\ Tail(queue) \in Seq(Handler)
    BY <1>5
  <2> QED
    BY <1>2, <1>4, <2>1
<1>6. ASSUME NEW c \in Coroutine, Spawn(c) \/ Resume(c) \/ TimerExpire(c) PROVE QueuedIsBorn'
  <2>1. status'[c] # "unborn"
    BY <1>6 DEF Spawn, Resume, TimerExpire, PendingTimerIsAwaited
  <2>2. PICK kind \in {"resume", "timeout"} : queue' = Append(queue, handler(kind, c))
    BY <1>6 DEF Spawn, Resume, TimerExpire, Post
  <2>3. kind \in {"resume", "expired", "timeout", "aborted"}
    OBVIOUS
  <2>4. \A i \in DOMAIN queue' : status'[queue'[i].co] # "unborn"
    BY <1>3, <1>4, <2>1, <2>2, <2>3
  <2> QED
    BY <2>4 DEF QueuedIsBorn
<1>7. ASSUME NEW c \in Coroutine, Suspend(c) PROVE QueuedIsBorn'
  <2>1. ~timer[c]
    BY <1>7 DEF Suspend, Yield, YieldFor, Finish, Throw, PendingTimerIsAwaited
  <2>2. queue' = queue
    BY <1>7, <2>1 DEF Suspend, Yield, YieldFor, Finish, Throw, CancelInto
  <2> QED
    BY <1>4, <2>2 DEF QueuedIsBorn
<1>8. CASE RunHandler
  <2> DEFINE c == Head(queue).co
  <2>1. queue # <<>>
    BY <1>8 DEF RunHandler, RunResume, RunTimeout, RunAborted
  <2>2. \/ queue' = Tail(queue)
        \/ queue' = Append(Tail(queue), handler("aborted", c))
        \/ queue' = Append(Tail(queue), handler("expired", c))
    BY <1>8 DEF RunHandler, RunResume, RunTimeout, RunAborted, CancelInto
  <2> HIDE DEF c
  <2>3. c \in Coroutine /\ status'[c] # "unborn"
    BY <1>5, <2>1 DEF c
  <2>4. CASE queue' = Tail(queue)
    BY <1>5, <2>1, <2>4 DEF QueuedIsBorn
  <2>5. ASSUME NEW kind \in {"aborted", "expired"},
               queue' = Append(Tail(queue), handler(kind, c))
        PROVE  QueuedIsBorn'
    <3> DEFINE t == Tail(queue)
    <3>1. t \in Seq(Handler) /\ \A i \in DOMAIN t : status'[t[i].co] # "unborn"
      BY <1>5, <2>1
    <3> HIDE DEF t
    <3>2. queue' = Append(t, handler(kind, c))
      BY <2>5 DEF t
    <3> QED
      BY <1>3, <2>3, <3>1, <3>2 DEF QueuedIsBorn
  <2> QED
    BY <2>2, <2>4, <2>5
<1>9. CASE Stop \/ UNCHANGED vars
  BY <1>4, <1>9 DEF Stop, vars, QueuedIsBorn
<1> QED
  BY <1>6, <1>7, <1>8, <1>9 DEF Next

\* Unspent is the count.
LEMMA UnspentIsCount == [c \in Coroutine |-> Unspent(c)] = Count(queue)
BY DEF Unspent, Count, Of, Wakers

\* Each step, with what it does to the phases and the wake-ups.
LEMMA StepIsWakeup ==
    ASSUME IInv, QueuedIsBorn, [Next]_vars
    PROVE  Abstract!Next \/ UNCHANGED Abstract!vars
<1> DEFINE of(s) == CASE s = "unborn" -> "unborn"
                      [] s \in Suspended -> "suspended"
                      [] s = "running" -> "running"
                      [] OTHER -> "over"
           ph == [c \in Coroutine |-> Phase(c)]
           wk == [c \in Coroutine |-> Unspent(c)]
<1> USE DEF IInv, TypeOK
<1>1. wk = Count(queue) /\ wk' = Count(queue') /\ wk \in [Coroutine -> Nat]
  BY UnspentIsCount, CountIsNat DEF Unspent, Count, Of, Wakers
<1>2. ASSUME status' = status PROVE ph' = ph
  BY <1>2 DEF Phase
<1>3. ASSUME NEW c \in Coroutine, NEW s \in Status, status' = [status EXCEPT ![c] = s]
      PROVE  ph' = [ph EXCEPT ![c] = of(s)]
  <2>1. ph = [d \in Coroutine |-> of(status[d])] /\ ph' = [d \in Coroutine |-> of(status'[d])]
    BY DEF Phase
  <2> HIDE DEF of, ph
  <2>2. \A d \in Coroutine : status'[d] = IF d = c THEN s ELSE status[d]
    BY <1>3
  <2> QED
    BY <2>1, <2>2
<1>4. \A c \in Coroutine : ph[c] = Phase(c)
  OBVIOUS
<1>5. ASSUME NEW c \in Coroutine, NEW kind \in {"resume", "timeout"},
             queue' = Append(queue, handler(kind, c))
      PROVE  wk' = [wk EXCEPT ![c] = wk[c] + 1]
  <2>1. handler(kind, c) \in Handler /\ handler(kind, c).kind = kind /\ handler(kind, c).co = c
    BY HandlerTypes
  <2> QED
    BY <1>1, <1>5, <2>1, CountOfAppend DEF Plus, Wakers, Resumes
<1> HIDE DEF wk, ph
<1>6. ASSUME NEW c \in Coroutine, Spawn(c) PROVE Abstract!Spawn(c)
  <2>1. /\ ph[c] = "unborn" /\ ph' = [ph EXCEPT ![c] = "suspended"]
        /\ wk' = [wk EXCEPT ![c] = wk[c] + 1]
    BY <1>3, <1>4, <1>5, <1>6 DEF Spawn, Phase, Status, Suspended, Post
  <2> QED
    BY <1>6, <2>1 DEF Spawn, Abstract!Spawn, ph, wk
<1>7. ASSUME NEW c \in Coroutine, Resume(c) PROVE Abstract!Resume(c)
  <2>1. /\ ph[c] # "unborn" /\ ph' = ph
        /\ wk' = [wk EXCEPT ![c] = wk[c] + 1]
    BY <1>2, <1>4, <1>5, <1>7 DEF Resume, Phase, Suspended, Post
  <2> QED
    BY <1>7, <2>1 DEF Resume, Abstract!Resume, ph, wk
<1>8. ASSUME NEW c \in Coroutine, TimerExpire(c) PROVE Abstract!RunOut(c)
  <2>1. /\ ph[c] = "suspended" /\ ph' = ph
        /\ wk' = [wk EXCEPT ![c] = wk[c] + 1]
    BY <1>2, <1>4, <1>5, <1>8 DEF TimerExpire, Phase, Suspended, Post, PendingTimerIsAwaited
  <2> QED
    BY <1>8, <2>1 DEF TimerExpire, TimerOff, Ready, Abstract!RunOut, ph, wk
<1>9. ASSUME NEW c \in Coroutine, status[c] = "running", queue' = queue
      PROVE  ph[c] = "running" /\ wk' = wk /\ timer = [timer EXCEPT ![c] = FALSE]
             /\ ~timer[c]
  BY <1>1, <1>4, <1>9 DEF Phase, Suspended, PendingTimerIsAwaited
<1>10. ASSUME NEW c \in Coroutine, Yield(c) PROVE Abstract!Wait(c)
  <2>1. ph' = [ph EXCEPT ![c] = "suspended"]
    BY <1>3, <1>10 DEF Yield, Status, Suspended
  <2>2. ph[c] = "running" /\ wk' = wk /\ timer' = [timer EXCEPT ![c] = FALSE]
    BY <1>9, <1>10 DEF Yield
  <2> QED
    BY <1>10, <2>1, <2>2 DEF Yield, Abstract!Wait, ph, wk
<1>11. ASSUME NEW c \in Coroutine, YieldFor(c) PROVE Abstract!Wait(c)
  <2>1. ph' = [ph EXCEPT ![c] = "suspended"]
    BY <1>3, <1>11 DEF YieldFor, Status, Suspended
  <2>2. queue' = queue
    BY <1>11 DEF YieldFor, CancelInto, PendingTimerIsAwaited
  <2>3. ph[c] = "running" /\ wk' = wk
    BY <1>9, <1>11, <2>2 DEF YieldFor
  <2> QED
    BY <1>11, <2>1, <2>3 DEF YieldFor, Abstract!Wait, ph, wk
<1>12. ASSUME NEW c \in Coroutine, Finish(c) \/ Throw(c) PROVE Abstract!End(c)
  <2>1. ph' = [ph EXCEPT ![c] = "over"]
    BY <1>3, <1>12 DEF Finish, Throw, Status, Suspended
  <2>2. ph[c] = "running" /\ wk' = wk
    BY <1>9, <1>12 DEF Finish, Throw
  <2> QED
    BY <1>12, <2>1, <2>2 DEF Finish, Throw, Abstract!End, ph, wk
<1>13. ASSUME Stop PROVE Abstract!Close
  <2>1. ph' = ph /\ wk' = wk
    BY <1>1, <1>2, <1>13 DEF Stop
  <2> QED
    BY <1>13, <2>1 DEF Stop, Abstract!Close, ph, wk
<1>14. ASSUME RunHandler PROVE Abstract!Next \/ UNCHANGED Abstract!vars
  <2> DEFINE h == Head(queue)
             c == h.co
             t == Tail(queue)
  <2>1. queue # <<>> /\ Ready
    BY <1>14 DEF RunHandler, RunResume, RunTimeout, RunAborted
  <2>2. /\ h \in Handler /\ t \in Seq(Handler) /\ c \in Coroutine
        /\ Count(t) = Minus(wk, h)
        /\ h.kind \in Wakers => wk[c] > 0
        /\ status[c] # "unborn"
    <3>1. 1 \in DOMAIN queue /\ h = queue[1]
      BY <2>1
    <3> QED
      BY <1>1, <2>1, <3>1, CountOfTail DEF Handler, QueuedIsBorn
  <2> HIDE DEF h, t
  <2>3. ASSUME h.kind \in Wakers, c \notin cos, queue' = t, UNCHANGED <<status, timer, ios>>
        PROVE  Abstract!Drop(c)
    <3>1. ph[c] = "over"
      BY <1>4, <2>1, <2>2, <2>3 DEF Phase, SuspendedIsKept, Ready, Idle
    <3>2. ph' = ph /\ wk' = [wk EXCEPT ![c] = wk[c] - 1] /\ wk[c] > 0
      BY <1>1, <1>2, <2>2, <2>3 DEF Minus
    <3> QED
      BY <2>1, <2>3, <3>1, <3>2 DEF Ready, Abstract!Drop, ph, wk
  <2>4. CASE RunResume /\ c \in cos
    <3>1. /\ h.kind \in Wakers
          /\ status' = [status EXCEPT ![c] = "running"]
          /\ queue' = CancelInto(c, t)
          /\ timer' = [timer EXCEPT ![c] = FALSE]
          /\ UNCHANGED ios
      BY <2>4 DEF RunResume, TimerOff, Wakers, h, t
    <3>2. Count(queue') = Count(t)
      <4>1. handler("aborted", c) \in Handler /\ handler("aborted", c).kind = "aborted"
        BY <2>2, HandlerTypes
      <4> QED
        BY <2>2, <3>1, <4>1, CountOfAppend DEF CancelInto, Plus, Wakers, Resumes
    <3>3. wk' = [wk EXCEPT ![c] = wk[c] - 1] /\ wk[c] > 0
      BY <1>1, <2>2, <3>1, <3>2 DEF Minus
    <3>4. ph[c] = "suspended" /\ ph' = [ph EXCEPT ![c] = "running"]
      BY <1>3, <1>4, <2>1, <2>2, <2>4, <3>1
         DEF Phase, KeptIsLive, Ready, Idle, Status, Suspended
    <3>5. \A d \in Coroutine : ph[d] # "running"
      BY <1>4, <2>1 DEF Ready, Idle, Phase
    <3>6. Abstract!Run(c)
      BY <2>1, <2>2, <3>1, <3>3, <3>4, <3>5 DEF Ready, Abstract!Run, ph, wk
    <3> QED
      BY <2>2, <3>6 DEF Abstract!Next
  <2>5. CASE RunResume /\ c \notin cos
    <3>1. h.kind \in Wakers /\ queue' = t /\ UNCHANGED <<status, timer, ios>>
      BY <2>5 DEF RunResume, Wakers, h, t
    <3> QED
      BY <2>2, <2>3, <2>5, <3>1 DEF Abstract!Next
  <2>6. CASE RunTimeout /\ queue' = t /\ c \notin cos
    <3>1. h.kind \in Wakers /\ UNCHANGED <<status, timer, ios>>
      BY <2>6 DEF RunTimeout, Wakers, h
    <3> QED
      BY <2>2, <2>3, <2>6, <3>1 DEF Abstract!Next
  <2>7. CASE RunTimeout /\ queue' = Append(t, handler("expired", c))
    <3>1. h.kind \in Wakers /\ UNCHANGED <<status, timer, ios>>
      BY <2>7 DEF RunTimeout, Wakers, h
    <3>2. /\ handler("expired", c) \in Handler
          /\ handler("expired", c).kind \in Wakers /\ handler("expired", c).co = c
      BY <2>2, HandlerTypes DEF Wakers, Resumes
    <3>3. Count(t) = [wk EXCEPT ![c] = wk[c] - 1]
      BY <2>2, <3>1 DEF Minus
    <3>4. wk' = [Count(t) EXCEPT ![c] = Count(t)[c] + 1]
      BY <1>1, <2>2, <2>7, <3>2, CountOfAppend DEF Plus
    <3>5. wk' = wk /\ ph' = ph
      BY <1>1, <1>2, <2>2, <3>1, <3>3, <3>4
    <3> QED
      BY <3>1, <3>5 DEF Abstract!vars, ph, wk
  <2>8. CASE RunAborted
    <3>1. queue' = t /\ h.kind \notin Wakers /\ UNCHANGED <<status, timer, ios>>
      BY <2>8 DEF RunAborted, Wakers, Resumes, h, t
    <3>2. wk' = wk /\ ph' = ph
      BY <1>1, <1>2, <2>2, <3>1 DEF Minus
    <3> QED
      BY <3>1, <3>2 DEF Abstract!vars, ph, wk
  <2>9. RunTimeout => \/ queue' = Append(t, handler("expired", c))
                      \/ c \notin cos /\ queue' = t
    BY DEF RunTimeout, h, t
  <2> QED
    BY <1>14, <2>4, <2>5, <2>6, <2>7, <2>8, <2>9 DEF RunHandler
<1>15. CASE UNCHANGED vars
  <2>1. ph' = ph /\ wk' = wk
    BY <1>1, <1>2, <1>15 DEF vars
  <2> QED
    BY <1>15, <2>1 DEF vars, Abstract!vars, ph, wk
<1> QED
  BY <1>6, <1>7, <1>8, <1>10, <1>11, <1>12, <1>13, <1>14, <1>15
     DEF Next, Suspend, Abstract!Next

\* Whatever is posted, expires and is cancelled, in whatever order: a resume is
\* worth one wake-up, a limit one more at most, and nobody runs without one.
THEOREM SpendsWakeups == Spec => Abstract!Spec
<1>1. Init => Abstract!Init /\ QueuedIsBorn
  <2> SUFFICES ASSUME Init PROVE Abstract!Init /\ QueuedIsBorn
    OBVIOUS
  <2>1. \A c \in Coroutine : Of(queue, c) = {}
    BY DEF Init, Of
  <2>2. \A c \in Coroutine : Unspent(c) = 0
    BY <2>1, FS_EmptySet DEF Unspent, Of, Wakers
  <2>3. \A c \in Coroutine : Phase(c) = "unborn"
    BY DEF Init, Phase, Suspended
  <2> QED
    BY <2>2, <2>3 DEF Init, Abstract!Init, QueuedIsBorn
<1>2. Spec => [](IInv /\ QueuedIsBorn)
  <2>1. IInv /\ QueuedIsBorn /\ [Next]_vars => QueuedIsBorn'
    BY NextBorn
  <2> QED
    BY <1>1, <2>1, Inductive, PTL DEF Spec
<1>3. IInv /\ QueuedIsBorn /\ [Next]_vars => [Abstract!Next]_(Abstract!vars)
  BY StepIsWakeup
<1> QED
  BY <1>1, <1>2, <1>3, PTL DEF Spec, Abstract!Spec
=============================================================================
