------------------------------ MODULE Schedule ------------------------------
(***************************************************************************)
(* The coroutine scheduler (schedule.hpp, schedule.cpp).                   *)
(*                                                                         *)
(* One io thread runs boost::asio's handlers one at a time, in the order   *)
(* they were posted.  Resuming a coroutine is posting a handler: a resume  *)
(* is never lost, and it is not tied to the wait it was meant for.         *)
(* What the coroutine bodies do is left open: a running body may resume    *)
(* any coroutine, spawn, yield, yield_for, return or throw; any other      *)
(* thread may resume, spawn and stop the io_service.                       *)
(***************************************************************************)
EXTENDS Naturals, Sequences, FiniteSets

CONSTANTS
    Coroutine,   \* the coroutines that may ever be spawned
    MaxQueue     \* bound: clients post only into a queue shorter than this

ASSUME MaxQueueIsNat == MaxQueue \in Nat

VARIABLES
    status,      \* what each coroutine is doing
    cos,         \* Schedule::cos_, the coroutines the scheduler keeps alive
    timer,       \* TRUE iff the coroutine's timer_ has a wait pending
    queue,       \* the handlers posted to the io_service, oldest first
    ios          \* the io_service's run loop

vars == <<status, cos, timer, queue, ios>>

\* Where a suspended coroutine is: before its first step, in yield, in yield_for.
Suspended == {"ready", "yield", "yield_for"}
Status == Suspended \cup {"unborn", "running", "done", "failed"}

(***************************************************************************)
(* The handlers.  "resume" is posted by a call of Schedule::resume and     *)
(* "expired" by the timer's handler, which calls Schedule::resume too: the *)
(* two run the same code and are told apart only to say who posted them.   *)
(* "timeout" is the timer's handler with no error, "aborted" the same      *)
(* handler with operation_aborted.                                         *)
(***************************************************************************)
Resumes == {"resume", "expired"}
Handler == [kind : Resumes \cup {"timeout", "aborted"}, co : Coroutine]

handler(kind, c) == [kind |-> kind, co |-> c]

\* A variant with a bug: the coroutine is posted, not a handler that resumes it.
PostBare(kind, c) == Append(queue, c)

Post(kind, c) == Append(queue, handler(kind, c))

TypeOK ==
    /\ status \in [Coroutine -> Status]
    /\ cos \in SUBSET Coroutine
    /\ timer \in [Coroutine -> BOOLEAN]
    /\ queue \in Seq(Handler)
    /\ ios \in {"running", "stopped", "terminated"}

Idle == \A c \in Coroutine : status[c] # "running"
Holds(q, kinds, c) == \E i \in DOMAIN q : q[i].kind \in kinds /\ q[i].co = c
Queued(kinds, c) == Holds(queue, kinds, c)

Init ==
    /\ status = [c \in Coroutine |-> "unborn"]
    /\ cos = {}
    /\ timer = [c \in Coroutine |-> FALSE]
    /\ queue = <<>>
    /\ ios = "running"

-----------------------------------------------------------------------------
(* The clients: the running coroutine's body and the other threads.         *)

\* Schedule::spawn: keep the coroutine alive, post its first resume.
Spawn(c) ==
    /\ ios # "terminated"
    /\ status[c] = "unborn"
    /\ status' = [status EXCEPT ![c] = "ready"]
    /\ cos' = cos \cup {c}
    /\ queue' = Post("resume", c)
    /\ UNCHANGED <<timer, ios>>

\* Schedule::resume.  Any thread may call it; the reference it holds is weak,
\* so the coroutine may be over already.
Resume(c) ==
    /\ ios # "terminated"
    /\ status[c] # "unborn"
    /\ Len(queue) < MaxQueue
    /\ queue' = Post("resume", c)
    /\ UNCHANGED <<status, cos, timer, ios>>

\* A variant with a bug: a coroutine that yields is erased like one that is over.
YieldErased(c) ==
    /\ ios # "terminated"
    /\ status[c] = "running"
    /\ status' = [status EXCEPT ![c] = "yield"]
    /\ cos' = cos \ {c}
    /\ UNCHANGED <<timer, queue, ios>>

\* CoroutineRef::yield, called by the running body.
Yield(c) ==
    /\ ios # "terminated"
    /\ status[c] = "running"
    /\ status' = [status EXCEPT ![c] = "yield"]
    /\ UNCHANGED <<cos, timer, queue, ios>>

\* A pending wait is cancelled: its handler is posted with operation_aborted.
CancelInto(c, q) == IF timer[c] THEN Append(q, handler("aborted", c)) ELSE q

\* CoroutineRef::yield_for: expires_from_now cancels a pending wait, then a
\* new one starts and the body is suspended.
YieldFor(c) ==
    /\ ios # "terminated"
    /\ status[c] = "running"
    /\ status' = [status EXCEPT ![c] = "yield_for"]
    /\ timer' = [timer EXCEPT ![c] = TRUE]
    /\ queue' = CancelInto(c, queue)
    /\ UNCHANGED <<cos, ios>>

\* The body returns: ps_() comes back finished and the coroutine is erased.
Finish(c) ==
    /\ ios # "terminated"
    /\ status[c] = "running"
    /\ status' = [status EXCEPT ![c] = "done"]
    /\ cos' = cos \ {c}
    /\ UNCHANGED <<timer, queue, ios>>

\* A variant with a bug: the run loop swallows the exception and goes on.
ThrowSwallowed(c) ==
    /\ ios # "terminated"
    /\ status[c] = "running"
    /\ status' = [status EXCEPT ![c] = "failed"]
    /\ UNCHANGED <<cos, timer, queue, ios>>

\* An exception leaves the body: ps_() rethrows it through the handler, before
\* the erase, and out of the io thread, which ends the process.
Throw(c) ==
    /\ ios # "terminated"
    /\ status[c] = "running"
    /\ status' = [status EXCEPT ![c] = "failed"]
    /\ ios' = "terminated"
    /\ UNCHANGED <<cos, timer, queue>>

\* io_service::stop: a handler that is running goes on, no other one starts.
Stop ==
    /\ ios = "running"
    /\ ios' = "stopped"
    /\ UNCHANGED <<status, cos, timer, queue>>

-----------------------------------------------------------------------------
(* The io thread.                                                           *)

Ready == ios = "running" /\ Idle

TimerOff(c) == timer' = [timer EXCEPT ![c] = FALSE]

\* The handler posted by Schedule::resume.  A coroutine that is over cannot be
\* locked; a live one has its timer cancelled and runs.
RunResume ==
    /\ Ready
    /\ queue # <<>> /\ Head(queue).kind \in Resumes
    /\ LET c == Head(queue).co IN
       IF c \in cos
       THEN /\ status' = [status EXCEPT ![c] = "running"]
            /\ queue' = CancelInto(c, Tail(queue))
            /\ TimerOff(c)
       ELSE /\ queue' = Tail(queue)
            /\ UNCHANGED <<status, timer>>
    /\ UNCHANGED <<cos, ios>>

\* The timer's handler calls Schedule::resume.  Once the coroutine is over the
\* handler reads sch_ of a destroyed object: what it reads there may still lock
\* the scheduler, and then it posts a resume that finds no coroutine, or not.
RunTimeout ==
    /\ Ready
    /\ queue # <<>> /\ Head(queue).kind = "timeout"
    /\ LET c == Head(queue).co IN
       \/ queue' = Append(Tail(queue), handler("expired", c))
       \/ c \notin cos /\ queue' = Tail(queue)
    /\ UNCHANGED <<status, cos, timer, ios>>

\* The timer's handler called with an error returns at once.
RunAborted ==
    /\ Ready
    /\ queue # <<>> /\ Head(queue).kind = "aborted"
    /\ queue' = Tail(queue)
    /\ UNCHANGED <<status, cos, timer, ios>>

\* A variant with a bug: a timer that fires again and again.
TimerRepeats(c) ==
    /\ Ready
    /\ timer[c] /\ Len(queue) < MaxQueue
    /\ queue' = Post("timeout", c)
    /\ UNCHANGED <<status, cos, timer, ios>>

\* Between two handlers the reactor queues the handler of a timer that has
\* expired.  From then on timer_.cancel no longer reaches it.
TimerExpire(c) ==
    /\ Ready
    /\ timer[c]
    /\ TimerOff(c)
    /\ queue' = Post("timeout", c)
    /\ UNCHANGED <<status, cos, ios>>

-----------------------------------------------------------------------------
RunHandler == RunResume \/ RunTimeout \/ RunAborted
Suspend(c) == Yield(c) \/ YieldFor(c) \/ Finish(c) \/ Throw(c)

Next ==
    \/ \E c \in Coroutine : Spawn(c) \/ Resume(c) \/ Suspend(c) \/ TimerExpire(c)
    \/ Stop
    \/ RunHandler

Spec == Init /\ [][Next]_vars

\* The io thread goes on while it has handlers, and a body that runs suspends
\* itself, returns or throws in the end.  An expired timer is seen by the
\* reactor, which runs once per round of the queue but never while a body
\* runs: hence strong fairness.
Fairness ==
    /\ WF_vars(RunHandler)
    /\ \A c \in Coroutine : WF_vars(Suspend(c)) /\ SF_vars(TimerExpire(c))

FairSpec == Spec /\ Fairness

-----------------------------------------------------------------------------
(* Properties.                                                              *)

\* One body runs at a time, although every thread of the process may resume
\* any coroutine at any moment: the bodies share state without locks.
OneRunning ==
    \A c, d \in Coroutine : status[c] = "running" /\ status[d] = "running" => c = d

\* assert(ps_) in Coroutine::resume: whatever the handlers that are still
\* queued, the io thread only ever locks coroutines that are suspended.  One
\* whose body returned or threw would fail the assertion.
LockedIsSuspended ==
    Ready => \A c \in cos : status[c] \in Suspended

\* A coroutine that no longer exists has been erased and one that exists has
\* not: otherwise its resumes are dropped and it waits for ever.
SuspendedIsKept ==
    \A c \in Coroutine : status[c] \in Suspended \cup {"running"} => c \in cos

\* A coroutine waiting with a limit always has something under way that will
\* wake it: its pending timer, its timer's handler, or a queued resume.
TimedWaitEnds ==
    \A c \in Coroutine :
        status[c] = "yield_for" =>
            timer[c] \/ Queued(Resumes \cup {"timeout"}, c)

\* A spawned coroutine that has not started has its first resume queued.
SpawnedStarts ==
    \A c \in Coroutine : status[c] = "ready" => Queued({"resume"}, c)

\* No coroutine is forgotten, from its spawning to its end.
NoneForgotten == SuspendedIsKept /\ SpawnedStarts /\ TimedWaitEnds

\* A timer is pending only while its coroutine is in yield_for: the time limit
\* of a wait that is over never starts to run for a later one.
PendingTimerIsAwaited ==
    \A c \in Coroutine : timer[c] => status[c] = "yield_for"

\* The queue implements the wake-ups: every handler queued for a coroutine,
\* except the aborted ones, is a wake-up that is not spent yet, and no step of
\* the io thread makes two of one or runs a coroutine without spending one.  And
\* fairly so: a coroutine with a wake-up to spend runs, and a limit runs out.
Phase(c) ==
    CASE status[c] = "unborn" -> "unborn"
      [] status[c] \in Suspended -> "suspended"
      [] status[c] = "running" -> "running"
      [] OTHER -> "over"

Unspent(c) ==
    Cardinality({i \in DOMAIN queue :
        queue[i].co = c /\ queue[i].kind \in Resumes \cup {"timeout"}})

Abstract == INSTANCE Wakeups WITH
    phase <- [c \in Coroutine |-> Phase(c)],
    limit <- timer,
    wakeups <- [c \in Coroutine |-> Unspent(c)],
    open <- ios = "running"

ImplementsWakeups == Abstract!FairSpec
=============================================================================
