----------------------------- MODULE FixBuilder -----------------------------
(***************************************************************************)
(* FixBuilder (plugin/fix_client/fix_builder.cpp) with the Future it waits *)
(* on (future.hpp), over the scheduler.                                    *)
(*                                                                         *)
(* A coroutine, one per HTTP connection, calls create: it registers a      *)
(* promise under the FIX session, sends the request and waits for a        *)
(* response, with a limit.  QuickFIX's thread calls on_recv with whatever  *)
(* the counterparty answers.  The two threads meet in the map of promises, *)
(* in the promise's value and in the scheduler's queue.                    *)
(***************************************************************************)
EXTENDS Naturals, Sequences, FiniteSets

CONSTANTS
    Coroutine,      \* the connections' coroutines
    Session,        \* the FIX sessions
    RequestType,    \* the MsgTypes of requests, of NewOrderSingle, Other, and
                    \* None for a request that has none
    ResponseType,   \* the MsgTypes of responses, a subset of {ExecutionReport, Other}
    NewOrderSingle, ExecutionReport, Other,
    None,           \* no promise, no response
    MaxCalls,       \* bound: create calls of one coroutine
    MaxReplies,     \* bound: responses of the counterparty to one order
    MaxQueue        \* Schedule's bound on clients; on_recv waits for room

\* An empty map entry is no coroutine.
ASSUME NoneIsNoCoroutine == None \notin Coroutine
ASSUME BoundsAreNat == MaxCalls \in Nat /\ MaxReplies \in Nat /\ MaxQueue \in Nat

VARIABLES
    status, cos, timer, queue, ios,   \* the scheduler's
    pc,          \* where in create each coroutine is
    up,          \* env.up of its call, the last one if it is outside
    type,        \* the MsgType of its request
    calls,       \* how many calls it has made
    pmss,        \* FixBuilder::pmss_, whose promise is registered for a session
    value,       \* value_ of the promise of each coroutine's call
    sent,        \* the orders on the wire, with the session they were sent on
    replies,     \* the counterparty's answers so far
    result,      \* how create ended, for each order
    contended    \* history: whose call has shared its session with another one

schVars == <<status, cos, timer, queue, ios>>
callVars == <<pc, up, type, calls>>
fixVars == <<callVars, pmss, value, sent, replies, result, contended>>
vars == <<schVars, fixVars>>

Sch == INSTANCE Schedule

\* The n-th request of a coroutine, what its ClOrdID names.
Order == [co : Coroutine, n : 1..MaxCalls]

\* A message of the counterparty: the order it answers, the session it comes on.
Reply == [order : Order, session : Session, type : ResponseType, n : 1..MaxReplies]

\* The places in create: outside, before send, before get_for, in get_for, and
\* about to leave the scope that erases the promise.
Place == {"idle", "send", "loop", "waiting", "exit"}

Result == [how : {"pending", "error", "null", "timeout"}, reply : {None}]
          \cup [how : {"response"}, reply : Reply]

TypeOK ==
    /\ pc \in [Coroutine -> Place]
    /\ up \in [Coroutine -> Session \cup {None}]
    /\ type \in [Coroutine -> RequestType \cup {None}]
    /\ calls \in [Coroutine -> 0..MaxCalls]
    /\ pmss \in [Session -> Coroutine \cup {None}]
    /\ value \in [Coroutine -> Reply \cup {None}]
    /\ sent \in SUBSET [order : Order, session : Session]
    /\ replies \in SUBSET Reply
    /\ result \in [Order -> Result]
    /\ contended \in SUBSET Coroutine

order(c) == [co |-> c, n |-> calls[c]]
Active(c) == pc[c] # "idle"
Uses(c, s) == Active(c) /\ up[c] = s

Init ==
    /\ Sch!Init
    /\ pc = [c \in Coroutine |-> "idle"]
    /\ up = [c \in Coroutine |-> None]
    /\ type = [c \in Coroutine |-> None]
    /\ calls = [c \in Coroutine |-> 0]
    /\ pmss = [s \in Session |-> None]
    /\ value = [c \in Coroutine |-> None]
    /\ sent = {}
    /\ replies = {}
    /\ result = [o \in Order |-> [how |-> "pending", reply |-> None]]
    /\ contended = {}

\* The body is the one that runs, and it is at this place in create.
At(c, place) == status[c] = "running" /\ ios # "terminated" /\ pc[c] = place
Goto(c, place) == pc' = [pc EXCEPT ![c] = place]
NewCall(c) == calls[c] < MaxCalls /\ calls' = [calls EXCEPT ![c] = @ + 1]
End(c, how, reply) == result' = [result EXCEPT ![order(c)] = [how |-> how, reply |-> reply]]

-----------------------------------------------------------------------------
(* FixBuilder::create, in the coroutine.                                    *)

\* The request lacks a field that names the session, and the lookup throws, or
\* it names no known session, and create returns a null message.
CreateNoSession(c) ==
    /\ At(c, "idle")
    /\ NewCall(c)
    /\ \E how \in {"error", "null"} :
          result' = [result EXCEPT ![[co |-> c, n |-> calls[c] + 1]] =
                        [how |-> how, reply |-> None]]
    /\ UNCHANGED <<schVars, pc, up, type, pmss, value, sent, replies, contended>>

\* The session is found: a new promise replaces whatever the map holds for it.
Create(c, s, t) ==
    /\ At(c, "idle")
    /\ NewCall(c)
    /\ up' = [up EXCEPT ![c] = s]
    /\ type' = [type EXCEPT ![c] = t]
    /\ Goto(c, "send")
    /\ pmss' = [pmss EXCEPT ![s] = c]
    /\ value' = [value EXCEPT ![c] = None]
    /\ LET others == {d \in Coroutine : Uses(d, s)} IN
       contended' = IF others = {} THEN contended \ {c}
                                   ELSE contended \cup others \cup {c}
    /\ UNCHANGED <<schVars, sent, replies, result>>

\* env.up->send(request).
Send(c) ==
    /\ At(c, "send")
    /\ sent' = sent \cup {[order |-> order(c), session |-> up[c]]}
    /\ Goto(c, "loop")
    /\ UNCHANGED <<schVars, up, type, calls, pmss, value, replies, result, contended>>

\* A variant with a bug: ftr.get, which has no limit.
WaitForEver(c) ==
    /\ At(c, "loop")
    /\ Sch!Yield(c)
    /\ Goto(c, "waiting")
    /\ UNCHANGED <<up, type, calls, pmss, value, sent, replies, result, contended>>

\* ftr.get_for: the coroutine waits for a resume or for the limit.
Wait(c) ==
    /\ At(c, "loop")
    /\ Sch!YieldFor(c)
    /\ Goto(c, "waiting")
    /\ UNCHANGED <<up, type, calls, pmss, value, sent, replies, result, contended>>

\* The only response create returns: an order's execution report.
Answers(c) == type[c] = NewOrderSingle /\ value[c].type = ExecutionReport

\* A variant with a bug: value_.value() where value_ may be empty.
WakeUnchecked(c) ==
    /\ At(c, "waiting")
    /\ End(c, "response", value[c]) /\ Goto(c, "exit")
    /\ UNCHANGED <<schVars, up, type, calls, pmss, value, sent, replies, contended>>

\* get_for returns what value_ holds, now or since an earlier turn of the loop.
\* No value is a timeout.  Only with a value is the request's own MsgType looked
\* up, which throws if there is none.  A value that is not the response is waited
\* past.
Wake(c) ==
    /\ At(c, "waiting")
    /\ \/ value[c] = None /\ End(c, "timeout", None) /\ Goto(c, "exit")
       \/ value[c] # None /\ type[c] = None /\ End(c, "error", None) /\ Goto(c, "exit")
       \/ value[c] # None /\ Answers(c) /\ End(c, "response", value[c]) /\ Goto(c, "exit")
       \/ /\ value[c] # None /\ type[c] # None /\ ~Answers(c)
          /\ Goto(c, "loop")
          /\ UNCHANGED result
    /\ UNCHANGED <<schVars, up, type, calls, pmss, value, sent, replies, contended>>

\* A variant with a bug: the scope is left and the promise stays.
ExitKeeping(c) ==
    /\ At(c, "exit")
    /\ Goto(c, "idle")
    /\ UNCHANGED <<schVars, up, type, calls, pmss, value, sent, replies, result, contended>>

\* The scope is left, by return or by exception: the session's entry is erased,
\* whoever's promise it is.
Exit(c) ==
    /\ At(c, "exit")
    /\ pmss' = [pmss EXCEPT ![up[c]] = None]
    /\ Goto(c, "idle")
    /\ UNCHANGED <<schVars, up, type, calls, value, sent, replies, result, contended>>

\* The connection's coroutine comes and goes between calls.
Open(c) == Sch!Spawn(c) /\ UNCHANGED fixVars
Close(c) == pc[c] = "idle" /\ Sch!Finish(c) /\ UNCHANGED fixVars

-----------------------------------------------------------------------------
(* FixBuilder::on_recv, in QuickFIX's thread, under pmss_mtx_: the promise   *)
(* registered for the session gets the response and its coroutine a resume.  *)

\* Variants with a bug: the caller's entry is erased with the delivery, every
\* caller of the session gets the response, or QuickFIX's thread runs the
\* coroutine itself.
DeliverErasing(r) ==
    LET c == pmss[r.session] IN
    /\ pmss' = [pmss EXCEPT ![r.session] = None]
    /\ IF c = None
       THEN UNCHANGED <<schVars, value>>
       ELSE value' = [value EXCEPT ![c] = r] /\ Sch!Resume(c)
DeliverToAll(r) ==
    /\ value' = [d \in Coroutine |-> IF Uses(d, r.session) THEN r ELSE value[d]]
    /\ UNCHANGED <<schVars, pmss>>
DeliverInline(r) ==
    LET c == pmss[r.session] IN
    /\ UNCHANGED <<cos, timer, queue, ios, pmss>>
    /\ IF c = None
       THEN UNCHANGED <<status, value>>
       ELSE /\ value' = [value EXCEPT ![c] = r]
            /\ status' = [status EXCEPT ![c] = "running"]

\* Promise::set: the value is replaced and the coroutine resumed.
Deliver(r) ==
    /\ LET c == pmss[r.session] IN
       IF c = None
       THEN UNCHANGED <<schVars, value>>
       ELSE /\ value' = [value EXCEPT ![c] = r]
            /\ Sch!Resume(c)
    /\ UNCHANGED pmss

OnRecv(r) ==
    /\ [order |-> r.order, session |-> r.session] \in sent
    /\ r.n = Cardinality({p \in replies : p.order = r.order}) + 1
    /\ replies' = replies \cup {r}
    /\ Deliver(r)
    /\ UNCHANGED <<callVars, sent, result, contended>>

\* The io thread's own steps, and the plugin being taken down.
IoThread == Sch!RunHandler /\ UNCHANGED fixVars
TimerExpire(c) == Sch!TimerExpire(c) /\ UNCHANGED fixVars
Stop == Sch!Stop /\ UNCHANGED fixVars

Body(c) ==
    \/ CreateNoSession(c)
    \/ \E s \in Session, t \in RequestType : Create(c, s, t)
    \/ Send(c) \/ Wait(c) \/ Wake(c) \/ Exit(c)
    \/ Close(c)

Next ==
    \/ \E c \in Coroutine : Open(c) \/ Body(c) \/ TimerExpire(c)
    \/ \E r \in Reply : OnRecv(r)
    \/ IoThread
    \/ Stop

Spec == Init /\ [][Next]_vars

\* The io thread goes on, a body that runs goes on, timers are noticed.  Nothing
\* is assumed of the counterparty: it may never answer.
Fairness ==
    /\ WF_vars(IoThread)
    /\ \A c \in Coroutine : WF_vars(Body(c)) /\ SF_vars(TimerExpire(c))

FairSpec == Spec /\ Fairness

-----------------------------------------------------------------------------
(* Properties.                                                              *)

\* The map holds promises of calls in progress on that very session: after a
\* call is over nothing of it can be reached from QuickFIX's thread.
PromiseIsLive ==
    \A s \in Session : pmss[s] # None => Uses(pmss[s], s)

\* A call that shares its session with no other one stays registered until it
\* leaves, so an answer that comes in time reaches it.
RegisteredUnlessContended ==
    \A c \in Coroutine :
        Active(c) /\ c \notin contended => pmss[up[c]] = c

\* A response is handed to at most one caller, and to one whose order went out on
\* the session it came on.
OneTaker ==
    \A o, p \in Order :
        result[o].how = "response" =>
            /\ [order |-> o, session |-> result[o].reply.session] \in sent
            /\ result[p].how = "response" /\ result[p].reply = result[o].reply
               => o = p

\* The calls and QuickFIX's thread use the scheduler as its clients may.
ImplementsSchedule == Sch!Spec

\* create comes back, with the response or by TimeoutException, whatever other
\* calls do to its map entry: unless the io_service is stopped, or a response of
\* another type has come for it, which it waits past.
EveryCreateEnds ==
    \A c \in Coroutine :
        Active(c) ~> \/ ~Active(c)
                     \/ ios # "running"
                     \/ value[c] # None /\ type[c] # None /\ ~Answers(c)

\* A create that has no execution report to return throws TimeoutException.
TimeoutThrown ==
    \A c \in Coroutine : Active(c) ~> ~Active(c) \/ ios # "running"

\* The response create returns answers the request it was called with.
ReplyMatches ==
    \A o \in Order : result[o].how = "response" => result[o].reply.order = o
=============================================================================
