-------------------------- MODULE FixBuilderProofs --------------------------
(***************************************************************************)
(* Proofs about FixBuilder, for any coroutines, sessions, message types    *)
(* and bounds.                                                             *)
(***************************************************************************)
EXTENDS FixBuilder, FiniteSetTheorems, TLAPS

SchP == INSTANCE ScheduleProofs

-----------------------------------------------------------------------------
(* Types.                                                                   *)

\* A call in progress has a number and a session.
ActiveCall ==
    \A c \in Coroutine : Active(c) => calls[c] # 0 /\ up[c] \in Session

Typed == TypeOK /\ ActiveCall

\* A call in progress stands for one of the orders.
LEMMA OrderOfActive ==
    ASSUME Typed, NEW c \in Coroutine, Active(c)
    PROVE  order(c) \in Order
<1>1. calls[c] \in 1..MaxCalls
  BY BoundsAreNat DEF Typed, TypeOK, ActiveCall
<1> QED
  BY <1>1 DEF order, Order

\* The steps of create keep every value in its type.
LEMMA BodyTyped ==
    ASSUME Typed, NEW c \in Coroutine, Body(c)
    PROVE  Typed'
<1> USE BoundsAreNat DEF Typed, TypeOK, ActiveCall, Place, callVars, Active
<1>1. CASE CreateNoSession(c)
  <2>1. /\ calls' \in [Coroutine -> 0..MaxCalls]
        /\ \A d \in Coroutine : calls[d] # 0 => calls'[d] # 0
    BY <1>1 DEF CreateNoSession, NewCall
  <2>2. PICK how \in {"error", "null"} :
          result' = [result EXCEPT ![[co |-> c, n |-> calls[c] + 1]] =
                        [how |-> how, reply |-> None]]
    BY <1>1 DEF CreateNoSession
  <2>3. [how |-> how, reply |-> None] \in Result
    BY DEF Result
  <2>4. result' \in [Order -> Result]
    BY <2>2, <2>3
  <2> QED
    BY <1>1, <2>1, <2>4 DEF CreateNoSession
<1>2. ASSUME NEW s \in Session, NEW t \in RequestType, Create(c, s, t)
      PROVE  Typed'
  BY <1>2 DEF Create, NewCall, Goto, At
<1>3. CASE Send(c)
  <2>1. order(c) \in Order /\ up[c] \in Session
    BY <1>3, OrderOfActive DEF Send, At
  <2>2. sent' \in SUBSET [order : Order, session : Session]
    BY <1>3, <2>1 DEF Send
  <2> QED
    BY <1>3, <2>2 DEF Send, At, Goto
<1>4. CASE Wait(c)
  BY <1>4 DEF Wait, At, Goto
<1>5. CASE Wake(c)
  <2>1. ASSUME NEW how, NEW reply, End(c, how, reply),
               [how |-> how, reply |-> reply] \in Result
        PROVE  result' \in [Order -> Result]
    BY <2>1 DEF End
  <2>2. /\ \A how \in {"timeout", "error"} : [how |-> how, reply |-> None] \in Result
        /\ value[c] # None => [how |-> "response", reply |-> value[c]] \in Result
    BY DEF Result
  <2>3. \/ UNCHANGED result
        \/ \E how \in {"timeout", "error"} : End(c, how, None)
        \/ value[c] # None /\ End(c, "response", value[c])
    BY <1>5 DEF Wake
  <2>4. result' \in [Order -> Result]
    BY <2>1, <2>2, <2>3
  <2> QED
    BY <1>5, <2>4 DEF Wake, At, Goto
<1>6. CASE Exit(c)
  BY <1>6 DEF Exit, At, Goto
<1>7. CASE Close(c)
  BY <1>7 DEF Close, fixVars
<1> QED
  BY <1>1, <1>2, <1>3, <1>4, <1>5, <1>6, <1>7 DEF Body

\* Every value stays in its type: the map holds coroutines, a promise holds a
\* message of the counterparty, and an order in flight is one that was made.
LEMMA NextTyped == Typed /\ [Next]_vars => Typed'
<1> SUFFICES ASSUME Typed, [Next]_vars PROVE Typed'
  OBVIOUS
<1> USE DEF Typed, TypeOK, ActiveCall, callVars, fixVars, Active
<1>1. ASSUME NEW c \in Coroutine, Open(c) \/ TimerExpire(c) PROVE Typed'
  BY <1>1 DEF Open, TimerExpire
<1>2. ASSUME NEW c \in Coroutine, Body(c) PROVE Typed'
  BY <1>2, BodyTyped
<1>3. ASSUME NEW r \in Reply, OnRecv(r) PROVE Typed'
  <2>1. value' \in [Coroutine -> Reply \cup {None}]
    BY <1>3 DEF OnRecv, Deliver
  <2> QED
    BY <1>3, <2>1 DEF OnRecv, Deliver
<1>4. CASE IoThread \/ Stop \/ UNCHANGED vars
  BY <1>4 DEF IoThread, Stop, vars
<1> QED
  BY <1>1, <1>2, <1>3, <1>4 DEF Next

LEMMA InitTyped == Init => Typed
BY BoundsAreNat DEF Init, Typed, TypeOK, ActiveCall, Active, Place, Result

\* The type invariant of the calls, the promises, the wire and the results.
THEOREM TypeCorrect == Spec => []TypeOK
BY InitTyped, NextTyped, PTL DEF Spec, Typed

-----------------------------------------------------------------------------
(* FixBuilder is a client of the scheduler: what is proved of the scheduler  *)
(* for any clients holds while the calls and QuickFIX's thread use it.       *)

\* A step of create, of on_recv or of the io thread is a step of the scheduler
\* or leaves it alone.
LEMMA NextSchedule == TypeOK /\ [Next]_vars => [Sch!Next]_(Sch!vars)
<1> SUFFICES ASSUME TypeOK, [Next]_vars PROVE Sch!Next \/ UNCHANGED Sch!vars
  OBVIOUS
<1> USE DEF Sch!vars, schVars
<1>1. ASSUME NEW c \in Coroutine, Open(c) PROVE Sch!Next
  BY <1>1 DEF Open, Sch!Next
<1>2. ASSUME NEW c \in Coroutine, Body(c) PROVE Sch!Next \/ UNCHANGED Sch!vars
  <2>1. CASE Wait(c)
    BY <2>1 DEF Wait, Sch!Next, Sch!Suspend
  <2>2. CASE Close(c)
    BY <2>2 DEF Close, Sch!Next, Sch!Suspend
  <2>3. CASE ~Wait(c) /\ ~Close(c)
    BY <1>2, <2>3 DEF Body, CreateNoSession, Create, Send, Wake, Exit
  <2> QED
    BY <2>1, <2>2, <2>3
<1>3. ASSUME NEW c \in Coroutine, TimerExpire(c) PROVE Sch!Next
  BY <1>3 DEF TimerExpire, Sch!Next
<1>4. ASSUME NEW r \in Reply, OnRecv(r) PROVE Sch!Next \/ UNCHANGED Sch!vars
  <2> DEFINE c == pmss[r.session]
  <2>1. CASE c = None
    BY <1>4, <2>1 DEF OnRecv, Deliver
  <2>2. CASE c # None
    <3>1. c \in Coroutine
      BY <2>2 DEF TypeOK, Reply
    <3>2. Sch!Resume(c)
      BY <1>4, <2>2 DEF OnRecv, Deliver
    <3> QED
      BY <3>1, <3>2 DEF Sch!Next
  <2> QED
    BY <2>1, <2>2
<1>5. CASE IoThread \/ Stop \/ UNCHANGED vars
  BY <1>5 DEF IoThread, Stop, vars, Sch!Next
<1> QED
  BY <1>1, <1>2, <1>3, <1>4, <1>5 DEF Next

\* Calls of create, responses and scope exits use the scheduler as it is: each
\* step is a step of Schedule or leaves it alone.
THEOREM RefinesSchedule == Spec => ImplementsSchedule
<1>1. Init => Sch!Init
  BY DEF Init
<1> QED
  BY <1>1, TypeCorrect, NextSchedule, PTL
  DEF Spec, Sch!Spec, ImplementsSchedule

\* The proofs about the scheduler speak of their own instance of it, which is
\* the same.
LEMMA SameSchedule ==
    /\ Sch!Init <=> SchP!Init
    /\ [Sch!Next]_(Sch!vars) <=> [SchP!Next]_(SchP!vars)
    /\ Sch!OneRunning <=> SchP!OneRunning
    /\ Sch!LockedIsSuspended <=> SchP!LockedIsSuspended
    /\ Sch!TimedWaitEnds <=> SchP!TimedWaitEnds
<1> USE DEF Sch!Resumes, SchP!Resumes, Sch!Suspended, SchP!Suspended,
            Sch!handler, SchP!handler, Sch!Post, SchP!Post,
            Sch!Idle, SchP!Idle, Sch!Ready, SchP!Ready,
            Sch!CancelInto, SchP!CancelInto, Sch!TimerOff, SchP!TimerOff
<1>1. Sch!Init <=> SchP!Init
  BY DEF Sch!Init, SchP!Init
<1>2. \A c \in Coroutine :
        /\ Sch!Spawn(c) <=> SchP!Spawn(c)
        /\ Sch!Resume(c) <=> SchP!Resume(c)
        /\ Sch!Suspend(c) <=> SchP!Suspend(c)
        /\ Sch!TimerExpire(c) <=> SchP!TimerExpire(c)
  BY DEF Sch!Spawn, SchP!Spawn, Sch!Resume, SchP!Resume,
         Sch!TimerExpire, SchP!TimerExpire, Sch!Suspend, SchP!Suspend,
         Sch!Yield, SchP!Yield, Sch!YieldFor, SchP!YieldFor,
         Sch!Finish, SchP!Finish, Sch!Throw, SchP!Throw
<1>3. Sch!Stop <=> SchP!Stop
  BY DEF Sch!Stop, SchP!Stop
<1>4. Sch!RunHandler <=> SchP!RunHandler
  BY DEF Sch!RunHandler, SchP!RunHandler, Sch!RunResume, SchP!RunResume,
         Sch!RunTimeout, SchP!RunTimeout, Sch!RunAborted, SchP!RunAborted
<1>5. [Sch!Next]_(Sch!vars) <=> [SchP!Next]_(SchP!vars)
  BY <1>2, <1>3, <1>4 DEF Sch!Next, SchP!Next, Sch!vars, SchP!vars
<1>6. /\ Sch!OneRunning <=> SchP!OneRunning
      /\ Sch!LockedIsSuspended <=> SchP!LockedIsSuspended
      /\ Sch!TimedWaitEnds <=> SchP!TimedWaitEnds
  BY DEF Sch!OneRunning, SchP!OneRunning,
         Sch!LockedIsSuspended, SchP!LockedIsSuspended,
         Sch!TimedWaitEnds, SchP!TimedWaitEnds,
         Sch!Queued, SchP!Queued, Sch!Holds, SchP!Holds
<1> QED
  BY <1>1, <1>5, <1>6

\* So the calls of create exclude each other on the io thread, assert(ps_) holds,
\* and a call that waits for its response will be woken.
THEOREM CallsAreScheduled ==
    Spec => [](Sch!OneRunning /\ Sch!LockedIsSuspended /\ Sch!TimedWaitEnds)
<1>1. Spec => SchP!Spec
  BY RefinesSchedule, SameSchedule, PTL
  DEF ImplementsSchedule, Sch!Spec, SchP!Spec
<1>2. MaxQueue \in Nat
  BY BoundsAreNat
<1>3. SchP!Spec => []SchP!OneRunning
  BY <1>2, SchP!BodiesExclude DEF SchP!MaxQueueIsNat
<1>4. SchP!Spec => []SchP!LockedIsSuspended
  BY <1>2, SchP!AssertPsHolds DEF SchP!MaxQueueIsNat
<1>5. SchP!Spec => []SchP!NoneForgotten
  BY <1>2, SchP!NoneStranded DEF SchP!MaxQueueIsNat
<1>6. SchP!NoneForgotten => SchP!TimedWaitEnds
  BY DEF SchP!NoneForgotten
<1> QED
  BY <1>1, <1>3, <1>4, <1>5, <1>6, SameSchedule, PTL

-----------------------------------------------------------------------------
(* The map of promises.                                                     *)

\* Calls that share a session are known to be contended.
SharedIsContended ==
    \A c, d \in Coroutine :
        c # d /\ Active(c) /\ Active(d) /\ up[c] = up[d] => c \in contended

MapInv ==
    /\ Typed
    /\ PromiseIsLive
    /\ SharedIsContended
    /\ RegisteredUnlessContended

\* The calls that change the map: Create registers over the other calls of its
\* session, and Exit erases theirs.
LEMMA NextMapInv == MapInv /\ [Next]_vars => MapInv'
<1> SUFFICES ASSUME MapInv, [Next]_vars PROVE MapInv'
  OBVIOUS
<1>0. Typed'
  BY NextTyped DEF MapInv
<1> USE NoneIsNoCoroutine
    DEF MapInv, Typed, TypeOK, ActiveCall, callVars, Active, Uses,
        PromiseIsLive, SharedIsContended, RegisteredUnlessContended
<1>1. ASSUME NEW c \in Coroutine, Open(c) \/ TimerExpire(c) PROVE MapInv'
  BY <1>0, <1>1 DEF Open, TimerExpire, fixVars
<1>2. ASSUME NEW c \in Coroutine, CreateNoSession(c) \/ Close(c) PROVE MapInv'
  BY <1>0, <1>2 DEF CreateNoSession, Close, fixVars
<1>3. ASSUME NEW c \in Coroutine, NEW s \in Session, NEW t \in RequestType,
             Create(c, s, t)
      PROVE  MapInv'
  <2> DEFINE others == {d \in Coroutine : Uses(d, s)}
  <2>1. /\ pc[c] = "idle"
        /\ pc' = [pc EXCEPT ![c] = "send"]
        /\ up' = [up EXCEPT ![c] = s]
        /\ pmss' = [pmss EXCEPT ![s] = c]
        /\ contended' = IF others = {} THEN contended \ {c}
                                       ELSE contended \cup others \cup {c}
    BY <1>3 DEF Create, At, Goto
  <2>2. PromiseIsLive'
    BY <2>1
  <2>3. SharedIsContended'
    BY <2>1
  <2>4. RegisteredUnlessContended'
    BY <2>1
  <2> QED
    BY <1>0, <2>2, <2>3, <2>4
<1>4. ASSUME NEW c \in Coroutine, Send(c) \/ Wait(c) \/ Wake(c) PROVE MapInv'
  <2>1. /\ pc[c] # "idle"
        /\ \E place \in {"loop", "waiting", "exit"} : pc' = [pc EXCEPT ![c] = place]
        /\ UNCHANGED <<up, pmss, contended>>
    BY <1>4 DEF Send, Wait, Wake, At, Goto
  <2> QED
    BY <1>0, <2>1
<1>5. ASSUME NEW c \in Coroutine, Exit(c) PROVE MapInv'
  <2>1. /\ pc[c] # "idle"
        /\ pc' = [pc EXCEPT ![c] = "idle"]
        /\ pmss' = [pmss EXCEPT ![up[c]] = None]
        /\ UNCHANGED <<up, contended>>
    BY <1>5 DEF Exit, At, Goto
  <2> QED
    BY <1>0, <2>1
<1>6. ASSUME NEW r \in Reply, OnRecv(r) PROVE MapInv'
  BY <1>0, <1>6 DEF OnRecv, Deliver
<1>7. CASE IoThread \/ Stop \/ UNCHANGED vars
  BY <1>0, <1>7 DEF IoThread, Stop, vars, fixVars
<1> QED
  BY <1>1, <1>2, <1>3, <1>4, <1>5, <1>6, <1>7 DEF Next, Body

LEMMA MapInvariant == Spec => []MapInv
<1>1. Init => MapInv
  BY InitTyped
  DEF Init, MapInv, PromiseIsLive, SharedIsContended,
      RegisteredUnlessContended, Active
<1> QED
  BY <1>1, NextMapInv, PTL DEF Spec

\* QuickFIX's thread never reaches the promise of a call that is over.
THEOREM PromisesAreLive == Spec => []PromiseIsLive
BY MapInvariant, PTL DEF MapInv

\* A call that has its session for itself is registered from before it sends
\* until it leaves, so no answer to it is dropped.
THEOREM SoleCallsAreRegistered == Spec => []RegisteredUnlessContended
BY MapInvariant, PTL DEF MapInv

-----------------------------------------------------------------------------
(* Who gets a response.                                                     *)

\* The answers to an order.
To(o) == {p \in replies : p.order = o}

\* The counterparty's answers to an order are numbered from one, so that a new
\* one is not among them.
Numbered ==
    /\ IsFiniteSet(replies)
    /\ \A p \in replies : p.n <= Cardinality(To(p.order))

\* A call past its send has its order on the wire.
OrderIsOut ==
    \A c \in Coroutine :
        pc[c] \in {"loop", "waiting", "exit"} =>
            [order |-> order(c), session |-> up[c]] \in sent

Holds(c) == Active(c) /\ value[c] # None

\* What the promise of a call in progress holds came on the call's session, and
\* neither another such promise holds it nor has another order been given it.
HeldOnce ==
    \A c \in Coroutine :
        Holds(c) =>
            /\ value[c] \in replies
            /\ value[c].session = up[c]
            /\ \A d \in Coroutine : Holds(d) /\ value[d] = value[c] => d = c
            /\ \A o \in Order :
                  result[o].how = "response" /\ result[o].reply = value[c]
                  => o = order(c)

\* What was returned had come.
ReturnedCame ==
    \A o \in Order : result[o].how = "response" => result[o].reply \in replies

TakerInv ==
    /\ MapInv
    /\ Numbered
    /\ OrderIsOut
    /\ HeldOnce
    /\ ReturnedCame
    /\ OneTaker

\* The answers are only added to, with one that is new.
LEMMA NewReply ==
    ASSUME Typed, Numbered, NEW r \in Reply, OnRecv(r)
    PROVE  r \notin replies /\ Numbered'
<1> DEFINE new == replies \cup {r}
<1>1. /\ replies' = new
      /\ r.n = Cardinality(To(r.order)) + 1
      /\ IsFiniteSet(new)
      /\ replies \subseteq Reply /\ new \subseteq Reply
  BY FS_AddElement DEF OnRecv, Numbered, To, Typed, TypeOK
<1>2. \A p \in new : /\ IsFiniteSet(To(p.order)) /\ Cardinality(To(p.order)) \in Nat
                     /\ p.n \in Nat
  <2> SUFFICES ASSUME NEW p \in new
               PROVE  IsFiniteSet(To(p.order)) /\ Cardinality(To(p.order)) \in Nat
    BY <1>1, BoundsAreNat DEF Reply
  <2>1. To(p.order) \subseteq replies
    BY DEF To
  <2> QED
    BY <2>1, FS_Subset, FS_CardinalityType DEF Numbered
<1>3. r \notin replies
  BY <1>1, <1>2 DEF Numbered
<1>4. ASSUME NEW p \in new PROVE p.n <= Cardinality(To(p.order)')
  <2>1. CASE p.order = r.order
    <3>1. To(p.order)' = To(r.order) \cup {r}
      BY <1>1, <2>1 DEF To
    <3>2. r \notin To(r.order)
      BY <1>3 DEF To
    <3>3. Cardinality(To(p.order)') = Cardinality(To(r.order)) + 1
      BY <1>2, <3>1, <3>2, FS_AddElement
    <3>4. p = r \/ p.n <= Cardinality(To(r.order))
      BY <2>1 DEF Numbered
    <3> QED
      BY <1>1, <1>2, <3>3, <3>4
  <2>2. CASE p.order # r.order
    <3>1. To(p.order)' = To(p.order) /\ p \in replies
      BY <1>1, <2>2 DEF To
    <3> QED
      BY <3>1 DEF Numbered
  <2> QED
    BY <2>1, <2>2
<1>5. Numbered'
  BY <1>1, <1>4 DEF Numbered
<1> QED
  BY <1>3, <1>5

\* Where nothing of the calls' data changes, nothing is to be shown.
LEMMA SameTakers ==
    ASSUME TakerInv, MapInv', UNCHANGED fixVars
    PROVE  TakerInv'
BY DEF TakerInv, Numbered, To, OrderIsOut, HeldOnce, Holds, ReturnedCame, OneTaker,
       Active, order, fixVars, callVars

\* The steps of create.  Its promise starts empty, its order goes out before it
\* waits, and what it returns is what its own promise holds.
LEMMA BodyTakers ==
    ASSUME TakerInv, MapInv', NEW c \in Coroutine, Body(c)
    PROVE  TakerInv'
<1> USE DEF TakerInv, MapInv, Typed, TypeOK, ActiveCall, callVars, Active
<1>1. CASE CreateNoSession(c)
  <2>1. PICK how \in {"error", "null"} :
          result' = [result EXCEPT ![[co |-> c, n |-> calls[c] + 1]] =
                        [how |-> how, reply |-> None]]
    BY <1>1 DEF CreateNoSession
  <2>2. \A o \in Order : result'[o] = result[o] \/ result'[o].how # "response"
    BY <2>1
  <2>3. /\ pc[c] = "idle"
        /\ \A d \in Coroutine \ {c} : order(d)' = order(d)
        /\ UNCHANGED <<pc, up, value, sent, replies>>
    BY <1>1 DEF CreateNoSession, At, NewCall, order
  <2>4. Numbered'
    BY <2>3 DEF Numbered, To
  <2>5. OrderIsOut' /\ HeldOnce' /\ ReturnedCame' /\ OneTaker'
    BY <2>2, <2>3 DEF OrderIsOut, HeldOnce, Holds, ReturnedCame, OneTaker
  <2> QED
    BY <2>4, <2>5
<1>2. ASSUME NEW s \in Session, NEW t \in RequestType, Create(c, s, t)
      PROVE  TakerInv'
  <2>1. /\ pc' = [pc EXCEPT ![c] = "send"]
        /\ up' = [up EXCEPT ![c] = s]
        /\ value' = [value EXCEPT ![c] = None]
        /\ \A d \in Coroutine \ {c} : order(d)' = order(d)
        /\ UNCHANGED <<sent, replies, result>>
    BY <1>2 DEF Create, At, NewCall, Goto, order
  <2>2. Numbered'
    BY <2>1 DEF Numbered, To
  <2>3. OrderIsOut'
    BY <2>1 DEF OrderIsOut
  <2>4. HeldOnce'
    BY <2>1 DEF HeldOnce, Holds
  <2>5. ReturnedCame' /\ OneTaker'
    BY <2>1 DEF ReturnedCame, OneTaker
  <2> QED
    BY <2>2, <2>3, <2>4, <2>5
<1>3. CASE Send(c)
  <2>1. /\ pc[c] = "send"
        /\ pc' = [pc EXCEPT ![c] = "loop"]
        /\ sent' = sent \cup {[order |-> order(c), session |-> up[c]]}
        /\ \A d \in Coroutine : order(d)' = order(d)
        /\ UNCHANGED <<up, value, replies, result>>
    BY <1>3 DEF Send, At, Goto, order
  <2>2. Numbered'
    BY <2>1 DEF Numbered, To
  <2>3. OrderIsOut'
    BY <2>1 DEF OrderIsOut
  <2>4. HeldOnce'
    BY <2>1 DEF HeldOnce, Holds
  <2>5. ReturnedCame' /\ OneTaker'
    BY <2>1 DEF ReturnedCame, OneTaker
  <2> QED
    BY <2>2, <2>3, <2>4, <2>5
<1>4. CASE Wait(c) \/ Exit(c)
  <2>1. /\ pc[c] \in {"loop", "exit"}
        /\ pc' = [pc EXCEPT ![c] = IF pc[c] = "loop" THEN "waiting" ELSE "idle"]
        /\ \A d \in Coroutine : order(d)' = order(d)
        /\ UNCHANGED <<up, value, sent, replies, result>>
    BY <1>4 DEF Wait, Exit, At, Goto, order
  <2>2. Numbered'
    BY <2>1 DEF Numbered, To
  <2>3. OrderIsOut'
    BY <2>1 DEF OrderIsOut
  <2>4. HeldOnce'
    BY <2>1 DEF HeldOnce, Holds
  <2>5. ReturnedCame' /\ OneTaker'
    BY <2>1 DEF ReturnedCame, OneTaker
  <2> QED
    BY <2>2, <2>3, <2>4, <2>5
<1>5. CASE Wake(c)
  <2>1. /\ pc[c] = "waiting"
        /\ \E place \in {"loop", "exit"} : pc' = [pc EXCEPT ![c] = place]
        /\ \A d \in Coroutine : order(d)' = order(d)
        /\ UNCHANGED <<up, value, sent, replies>>
    BY <1>5 DEF Wake, At, Goto, order
  <2>2. /\ order(c) \in Order
        /\ [order |-> order(c), session |-> up[c]] \in sent
    BY <2>1, OrderOfActive DEF OrderIsOut
  <2>3. \A o \in Order :
          \/ result'[o] = result[o]
          \/ result'[o].how # "response"
          \/ /\ o = order(c) /\ value[c] # None
             /\ result'[o] = [how |-> "response", reply |-> value[c]]
    BY <1>5, <2>2 DEF Wake, End
  <2>4. Numbered' /\ OrderIsOut'
    BY <2>1 DEF Numbered, To, OrderIsOut
  <2>5. \A d \in Coroutine : Holds(d)' => Holds(d)
    BY <2>1 DEF Holds
  <2>6. HeldOnce'
    <3> SUFFICES ASSUME NEW d \in Coroutine, Holds(d)'
                 PROVE  /\ value[d] \in replies
                        /\ value[d].session = up[d]
                        /\ \A e \in Coroutine : Holds(e)' /\ value[e] = value[d] => e = d
                        /\ \A o \in Order :
                              result'[o].how = "response" /\ result'[o].reply = value[d]
                              => o = order(d)
      BY <2>1 DEF HeldOnce
    <3>1. Holds(d)
      BY <2>5
    <3>2. ASSUME NEW o \in Order, result'[o].how = "response",
                 result'[o].reply = value[d]
          PROVE  o = order(d)
      BY <2>1, <2>3, <3>1, <3>2 DEF HeldOnce, Holds
    <3> QED
      BY <2>5, <3>1, <3>2 DEF HeldOnce
  <2>7. value[c] # None => Holds(c)
    BY <2>1 DEF Holds
  <2>8. ReturnedCame'
    BY <2>1, <2>3, <2>7 DEF ReturnedCame, HeldOnce
  <2>9. OneTaker'
    BY <2>1, <2>2, <2>3, <2>7 DEF OneTaker, HeldOnce
  <2> QED
    BY <2>4, <2>6, <2>8, <2>9
<1>6. CASE Close(c)
  BY <1>6, SameTakers DEF Close
<1> QED
  BY <1>1, <1>2, <1>3, <1>4, <1>5, <1>6 DEF Body

\* QuickFIX's thread gives a new response to the one promise that is registered,
\* which is of a call in progress on its session.
LEMMA RecvTakers ==
    ASSUME TakerInv, MapInv', NEW r \in Reply, OnRecv(r)
    PROVE  TakerInv'
<1> USE DEF TakerInv, MapInv, Typed, TypeOK, callVars, Active
<1> DEFINE c == pmss[r.session]
<1>1. r \notin replies /\ Numbered'
  BY NewReply
<1>2. /\ replies' = replies \cup {r}
      /\ UNCHANGED <<pc, up, calls, sent, result>>
      /\ \A d \in Coroutine : order(d)' = order(d)
  BY DEF OnRecv, order
<1>3. OrderIsOut' /\ ReturnedCame' /\ OneTaker'
  BY <1>2 DEF OrderIsOut, ReturnedCame, OneTaker
<1>4. CASE c = None
  <2>1. UNCHANGED value
    BY <1>4 DEF OnRecv, Deliver
  <2> QED
    BY <1>1, <1>2, <1>3, <2>1 DEF HeldOnce, Holds
<1>5. CASE c # None
  <2>1. /\ c \in Coroutine /\ up[c] = r.session
        /\ value' = [value EXCEPT ![c] = r]
    BY <1>5 DEF OnRecv, Deliver, PromiseIsLive, Uses, Reply
  <2>2. HeldOnce'
    BY <1>1, <1>2, <2>1 DEF HeldOnce, Holds, ReturnedCame
  <2> QED
    BY <1>1, <1>3, <2>2
<1> QED
  BY <1>4, <1>5

LEMMA NextTakers == TakerInv /\ [Next]_vars => TakerInv'
<1> SUFFICES ASSUME TakerInv, [Next]_vars PROVE TakerInv'
  OBVIOUS
<1>0. MapInv'
  BY NextMapInv DEF TakerInv
<1>1. ASSUME NEW c \in Coroutine, Body(c) PROVE TakerInv'
  BY <1>0, <1>1, BodyTakers
<1>2. ASSUME NEW r \in Reply, OnRecv(r) PROVE TakerInv'
  BY <1>0, <1>2, RecvTakers
<1>3. ASSUME UNCHANGED fixVars PROVE TakerInv'
  BY <1>0, <1>3, SameTakers
<1> QED
  BY <1>1, <1>2, <1>3 DEF Next, Open, TimerExpire, IoThread, Stop, vars

\* Whatever the calls do to each other's entries and however late the answers
\* come, a response is returned to one order at most, which went out on the
\* session it came on.
THEOREM ResponsesHaveOneTaker == Spec => []OneTaker
<1>1. Init => TakerInv
  <2> SUFFICES ASSUME Init PROVE TakerInv
    OBVIOUS
  <2>1. MapInv
    BY InitTyped
    DEF Init, MapInv, PromiseIsLive, SharedIsContended,
        RegisteredUnlessContended, Active
  <2>2. Numbered
    BY FS_EmptySet DEF Init, Numbered
  <2> QED
    BY <2>1, <2>2
    DEF Init, TakerInv, OrderIsOut, HeldOnce, Holds, ReturnedCame, OneTaker, Active
<1>2. TakerInv => OneTaker
  BY DEF TakerInv
<1> QED
  BY <1>1, <1>2, NextTakers, PTL DEF Spec
=============================================================================
