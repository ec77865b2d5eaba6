----------------------------- MODULE Lifecycle -----------------------------
(***************************************************************************)
(* The life of the process: main constructs the three plugins, waits for   *)
(* SIGINT, and destroys them in reverse order, while three threads share   *)
(* what the plugins make.                                                  *)
(*                                                                         *)
(* main's thread makes, registers, stops, unregisters and destroys.  The   *)
(* io thread of http_server runs the connections' coroutines, which look   *)
(* builders and factories up and register promises.  QuickFIX's thread     *)
(* sets promises and resumes coroutines.  Nothing but the order of main's  *)
(* statements keeps the other two from what is not there yet or no longer. *)
(***************************************************************************)
EXTENDS Naturals, Sequences, FiniteSets

CONSTANTS
    Coroutine,   \* the coroutines of the connections
    None         \* no coroutine, no registry

ASSUME NoneIsNothing ==
    None \notin Coroutine \cup {"none", "idle", "ended", "builders", "factories"}
ASSUME CoroutinesAreNoStates == Coroutine \cap {"none", "idle", "ended"} = {}

VARIABLES
    main,        \* the statement main is at
    process,     \* "up", "terminated" by the system, or "crashed"
    signalled,   \* SIGINT has stopped main's io_service
    live,        \* what is constructed, and which libraries are open
    registered,  \* what the two registries hold
    changing,    \* the registry whose map main has copied and not yet replaced
    stopped,     \* which of the two other threads are told to stop
    io,          \* the io thread: the coroutine it runs, or its state
    place,       \* where each coroutine is
    posted,      \* the coroutines with a resume queued
    promises,    \* the coroutines whose promise is in FixBuilder's map
    fix,         \* QuickFIX's thread
    for          \* the coroutine whose session its message is for

mainVars == <<main, live, registered, changing, stopped>>
ioVars == <<io, place, promises>>
fixVars == <<fix, for>>
vars == <<mainVars, process, signalled, ioVars, posted, fixVars>>

-----------------------------------------------------------------------------
(* What main does, in order.                                                *)

\* What the plugins register, by registry and name.
FixBuilder == <<"builders", "fix">>
ToFixBuilder == <<"builders", "GET /">>
FixFactory == <<"factories", "fix">>
HttpFactory == <<"factories", "http">>
Entry == {FixBuilder, ToFixBuilder, FixFactory, HttpFactory}

\* "promises" are FixBuilder's map and mutex, "sessions" FixClient's map,
\* "server" the http parser with the listening server; http_server's io_service
\* is part of its library.
Object == {"libfix_client", "promises", "sessions", "libhttp_to_fix",
           "libhttp_server", "schedule", "server"}

FixClientInit == <<
    <<"make", "libfix_client">>, <<"make", "promises">>, <<"make", "sessions">>,
    <<"start", "fix">>,
    <<"registe", FixBuilder>>, <<"registe", FixFactory>> >>

\* A variant with a bug: the client is declared before the mutex in FixBuilder.
FixClientDeinitMembers == <<
    <<"unregiste", FixBuilder>>, <<"unregiste", FixFactory>>,
    <<"destroy", "promises">>, <<"stop", "fix">>, <<"join", "fix">>,
    <<"destroy", "sessions">>, <<"destroy", "libfix_client">> >>

FixClientDeinit == <<
    <<"unregiste", FixBuilder>>, <<"unregiste", FixFactory>>,
    <<"stop", "fix">>, <<"join", "fix">>, <<"destroy", "sessions">>,
    <<"destroy", "promises">>, <<"destroy", "libfix_client">> >>

HttpToFixInit == << <<"make", "libhttp_to_fix">>, <<"registe", ToFixBuilder>> >>

HttpToFixDeinit == <<
    <<"unregiste", ToFixBuilder>>, <<"destroy", "libhttp_to_fix">> >>

HttpServerInit == <<
    <<"make", "libhttp_server">>, <<"make", "schedule">>,
    <<"registe", HttpFactory>>, <<"make", "server">>, <<"start", "io">> >>

\* A variant with a bug: the factory is taken back while the io thread runs.
HttpServerDeinitEarly == <<
    <<"unregiste", HttpFactory>>, <<"stop", "io">>, <<"join", "io">>,
    <<"destroy", "server">>, <<"drop", "schedule">>, <<"unwind", "coroutines">>,
    <<"destroy", "libhttp_server">> >>

\* A variant with a bug: join without stop.
HttpServerDeinitJoining == <<
    <<"join", "io">>, <<"stop", "io">>, <<"unregiste", HttpFactory>>,
    <<"destroy", "server">>, <<"drop", "schedule">>, <<"unwind", "coroutines">>,
    <<"destroy", "libhttp_server">> >>

HttpServerDeinit == <<
    <<"stop", "io">>, <<"join", "io">>, <<"unregiste", HttpFactory>>,
    <<"destroy", "server">>, <<"drop", "schedule">>, <<"unwind", "coroutines">>,
    <<"destroy", "libhttp_server">> >>

\* A variant with a bug: the server is constructed before what it serves with.
ProgramServerEarly ==
    FixClientInit \o HttpServerInit \o HttpToFixInit
    \o << <<"signal", "SIGINT">>, <<"run", "ios">> >>
    \o HttpToFixDeinit \o HttpServerDeinit \o FixClientDeinit

Program ==
    FixClientInit \o HttpToFixInit \o HttpServerInit
    \o << <<"signal", "SIGINT">>, <<"run", "ios">> >>
    \o HttpServerDeinit \o HttpToFixDeinit \o FixClientDeinit

Over == Len(Program) + 1

TypeOK ==
    /\ main \in 1..Over
    /\ process \in {"up", "terminated", "crashed"}
    /\ signalled \in BOOLEAN
    /\ live \in SUBSET Object
    /\ registered \in SUBSET Entry
    /\ changing \in {"builders", "factories", None}
    /\ stopped \in SUBSET {"io", "fix"}
    /\ io \in {"none", "idle", "ended"} \cup Coroutine
    /\ place \in [Coroutine -> {"unborn", "recv", "parse", "route", "convert", "ask",
                                "register", "wait", "leave", "reply", "send", "lost",
                                "over"}]
    /\ posted \in SUBSET Coroutine
    /\ promises \in SUBSET Coroutine
    /\ fix \in {"none", "idle", "called", "locked", "holding", "stuck", "ended"}
    /\ for \in Coroutine \cup {None}

Init ==
    /\ main = 1
    /\ process = "up"
    /\ signalled = FALSE
    /\ live = {}
    /\ registered = {}
    /\ changing = None
    /\ stopped = {}
    /\ io = "none"
    /\ place = [c \in Coroutine |-> "unborn"]
    /\ posted = {}
    /\ promises = {}
    /\ fix = "none"
    /\ for = None

At(verb, object) == process = "up" /\ main < Over /\ Program[main] = <<verb, object>>
Done == main' = main + 1

\* pmss_mtx_ is only held across steps by QuickFIX's thread, in on_recv.
MutexFree == fix \notin {"locked", "holding", "stuck"}

Make(o) ==
    /\ At("make", o)
    /\ Done
    /\ live' = live \cup {o}
    /\ UNCHANGED <<process, signalled, registered, changing, stopped, ioVars, posted, fixVars>>

\* A library is opened, FixClient reads its settings and starts its initiator, and
\* UdsServer binds its path: where that fails no one catches the exception.
MakeFails(o) ==
    /\ \/ At("make", o) /\ o \notin {"promises", "schedule"}
       \/ At("start", "fix") /\ o = "sessions"
    /\ process' = "terminated"
    /\ UNCHANGED <<mainVars, signalled, ioVars, posted, fixVars>>

\* registe and unregiste: copy the map, change the copy, publish it.
Copy(e) ==
    /\ At("registe", e) \/ At("unregiste", e)
    /\ changing = None
    /\ changing' = e[1]
    /\ UNCHANGED <<main, process, signalled, live, registered, stopped, ioVars, posted, fixVars>>

Publish(e) ==
    /\ changing # None
    /\ \/ At("registe", e) /\ registered' = registered \cup {e}
       \/ At("unregiste", e) /\ registered' = registered \ {e}
    /\ changing' = None
    /\ Done
    /\ UNCHANGED <<process, signalled, live, stopped, ioVars, posted, fixVars>>

StartFix ==
    /\ At("start", "fix")
    /\ fix' = "idle"
    /\ Done
    /\ UNCHANGED <<process, signalled, live, registered, changing, stopped, ioVars, posted, for>>

StartIo ==
    /\ At("start", "io")
    /\ io' = "idle"
    /\ Done
    /\ UNCHANGED <<process, signalled, live, registered, changing, stopped, place, promises,
                   posted, fixVars>>

\* The handler is installed, and then main's io_service runs until it is stopped.
Signal ==
    /\ At("signal", "SIGINT") \/ (At("run", "ios") /\ signalled)
    /\ Done
    /\ UNCHANGED <<process, signalled, live, registered, changing, stopped, ioVars, posted, fixVars>>

\* ios_.stop(), and the first half of initiator_->stop(), which logs out: messages
\* may still come until the join.
Stop(t) ==
    /\ At("stop", t)
    /\ stopped' = stopped \cup {t}
    /\ Done
    /\ UNCHANGED <<process, signalled, live, registered, changing, ioVars, posted, fixVars>>

JoinIo ==
    /\ At("join", "io")
    /\ io = "ended"
    /\ Done
    /\ UNCHANGED <<process, signalled, live, registered, changing, stopped, ioVars, posted, fixVars>>

\* The rest of initiator_->stop(): QuickFIX's thread finishes its message.
JoinFix ==
    /\ At("join", "fix")
    /\ fix = "idle"
    /\ fix' = "ended"
    /\ Done
    /\ UNCHANGED <<process, signalled, live, registered, changing, stopped, ioVars, posted, for>>

Destroy(o) ==
    /\ At("destroy", o)
    /\ Done
    /\ live' = live \ {o}
    /\ UNCHANGED <<process, signalled, registered, changing, stopped, ioVars, posted, fixVars>>

\* schedule_.reset().  From here on no weak reference locks; if QuickFIX's
\* thread has locked one, the scheduler is its to destroy.
Drop ==
    /\ At("drop", "schedule")
    /\ Done
    /\ live' = live \ {"schedule"}
    /\ UNCHANGED <<process, signalled, registered, changing, stopped, ioVars, posted, fixVars>>

\* QuickFIX's thread holds the scheduler main has dropped, or has locked up in
\* destroying it.
Straddled == fix = "stuck" \/ (fix = "holding" /\ "schedule" \notin live)

Suspended(c) == place[c] \notin {"unborn", "over"}

\* ~Schedule destroys a suspended coroutine, which unwinds its stack.  One that
\* waits in FixBuilder::create leaves it by the scope exit, and then passes the
\* catch (...) of HttpBuilder::on_recv, whose handle_error dereferences what the
\* factory gives.
Unwind(c) ==
    /\ At("unwind", "coroutines")
    /\ ~Straddled
    /\ Suspended(c)
    /\ place[c] = "wait" => MutexFree
    /\ promises' = promises \ {c}
    /\ place' = [place EXCEPT ![c] = "over"]
    /\ IF place[c] = "wait" /\ HttpFactory \notin registered
       THEN process' = "crashed" ELSE UNCHANGED process
    /\ UNCHANGED <<mainVars, signalled, io, posted, fixVars>>

\* A variant with a bug: a coroutine that waits on its socket keeps itself alive by
\* the reference its handler holds.
UnwoundLeaving ==
    /\ At("unwind", "coroutines")
    /\ Straddled \/ \A c \in Coroutine : place[c] \notin {"wait"}
    /\ Done
    /\ UNCHANGED <<process, signalled, live, registered, changing, stopped, ioVars, posted, fixVars>>

Unwound ==
    /\ At("unwind", "coroutines")
    /\ Straddled \/ \A c \in Coroutine : ~Suspended(c)
    /\ Done
    /\ UNCHANGED <<process, signalled, live, registered, changing, stopped, ioVars, posted, fixVars>>

Main ==
    \/ \E o \in Object : Make(o) \/ MakeFails(o) \/ Destroy(o)
    \/ \E e \in Entry : Copy(e) \/ Publish(e)
    \/ StartFix \/ StartIo \/ Signal \/ JoinIo \/ JoinFix
    \/ \E t \in {"io", "fix"} : Stop(t)
    \/ Drop \/ Unwound
    \/ \E c \in Coroutine : Unwind(c)

-----------------------------------------------------------------------------
(* SIGINT, in whatever thread: before the handler is there it ends the process. *)

Interrupt ==
    /\ process = "up" /\ main < Over /\ ~signalled
    /\ IF \E i \in 1..(main - 1) : Program[i] = <<"signal", "SIGINT">>
       THEN signalled' = TRUE /\ UNCHANGED process
       ELSE process' = "terminated" /\ UNCHANGED signalled
    /\ UNCHANGED <<mainVars, ioVars, posted, fixVars>>

-----------------------------------------------------------------------------
(* The io thread.                                                           *)

Idle == process = "up" /\ io = "idle" /\ "io" \notin stopped
Runs(c, p) == process = "up" /\ io = c /\ place[c] = p
Goto(c, p) == place' = [place EXCEPT ![c] = p]

\* A client connects.
Accept(c) ==
    /\ Idle
    /\ place[c] = "unborn"
    /\ Goto(c, "recv")
    /\ UNCHANGED <<mainVars, process, signalled, io, promises, posted, fixVars>>

\* Data came, a response is written, or a time limit is over.
Complete(c) ==
    /\ Idle
    /\ place[c] \in {"recv", "send", "wait"}
    /\ posted' = posted \cup {c}
    /\ UNCHANGED <<mainVars, process, signalled, ioVars, fixVars>>

\* What was posted for one wait may end another, as in Connection; here that only
\* moves the coroutine on.  A request is parsed, which may be the next of one read,
\* or the connection has ended; create may wait again, past a reply.
Resume(c) ==
    /\ Idle
    /\ c \in posted
    /\ posted' = posted \ {c}
    /\ \/ place[c] = "recv" /\ Goto(c, "parse") /\ io' = c
       \/ place[c] = "recv" /\ Goto(c, "over") /\ UNCHANGED io
       \/ place[c] = "wait" /\ Goto(c, "leave") /\ io' = c
       \/ place[c] = "send" /\ Goto(c, "recv") /\ UNCHANGED io
       \/ place[c] = "send" /\ Goto(c, "parse") /\ io' = c
       \/ place[c] \in {"wait", "over"} /\ UNCHANGED <<place, io>>
    /\ UNCHANGED <<mainVars, process, signalled, promises, fixVars>>

\* What a request looks up, in order: its own message, the builder of its
\* pattern, that one's FIX message, the builder that sends it, and the response.
Wanted == [parse |-> HttpFactory, route |-> ToFixBuilder, convert |-> FixFactory,
           ask |-> FixBuilder, reply |-> HttpFactory]
\* What comes next: an exception of the two builders goes to the response.
Following == [parse |-> {"route"}, route |-> {"convert", "reply"},
              convert |-> {"ask", "reply"}, ask |-> {"register", "reply"},
              reply |-> {"send"}]

\* What is not there is answered with an error or dereferenced as null: lost.
LookUp(c, p) ==
    /\ Runs(c, p)
    /\ IF Wanted[p] \in registered
       THEN \E q \in Following[p] : Goto(c, q)
       ELSE Goto(c, "lost")
    /\ io' = IF Wanted[p] \in registered /\ p # "reply" THEN c ELSE "idle"
    /\ UNCHANGED <<mainVars, process, signalled, promises, posted, fixVars>>

\* FixBuilder::create: the promise is registered, the order sent, and the wait begun.
Register(c) ==
    /\ Runs(c, "register")
    /\ MutexFree
    /\ promises' = promises \cup {c}
    /\ Goto(c, "wait")
    /\ io' = "idle"
    /\ UNCHANGED <<mainVars, process, signalled, posted, fixVars>>

\* The scope exit, with an answer or at the time limit.
Leave(c) ==
    /\ Runs(c, "leave")
    /\ MutexFree
    /\ promises' = promises \ {c}
    /\ Goto(c, "reply")
    /\ UNCHANGED <<mainVars, process, signalled, io, posted, fixVars>>

IoEnds ==
    /\ process = "up" /\ io = "idle" /\ "io" \in stopped
    /\ io' = "ended"
    /\ UNCHANGED <<mainVars, process, signalled, place, promises, posted, fixVars>>

IoThread ==
    \/ IoEnds
    \/ \E c \in Coroutine :
          \/ Resume(c) \/ Register(c) \/ Leave(c)
          \/ \E p \in DOMAIN Wanted : LookUp(c, p)

-----------------------------------------------------------------------------
(* QuickFIX's thread: FixClient::fromApp and FixBuilder::on_recv.           *)

\* A message of the session this coroutine uses, sent for or not.
FromApp(c) ==
    /\ process = "up" /\ fix = "idle"
    /\ fix' = "called"
    /\ for' = c
    /\ UNCHANGED <<mainVars, process, signalled, ioVars, posted>>

Lock ==
    /\ process = "up" /\ fix = "called"
    /\ fix' = "locked"
    /\ UNCHANGED <<mainVars, process, signalled, ioVars, posted, for>>

\* A variant with a bug: the session is moved from before it is used again.
FindMoving ==
    /\ process = "up" /\ fix = "locked"
    /\ fix' = IF for \in promises /\ "schedule" \in live THEN "holding" ELSE "idle"
    /\ for' = None
    /\ UNCHANGED <<mainVars, process, signalled, ioVars, posted>>

\* No promise, or no scheduler to resume by: the message is dropped.
Find ==
    /\ process = "up" /\ fix = "locked"
    /\ fix' = IF for \in promises /\ "schedule" \in live THEN "holding" ELSE "idle"
    /\ UNCHANGED <<mainVars, process, signalled, ioVars, posted, for>>

\* The scheduler posts to http_server's io_service, and the mutex is unlocked.
Post ==
    /\ process = "up" /\ fix = "holding" /\ "schedule" \in live
    /\ posted' = posted \cup {for}
    /\ fix' = "idle"
    /\ UNCHANGED <<mainVars, process, signalled, ioVars, for>>

\* The reference is the last one: this thread unwinds the coroutine whose promise
\* it found, and its scope exit waits for the mutex this thread holds.  With the
\* library closed the io_service it posts to is gone as well.
PostLate ==
    /\ process = "up" /\ fix = "holding" /\ "schedule" \notin live
    /\ \/ fix' = "stuck" /\ UNCHANGED process
       \/ "libhttp_server" \notin live /\ process' = "crashed" /\ UNCHANGED fix
    /\ UNCHANGED <<mainVars, signalled, ioVars, posted, for>>

FixThread == Lock \/ Find \/ Post \/ PostLate

-----------------------------------------------------------------------------
Next ==
    \/ Main \/ Interrupt
    \/ IoThread \/ \E c \in Coroutine : Accept(c) \/ Complete(c)
    \/ FixThread \/ \E c \in Coroutine : FromApp(c)

Spec == Init /\ [][Next]_vars

\* The threads go on, and one that waits for the mutex gets it in the end although
\* QuickFIX's thread takes it for every message.  Clients, the counterparty and
\* SIGINT need not come.
FairSpec == Spec /\ SF_vars(Main) /\ SF_vars(IoThread) /\ WF_vars(FixThread)

-----------------------------------------------------------------------------
(* Properties.                                                              *)

\* Coroutines are about to run code, or are inside create with a promise.
InCreate(c) == place[c] \in {"wait", "leave"}

\* No thread reads a registry while main replaces its map: builders_ and ctors_
\* are plain shared pointers.
RegistriesQuiet == changing # None => io \notin Coroutine

\* A request finds every builder and factory on its way, however early it comes
\* and however late it is when the process is told to end.
ServedIsRegistered ==
    \A c \in Coroutine :
        /\ place[c] # "lost"
        /\ io = c => Entry \subseteq registered

\* A thread only calls what is constructed, in a library that is open, and a
\* call of create that is to be unwound finds its builder, unless QuickFIX's
\* thread took over the scheduler.
CalledIsThere ==
    /\ fix \notin {"none", "ended"} => {"libfix_client", "promises", "sessions"} \subseteq live
    /\ io \notin {"none", "ended"} => {"libhttp_server", "schedule", "server"} \subseteq live
    /\ ~Straddled => \A c \in Coroutine :
          /\ Suspended(c) => "libhttp_server" \in live
          /\ InCreate(c) => {"libhttp_to_fix", "libfix_client", "promises"} \subseteq live

\* When main is past the unwinding, no coroutine is left and no promise is.
NothingLeft ==
    (main < Over /\ Program[main] = <<"destroy", "libhttp_server">> /\ ~Straddled)
    => promises = {} /\ \A c \in Coroutine : ~Suspended(c)

\* After SIGINT the process comes to its end, unless it crashed on a request in
\* create or QuickFIX's thread took over the scheduler.
ShutdownEnds == signalled ~> main = Over \/ process # "up" \/ Straddled
=============================================================================
