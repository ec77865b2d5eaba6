# Verification of amphisbaena

amphisbaena is a gateway: HTTP requests that carry orders in JSON go in over a
Unix or TCP socket, FIX messages go out over QuickFIX sessions, and the FIX
response comes back as the HTTP response. It is written with stackful
coroutines (boost.coroutine2) that one thread runs over a boost.asio
`io_service`, while QuickFIX calls in from threads of its own. Its parts are
plugins, loaded from shared libraries.

This directory holds TLA+ modules of that code, TLC configurations that check
them on small instances, and proofs checked by TLAPS. Line numbers below are
those of `src/`.

## 1. Inventory

| Component | State | Operations | Talks to |
|---|---|---|---|
| `Schedule`, `Coroutine` (`schedule.cpp`) | `cos_`, each coroutine's `timer_` and stack, asio's queue | `spawn`, `resume`, `yield`, `yield_for`, the timer's handler | everything that waits |
| `Future`, `Promise` (`future.hpp`) | `value_` under a mutex | `get`, `get_for`, `set` | a coroutine waits, another thread sets |
| `FixBuilder` (`fix_builder.cpp`) | `pmss_`: promise by FIX session, under a mutex | `create` (io thread), `on_recv` (QuickFIX's thread) | `Promise`, `FixClient` |
| `FixClient`, `FixSession` (`fix_client.cpp`) | `sessions_`, fixed after construction | `create`, `send`, `fromApp` | QuickFIX, `FixBuilder` |
| `FixMessage`, `FixObject` (`fix_message.cpp`) | a QuickFIX field map | `set_value`, `get_*`, iteration with a type per field | tables in `fix_field.hpp` |
| `HttpToFixBuilder` | none | `create`: JSON to FIX, call, FIX to JSON | both registries |
| `JsonObject`, `HttpMessage` (`http_message.cpp`) | a JSON document | `from_string`, `set_value`, `get_object`, iteration | rapidjson |
| `HttpServer`, `HttpSession` (`http_parser.cpp`) | `sessions_`; per session llhttp's state, `request_`, `content_` | `on_recv`, llhttp's callbacks, `send` | `Connection`, `HttpBuilder` |
| `HttpBuilder` (`http_builder.cpp`) | the FIX session cached in `HttpSession::up` | `on_recv`, `handle_error` | `MessageBuilder` |
| `TcpServer`, `TcpConnection`, `UdsServer`, `UdsConnection` | acceptor, socket, `data_`, locals of a suspended frame | `accept`, `handle`, `recv`, `send`, `close` | `Schedule`, asio |
| `MessageBuilder`, `MessageFactory` | static maps by name, copied and replaced | `registe`, `unregiste`, `create` | plugins, builders |
| `Application`, `Plugin`, `Loader` | list of plugins; dlopen handle; `count_` | `load`, `reload`, `unload`, destructor; `init`, `deinit` | dlopen, registries |
| `HttpMonitor` | none | `on_recv`: POST, PUT, DELETE of plugins | `Application` |
| `main` (`application.cpp`) | three plugins on the stack, an `io_service` of its own | construct, wait for SIGINT, destroy in reverse order | `Plugin`, the io thread, QuickFIX's |

How a request goes: a connection's coroutine reads, `HttpSession` parses, and
inside the parser's last callback `HttpBuilder` looks up the builder, which
copies the JSON into a FIX message; `FixBuilder` registers a promise under the
FIX session, sends, and suspends the coroutine with a time limit. QuickFIX's
thread finds the promise by session, sets it and resumes the coroutine, which
copies the answer back and writes it to the socket, suspended once per write.

What is hard here:

* **A resume is not tied to a wait.** Resuming is posting a handler; whatever
  the coroutine waits for when the handler runs is what it ends. Timers,
  responses and socket completions all wake the same coroutine.
* **Two threads and one map of promises**, keyed by session though calls are
  per connection: calls that share a session overwrite and erase each other's
  promises, and answers come late, twice or never.
* **Results stored in suspended frames.** A completion holds references to the
  locals of a frame that may have moved on.
* **Failure part of the way**: exceptions leave coroutines, C callbacks of
  llhttp, `reload` between two assignments, and `init` after a registration.
* **Data cut anywhere**: llhttp calls back per piece, not per field.
* **Two type systems**: what a value may be in JSON and what the FIX tables
  make of it differ by field.
* **One buffer, read while the reader waits.** llhttp works on the connection's
  buffer, and the handler it calls waits for FIX and for its writes inside that.
* **Start and shutdown.** Clients are served and messages come while plugins are
  still made or already taken down; only the order of statements, of members and
  of the plugins on the stack protects what the threads share.

What makes each part correct: bodies exclude each other, nothing suspended is
lost and every timed wait ends (`Schedule`); a promise that can be found is of a
call in progress, an answer reaches one call, of its session, and every call
ends (`FixBuilder`); a wait has its own operation's result, one coroutine
listens, a client that left is noticed (`Connection`); every request that was
read is handled once, in order, and its response written once, whole and in
order, in the end (`HttpServer`; the last two unless `create` keeps passing replies
over); a request handed over is whole and of one message
(`HttpSession`); what is sent is what was asked and what is answered is what
came (`HttpToFix`); no code is called that is not loaded, and plugins are
released in an order their dependencies allow (`Plugins`); what the management
API answers is what is loaded (`HttpMonitor`); what a thread calls is there and what
it looks up is registered, and SIGINT ends the process (`Lifecycle`).

## 2. The modules

`Schedule` is the base: `FixBuilder` and `Connection` keep its variables among
theirs, take its actions through `Sch == INSTANCE Schedule`, and have
`ImplementsSchedule == Sch!Spec` as a property. `Schedule` itself is shown to
implement `Wakeups`, which has no queue. `HttpServer` extends `Connection` with what
is in the buffers and with the parser's loop; each of its steps is one of
`Connection`, which has no run of its own: its properties are checked, and its
theorems carried over, in `HttpServer`. `HttpMonitor` extends `Plugins` and takes
its actions as the calls its requests make. `HttpSession`, `HttpToFix` and
`Lifecycle` stand alone: the first two say what is in a request, the last when
the threads are there at all. The `MC` modules and `.cfg` files give the
constants small values; the modules named `...Proofs` hold the theorems.

In every module some definitions stand under a comment "A variant with a bug".
No action uses them: each is a mistake that could be made in the definition
that follows, and checking with the variant in its place violates a property.
`PROJECT.json` pairs them.

### Wakeups

The promise of the scheduler: a resume is worth one wake-up, a timed wait one
more at most, a suspended coroutine runs by spending one. `Schedule` maps to
it by counting the handlers queued per coroutine (`Unspent`). Under fairness a
coroutine with a wake-up runs and a limit runs out, so the refinement carries
liveness too.

### Schedule (`schedule.cpp`, `schedule.hpp`)

`status` is where each coroutine is, `cos` is `cos_`, `timer` is whether
`timer_` has a wait pending, `queue` is asio's queue of handlers, `ios` the run
loop. Each handler is one step of the io thread (`RunResume`, `RunTimeout`,
`RunAborted`); a body's calls (`Yield`, `YieldFor`, `Finish`, `Throw`) are steps
of the coroutine that runs, and `Resume`, `Spawn` and `Stop` are anyone's.
`timer_.cancel` reaches a timer that is pending (its handler is queued as
aborted), not one that has expired into the queue. An exception that leaves a
body leaves `io_service::run` too and ends the process. The timer's handler
reads `this->sch_` of a coroutine that may be destroyed; both things the read
can lead to (a resume is posted, or not) are choices of `RunTimeout`.

### FixBuilder (`fix_builder.cpp`, `future.hpp`)

`pc` says where in `create` a coroutine is, `up` which session it uses, `pmss`
is the map, `value` a call's promise. Registering, sending, waiting, waking and
the scope exit are separate steps, because QuickFIX's thread runs between them;
each holds the mutex once, as the code does. `OnRecv` is `on_recv` with
`Promise::set`: it sets and resumes while it holds the map's mutex. The
counterparty answers with any message of the session, at any time, more than
once or never.

### Connection (`tcp_*.cpp`, `uds_*.cpp`)

Listener and connections, each at a `pc`; `op` is the operation the current
wait started, `out` and `size` the locals the completion stores into. A wait
that ends for another reason leaves its operation behind (`leftReads`,
`leftWrites`). When that operation completes it writes through references into
a frame that is over. The next `recv` or `send` is called from the same place
and has its locals at the same address in the builds this code is made for, so
the result lands in the wait that is in progress there, and nowhere else; that
is the outcome of the undefined behaviour that is modelled. The handler is left
open: it answers, waits for FIX first, needs more data, or throws. `value` is
the promise of the wait for FIX: empty, set by a reply that ends the call, or by
one that is passed over (`PassedOver`). `value_` keeps what was passed over, so
`create` waits again after whatever wakes it, its limit included, as often as it
is woken (`CallAgain`); only another reply can end that. `First` is the coroutine
the server's constructor spawns.

### HttpServer (`http_parser.cpp`, `session.hpp`, the buffer of `tcp_connection.cpp`)

The requests of a connection are numbers. `data` is the connection's buffer, of
`BufferSize` requests, `given` the length of the view `recv` hands out, `parsed` how
far `llhttp_execute` is in it. A read fills the front of the buffer, whoever looks
at it (`Fill`); a `recv` that ends without a completion hands out the old buffer
with any size (`Execute`). `Hand` is the last callback of a request: it reads
the buffer as it is at that moment, which may be long after `recv` came back,
since the handler of the request before has waited in between. `Executed` is the
return from `llhttp_execute`, which happens only when the view is used up.

### HttpSession (`http_parser.cpp`)

One step per callback of llhttp, with a piece of the field or of the body of
any length. `content` is `content_`, `head` and `body` what `request_` has.
A byte is a pair (message, position), so that a property can say where the
bytes of a request come from. `from_string` of a text that is not a whole body
may still parse, or throws and ends the process.

### HttpToFix (`http_builder.cpp`, `http_to_fix_builder.cpp`, `message.cpp`,
`http_message.cpp`, `fix_message.cpp`, part of `fix_client.cpp`)

The requests of one connection with the values in them: `JsonSet`, `FixSet`,
`TypeOf` and `FixMember` are the code's pure functions. `copy_from` goes through what
it copies member by member; `Put` and `PutMember` are the loop's body, into a FIX
message and into a JSON object, and `CopyIntoFix` and `CopyIntoJson` the loop, as a
fold over the members and over the table's tags in their order. `Ask`, `Send`, `Answered`, `PassedOver`, `RefusedLate`, `TimedOut`
and `Crash` the ways a call goes. `JsonMember` and `FieldType` are what a value
becomes on the interface both kinds of message share, `MessageException`,
`CodeOf` and `AnswerError` the exceptions and the status each is answered with. `BeginString`, `SenderCompID` and
`TargetCompID` are one field, `Comp`. What the counterparty sends is well
formed, as QuickFIX checks it against the data dictionary
(`UseDataDictionary=Y` in the configuration).

### Plugins (`application.cpp`, `plugin.cpp`, `loader.hpp`, registries)

An operation of `Application` is one step, with every way it can end; the two
releases of the whole list take a step per plugin. `lib` has the handles and
the `Loader` of each library, `builders` and `factories` the registries; `Builds`
and `Makes` are the libraries that register a builder (`fix_client`, `http_to_fix`,
the tests' plugins) and a factory (`fix_client`, `http_server`). A
library the dynamic linker never unmaps (`Kept`, as the tests' `plugin11`) keeps
its loader's count.

### HttpMonitor (`http_monitor.cpp`)

`on_recv` has its answer before it first waits, so a request is one step: `Post`,
`Put` and `Delete` call `Load`, `Reload` and `Unload` of `Plugins`, and `answer` is
the status. `Bare` says that no arguments are passed on, so that a library of
`NeedsArgs` (`http_server` and `fix_client`) is never initialised by a request. `Directly`
is the process's own loading, with arguments. Messages are made by whatever
factory is registered as "http" (`There`, `Begins`, `Lost`); the response must
still have its code when its status is set, and an error is answered with a
second response, of the factory that is registered by then (`Answer`). `known` is what a client
concludes from the statuses, `tried` the libraries asked for: both are history.

### Lifecycle (`application.cpp`, the three `plugin.cpp`, `plugin.hpp`, `builder.cpp`, `message.cpp`)

`Program` is what main's thread does, statement by statement, from the first
plugin's constructor to the last one's destructor: make, register, start, wait
for SIGINT, stop, join, unregister, destroy, in the order the code and the
declaration of its members give. A registration is two steps, the copy of the map
and its publication (`Copy`, `Publish`), because nothing but that order keeps the
io thread from reading it in between. The io thread takes a coroutine through the
places of a request (`LookUp`, `Register`, `Leave`), with the waits between them: a
wait may be followed by another, an exception by an error reply, and a sent reply by
the next pipelined request. A library that is not opened, a plugin that is not made and
an initiator that does not start all end the program (`MakeFails`). QuickFIX's thread
goes through `on_recv` (`Lock`, `Find`, `Post`), where it holds a reference to the
scheduler for a moment; it may deliver until it is joined. `Unwind` is `~Schedule`
destroying suspended coroutines, stack and all.

## 3. The runs

Bounds are constants of the modules; every one is named there and in the `.cfg`.

| Run | What it checks | Instance |
|---|---|---|
| `schedule` | `LockedIsSuspended` (the `assert(ps_)`), `NoneForgotten`, refinement of `Wakeups` with fairness | two coroutines |
| `fix_builder` | `PromiseIsLive`, `RegisteredUnlessContended`, `OneTaker`, `EveryCreateEnds`, refinement of `Schedule` | two connections, two sessions, any answers, requests with and without MsgType |
| `http_server` | `OneListener`, `WaitIsAnswered`, `OwnResult`, `HandledInOrder`, `AnsweredInOrder`, `HangUpEnds`, `EveryRequestEnds`, refinement of `Schedule` | a listener and a connection, a buffer of two requests, responses in two parts, two reads, two requests, a call of `create` for each with any number of waits |
| `http_monitor` | of `Plugins`: `HandlesMatch`, `FoundIsLoaded`, `LoadedWorks`, `OnlyNewerDisplaces`; `AnswersTell`, `OutlivesOthers` | two names; two libraries under one key, one that registers a builder and a factory and needs arguments and one a builder only and never unmapped, and one under the monitor's key that needs arguments too |
| `http_session` | `WholeUnlessCut`, `NothingForeign` | two requests; no body, four bytes, chunks of one and three |
| `http_to_fix` | `SentIsAsked`, `AnswerIsReply`, `RefusedUnsent`, `SentWhereNamed` | two requests, fields of each type, heads in every order |
| `lifecycle` | `RegistriesQuiet`, `ServedIsRegistered`, `CalledIsThere`, `NothingLeft`, `ShutdownEnds` | the whole program of main, two connections |

Each of these also checks its module's type invariant. Five runs end in a
violation, and each is a disagreement between the code and what a doc, comment or
test says of it:

| Run | What the code does |
|---|---|
| `reply_of_other_order` | the late answer to one order is returned for the next of the session (`fix_builder.cpp:93`) |
| `timeout_never_thrown` | after a response that is passed over, no time limit is ever reported (`future.hpp:47`) |
| `request_handled_twice` | a `recv` ended by a wake-up that was left over hands out the old buffer with the old size, and the request in it is handled again (`tcp_connection.cpp:57`) |
| `failed_reload_crashes` | a failed reload leaves a null plugin that the next operation dereferences (`application.cpp:47`) |
| `body_in_equal_pieces` | a body in pieces of equal length loses the first (`http_parser.cpp:130`) |

`HangUpEnds` and `EveryRequestEnds` accept the end of the process, which an
exception of one connection brings about (`Fail`, `SendFailed`), as `ShutdownEnds`
accepts a crash; the hazards in `PROJECT.json` say so where they name such a case.

Some passing properties are the strongest that hold beside these: `OwnResult`,
`HandledInOrder`, `AnsweredInOrder` and `EveryRequestEnds` speak of coroutines not in
`owing` (those that never began an operation while a wake-up was owed to them),
`RegisteredUnlessContended` of calls that have their session for themselves,
`WholeUnlessCut` of bodies and fields without the pieces in question,
`SentWhereNamed` of a connection before its first answer or of the session it is
bound to then, `EveryCreateEnds`, `HangUpEnds` and `EveryRequestEnds` of calls whose
`create` does not pass a reply over and wait again for ever (it does, that is
`timeout_never_thrown`, and such a connection neither answers nor notices that its
client left), `OutlivesOthers` of a monitor before a reload failed or a library
of its own key was asked for. These exclusions are history variables that name
the condition the code needs. Two more are states of `Lifecycle`: `Straddled`, in
which QuickFIX's thread has become the owner of the scheduler main dropped (and
may lock itself up in destroying it), and a crash on an order that still waits
when the scheduler is destroyed. The code does both; no text of the repository
says otherwise, so they are hazards in `PROJECT.json` and not findings.

**Why the bounds are enough.** Two coroutines are enough for one to run while
another is resumed, and for two calls to share a session or not; a third adds
no new kind of contention, as every action speaks of one coroutine or of one
and its session. `MaxQueue` only limits what clients post: timers and handlers
that repost are not limited, so that a resume and an expired timer of one wait
are both queued in each run. A connection calls `create` once per request, and the
waits of a call are not bounded; one is enough to leave a wake-up behind. Two
responses and two reads let a wait that follows it begin
with it owed, and one after that with an operation left behind. Two requests
come in one read or in two, so that the second is parsed after a wait inside the
first or after another `recv`. Two parts are the least for which a response can
be cut or repeated inside. (`MCHttpServerOnce.cfg` gives up the parts and has three
requests, what the violation it finds takes.) Two messages let one
leave something to the next. Four bytes can be cut in equal and unequal pieces,
also across chunks. In `http_monitor` four initialisations and four loads let
both names be loaded, one be reloaded and another library fail between them, and
a library come back after it was closed. In `lifecycle` the program is not bounded
at all, and two connections let one be anywhere while main or QuickFIX's thread
deals with the other.
The theorems below have no bounds at all.

**Fairness.** `WF` of the io thread: `io_service::run` goes on while there are
handlers. `WF` of each body: a body that runs is ordinary code, and it runs
until it suspends itself. `SF` of `TimerExpire`: the reactor looks at timers
between handlers, so a timer that is due is noticed, though not while a body
runs (weak fairness would not say that). In `HttpServer`, `SF` of the completions
after the client has closed: what is pending on the socket ends then; and `SF` of the
completion of writes: a client that stays takes what is written to it. In
`Lifecycle`, `SF` of main and of the io thread, because both wait for a mutex that
QuickFIX's thread takes for every message and mutexes do not starve anyone for
ever; `WF` of QuickFIX's thread inside `on_recv`. Nothing is assumed of the
counterparty, of new clients or of SIGINT: they may never come. `Stop` may happen at any
time, and liveness is stated up to it.
Deadlock checking is off because the system may stop: everyone may wait for a
client, the io_service may be stopped, and bounded clients run out of requests.

## 4. What is proved

The theorems hold for every value of the constants: any number of coroutines,
FIX sessions, requests, parts, libraries and names, any tables and values. They
rest only on the named assumptions below, which TLC evaluates in the runs, and on
nothing about the bounds except that they are numbers. TLC has checked each
property first, on the instances of section 3; the strengthenings were found by
asking what a step that would break the property must have found before it.

| Module | Theorems | Argument |
|---|---|---|
| `ScheduleProofs` | `TypeCorrect`, `BodiesExclude`, `AssertPsHolds` (`LockedIsSuspended`), `NoneStranded` (`NoneForgotten`), `TimersAreAwaited`, `SpendsWakeups` | `Inductive`: one body runs at most, what is in `cos_` is live, what is suspended is in `cos_`, a pending timer is of the current wait, and a timed wait has its timer or a handler still to come. The last part is what `NoneForgotten` needs: `RunTimeout` and `RunAborted` consume a handler, and each leaves another one behind or ends the wait. `SpendsWakeups` is the safety part of the refinement of `Wakeups`: the handlers of a coroutine are counted as they are appended and taken (`CountOfAppend`, `CountOfTail`), and only coroutines that were spawned have any (`QueuedIsBorn`). |
| `FixBuilderProofs` | `TypeCorrect`, `RefinesSchedule`, `CallsAreScheduled`, `PromisesAreLive`, `SoleCallsAreRegistered`, `ResponsesHaveOneTaker` | Every step is one of `Schedule` or leaves it alone, so the scheduler's theorems hold beneath. A promise in the map is of a call that is inside `create` and that has that session (`MapInv`). For `OneTaker` responses are numbered, each is held by one promise at most, and what was returned did come (`TakerInv`). |
| `ConnectionProofs` | `TypeCorrect`, `RefinesSchedule`, `WaitsAreAnswered`, `ServerListens`, `ResultsAreOwn` | One listener: as long as the process lives no coroutine was born yet or exactly one is between its spawn and its next spawn (`ListenerInv`). Own results: a coroutine to which nothing was owed has left no operation behind, so the only completion that can reach its frame is that of the operation it waits for (`OwnInv`). |
| `HttpServerProofs` | `RefinesConnection` and by it the five above for `HttpSpec`; `HttpTypeCorrect`, `RequestsInOrder`, `ResponsesInOrder` | Of a coroutine nothing is owed to: while it parses, what it handled and the rest of its view make up what it read (`ParserInv`); what it wrote is the digits of the responses so far and the parts of the current one (`WireInv`). Both need `OwnInv`, as a read left behind is what changes a view. |
| `HttpSessionProofs` | `TypeCorrect`, `RequestsAreWhole`, `RequestsAreOwn` | Where the parser is in a message says what `request_` and `content_` have of it, that all of it is of this message (`OwnText`), and that it is a prefix of it, unless the pieces were those in question (`WholeText`). |
| `HttpToFixProofs` | `TypeCorrect`, `CopyCarries`, `CopyReads`, `OrdersSayWhatWasAsked`, `AnswersSayWhatCame`, `RefusalsAreUnsent`, `OrdersGoWhereNamed` | Requests, orders and answers are numbered alike, an order is sent once, and a cached session is one that answered (`BoundByAnswer`); an order is the copy of the request it has the number of (`Copied`), an answer with 200 the copy of a response. What the copies are is an induction along the members or the tags: after the first `k`, a field has the text of the last of them that speaks of it (`CarriesFirst`), and the object has each field taken so far once (`ReadsFirst`, which needs that no tag comes twice). |
| `PluginsProofs` | `HandlesAreCounted`, `BuildersAreLoaded`, `PluginsWork`, `OldOnesStay`; `MonitorRefinesPlugins`, `TypeCorrect`, `StatusesTell`, `OthersDoNotEndIt` | Per library (`LibSound`): as many handles as plugins of it, a loader's count no less, and equal where the library can be unmapped, which then is initialised; per key (`KeySound`): the builder in the registry is the one its loader has. An operation in the middle has a handle more than plugins, so the lemmas speak of the state and of a number of plugins apart; only at the end of an operation is that number the list's. For the monitor, what a client knows and what was tried follow the list (`Lists`). |
| `LifecycleProofs` | `TypeCorrect`, `RegistriesAreQuiet`, `RequestsAreServed`, `CallsAreThere`, `UnwindingIsWhole` | Where main is in `Program` decides what is constructed, registered and running (`MainInv`), and by that which places the other threads and the requests can be in (`ThreadInv`, `PlaceInv`). One lemma, `ProgramIs`, lists the statements; each kind of statement has its lemma, and a step of another thread leaves `MainInv` alone. |

**Assumptions.** Bounds are naturals (`MaxQueueIsNat`, `ScheduleBound`,
`BoundsAreNat`, `BoundIsNat`, `RequestsAreNat`); a response has a part, a buffer
room for a request and a field a byte (`PartsIsPositive`, `BufferHoldsOne`,
`FieldHasBytes`, `ShapesAreRuns`); "none" is none of the things it stands beside
(`NoneIsNoCoroutine`, `NoneIsNoOperation`, `NoneIsNoObject`, `NoneIsNothing`,
`CoroutinesAreNoStates`); a library has a key, and those never unmapped, that register
something or that need arguments are libraries (`KeyOfLibrary`, `KeptLibraries`, `RegisteringLibraries`,
`MonitorLibraries`); the tables of fields are tables (`TagsAreNames`,
`TypesOfNames`, `TypesAreTypes`; `IdentityIsText` is used by no proof). What clients
and the counterparty send is well formed, and no more is assumed of it: JSON
objects are sequences of members (`JsonObjects`), of any length and any names, and
responses have texts in fields of the tables (`FixMessages`).

**Induction along a sequence.** The library's induction theorems take an operator,
which the provers cannot instantiate. `Upwards` states induction on the naturals for
a *set* instead, from the least element every non-empty set of naturals has
(`WFMin`); `UpTo` is the same up to a bound. A fold is the library's choice of a function
that takes one step per element: `Iterates` shows that there is one, `GoesAlong`
that any goes from place to place, and `CopyIntoFixSteps` and
`CopyIntoJsonSteps` apply both to the two folds of the model.

**Only model-checked.** Liveness (`EveryCreateEnds`, `HangUpEnds`,
`EveryRequestEnds`, `ShutdownEnds`) and the fairness that `Wakeups` promises:
fairness and ENABLED are out of the proof system's reach. Every invariant of a
passing run is proved.

## 5. Not modelled

* A request cut over several reads while a read is left behind. `HttpServer` has
  requests in one piece and a buffer that changes; `HttpSession` has the pieces
  and a buffer that does not.
* `HttpServer::sessions_`, which gains an entry per connection and loses none: it has
  no bound that could be exceeded and nothing reads it wrongly.
* The text of a response, of numbers and dates, groups of FIX fields, the generated
  tables of `fix_field.hpp`, string splitting, logging and the texts of exceptions.
* A library closed through the management API while another thread is in it. main
  makes no `HttpMonitor` and no `Application`, and with one io thread a request of the
  monitor is not interrupted.
* A `recv` that hands out more than the buffer: without a completion its size is
  what was on the stack, which `Execute` takes from 0 to `BufferSize`; beyond, llhttp
  would read past `data_`.
* `ios.stop()` inside the signal handler (`src/application.cpp:20`), which takes a mutex
  of asio that the interrupted thread may hold: `Interrupt` is one step.
* The listener's own coroutine in `Lifecycle`, which neither looks anything up nor has a
  promise.
* Two threads that register at once: only main's thread registers.
* `Future::get` without a limit, `unregiste` of everything and `clone` have no caller in
  `src/src`.
* QuickFIX, llhttp, rapidjson, boost and the dynamic linker, except for what the code
  in `src/` sees of them; those definitions are marked external in `PROJECT.json`.

## 6. Plan

The plan's modules, in the order they were written: the scheduler and its
abstract specification, the calls on top of it, connections, the parser of one
session, the conversion, plugins and their management, the server with its
buffers, and the process from start to end. What is left, by what it would add:

1. `HttpServer` with the pieces of `HttpSession`, so that a request may be cut over
   two reads and handled while one of them is left behind. The states multiply; a
   refinement of both modules would carry their theorems over.
2. Several io threads. `main` has one; `Schedule` says in `OneRunning` what would be
   lost.
