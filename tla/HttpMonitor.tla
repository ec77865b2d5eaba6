---------------------------- MODULE HttpMonitor ----------------------------
(***************************************************************************)
(* The management API over Application: HttpMonitor::on_recv                *)
(* (http_monitor.cpp) loads, reloads and unloads plugins as its requests    *)
(* say, and answers with a status.  Its own messages are made by the        *)
(* factory registered as "http", which plugins may replace and take away.   *)
(*                                                                         *)
(* A request is one step: on_recv does not wait before it has its answer.   *)
(* Plugins also come from the process itself, with the arguments the        *)
(* monitor never passes.  What becomes of an answer is Connection's.        *)
(***************************************************************************)
EXTENDS Plugins

CONSTANTS
    HttpKey,     \* the "http" of MessageFactory::create("http")
    NeedsArgs    \* the libraries whose do_init throws without arguments

ASSUME MonitorLibraries == HttpKey \in Key /\ NeedsArgs \subseteq Path

VARIABLES
    answer,   \* the status of the last request, None if it got no answer
    alive,    \* no code was called that is not there
    known,    \* history: the library of each name, by what the answers said
    tried     \* history: the libraries that plugins were to be made of

monVars == <<answer, alive, known, tried>>

Names(to) == [name \in Name |-> to]

MonitorTypeOK ==
    /\ TypeOK
    /\ answer \in {200, 400, 404, 500, None}
    /\ alive \in BOOLEAN
    /\ known \in [Name -> Path \cup {None}]
    /\ tried \subseteq Path

\* HttpMessageFactory is registered by whoever starts the monitor.
MonitorInit ==
    /\ Init
    /\ factories = [k \in Key |-> IF k = HttpKey THEN Own ELSE None]
    /\ answer = None
    /\ alive = TRUE
    /\ known = Names(None)
    /\ tried = {}

-----------------------------------------------------------------------------
(* What a request's handling meets at its start and at its end.             *)

\* The code of a factory and of the messages it made is there.
There(f, libraries) ==
    CASE f = Own -> TRUE
      [] f = None -> FALSE
      [] OTHER -> f.path \in Kept \/ libraries[f.path].handles > 0

\* A message is created for the request.  There may be no factory, or only its
\* pointer.
Begins == alive /\ There(factories[HttpKey], lib)

Lost ==
    /\ alive /\ Up
    /\ ~There(factories[HttpKey], lib)
    /\ alive' = FALSE
    /\ UNCHANGED <<vars, answer, known, tried>>

\* The status is set on a response that the factory of the start made.  An error
\* is answered with one made by the factory that is there then, the first
\* response being destroyed as the exception leaves.
Answer(status) ==
    /\ answer' = status
    /\ alive' = (/\ There(factories[HttpKey], lib')
                 /\ status = 500 => There(factories'[HttpKey], lib'))

\* Nothing but the status is known of how the request ended.
Learns(name, to) == known' = [known EXCEPT ![name] = to]

\* What is said of a plugin that could not be made.
Failure == IF last' = "true" THEN 200 ELSE 500

\* No argument is passed on: a do_init that needs one throws, before it has
\* registered anything.  A library that is initialised already needs none.
Bare(p) ==
    p \in NeedsArgs /\ inits' # inits =>
        /\ last' # "true"
        /\ factories'[KeyOf[p]] # [path |-> p, n |-> inits']

-----------------------------------------------------------------------------
(* on_recv, by method.                                                      *)

\* POST, on_load.  A name that is taken is answered as one not found.
Post(name, p) ==
    /\ Begins
    /\ \/ /\ Taken(name)
          /\ Answer(404)
          /\ UNCHANGED <<known, tried>>
       \/ /\ Load(name, p) /\ Bare(p)
          /\ Answer(Failure)
          /\ IF Failure = 200 THEN Learns(name, p) ELSE UNCHANGED known
          /\ tried' = tried \cup {p}

\* A variant with a bug: the exception is swallowed, and the answer a success.
PutPleased(name, p) ==
    /\ Begins
    /\ Reload(name, p) /\ Bare(p)
    /\ Answer(200)
    /\ Learns(name, p)
    /\ tried' = tried \cup {p}

\* PUT, on_reload.  The plugin is gone when the new one cannot be made.
Put(name, p) ==
    /\ Begins
    /\ \/ /\ NotFound(name)
          /\ Answer(404)
          /\ UNCHANGED <<known, tried>>
       \/ /\ Reload(name, p) /\ Bare(p)
          /\ Answer(Failure)
          /\ Learns(name, IF Failure = 200 THEN p ELSE None)
          /\ tried' = tried \cup {p}

\* DELETE, on_unload_plugin.
Delete(name) ==
    /\ Begins
    /\ \/ /\ NotFound(name)
          /\ Answer(404)
          /\ UNCHANGED known
       \/ /\ Unload(name)
          /\ Answer(200)
          /\ Learns(name, None)
    /\ UNCHANGED tried

\* A path that is not the API's, no name, or no text "path" in the body.
BadRequest ==
    /\ Begins /\ Up
    /\ answer' = 400
    /\ UNCHANGED <<vars, alive, known, tried>>

\* Other methods are not handled yet: nothing is sent.
Unhandled ==
    /\ Begins /\ Up
    /\ answer' = None
    /\ UNCHANGED <<vars, alive, known, tried>>

\* get calls a method of a null plugin.
Dies(name) ==
    /\ Begins
    /\ Crash(name)
    /\ alive' = FALSE
    /\ UNCHANGED <<answer, known, tried>>

-----------------------------------------------------------------------------
(* The process itself, by Application's functions.                          *)

Directly(name, p) ==
    /\ alive
    /\ Load(name, p)
    /\ IF last' = "true" THEN Learns(name, p) ELSE UNCHANGED known
    /\ tried' = tried \cup {p}
    /\ UNCHANGED <<answer, alive>>

DirectlyAll ==
    /\ alive
    /\ UnloadAll \/ Exit
    /\ known' = Names(None)
    /\ UNCHANGED <<answer, alive, tried>>

Releasing == (Clear \/ PopBack) /\ UNCHANGED monVars

MonitorNext ==
    \/ \E name \in Name :
          \/ Delete(name) \/ Dies(name)
          \/ \E p \in Path : Post(name, p) \/ Put(name, p) \/ Directly(name, p)
    \/ BadRequest \/ Unhandled \/ Lost
    \/ DirectlyAll \/ Releasing

MonitorSpec == MonitorInit /\ [][MonitorNext]_<<vars, monVars>>

-----------------------------------------------------------------------------
(* Properties.                                                              *)

\* The statuses alone tell which libraries are loaded under which names,
\* whatever failed on the way: 404 and 500 to a POST leave the name as it was,
\* 404 to a PUT or DELETE says there is none, and 500 to a PUT that it is gone.
AnswersTell ==
    phase = "up" =>
        \A name \in Name :
            {plugins[i].path : i \in {i \in DOMAIN plugins : Called(name, i)}}
                = {known[name]} \ {None}

\* The monitor outlives everything but a failed reload and the libraries that
\* register messages of its own kind: whatever else is loaded and unloaded, its
\* factory stays.
OutlivesOthers ==
    ~alive => \/ \E i \in DOMAIN plugins : ~plugins[i].live
              \/ \E p \in tried : KeyOf[p] = HttpKey
=============================================================================
