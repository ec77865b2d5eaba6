------------------------------ MODULE Plugins -------------------------------
(***************************************************************************)
(* The plugins of the process: Application's list of them (application.cpp) *)
(* with Plugin's loading of a library (plugin.cpp), the library's Loader    *)
(* (loader.hpp) and what it registers (builder.cpp, message.cpp).           *)
(*                                                                         *)
(* One thread calls load, reload, unload and, at exit, the destructor.  An  *)
(* operation is one step with every way it can end: a library that is not   *)
(* found, an init that throws before or after it registered something.      *)
(* The two releases of the whole list take a step per plugin.               *)
(*                                                                         *)
(* A library's code and its static Loader are there while dlopen's count of *)
(* handles is positive, and after that too if the dynamic linker keeps it   *)
(* (as it does a library with unique symbols): a loader that is kept keeps  *)
(* its count.                                                              *)
(***************************************************************************)
EXTENDS Naturals, Sequences, FiniteSets

CONSTANTS
    Name,       \* the names plugins are loaded under
    Path,       \* the libraries
    Key,        \* what builders and factories are registered under
    KeyOf,      \* the key each library registers its own under
    Builds,     \* the libraries that register a builder
    Makes,      \* the libraries that register a factory
    Kept,       \* the libraries the dynamic linker never unmaps
    None,       \* no object
    MaxInits,   \* bound: do_init calls
    MaxLoads    \* bound: plugins added to the list

ASSUME KeyOfLibrary == KeyOf \in [Path -> Key]
ASSUME KeptLibraries == Kept \subseteq Path
ASSUME RegisteringLibraries == Builds \subseteq Path /\ Makes \subseteq Path
ASSUME BoundsAreNat == MaxInits \in Nat /\ MaxLoads \in Nat

VARIABLES
    plugins,   \* Application::plugins_
    lib,       \* of each library: its handles and its Loader
    builders,  \* MessageBuilder::builders_
    factories, \* MessageFactory::ctors_
    inits,     \* how many do_init calls there were: objects are told apart by it
    born,      \* history: how many plugins were ever added to the list
    phase,     \* "up", in unload's clear, or in the destructor
    last       \* how the last operation ended

vars == <<plugins, lib, builders, factories, inits, born, phase, last>>

\* A builder and a factory, told apart by library and init.
Object == [path : Path, n : 1..MaxInits]

\* What the process itself registered before any plugin.
Own == [path |-> None, n |-> 0]

\* A null pointer is no object, and no library's path.
ASSUME NoneIsNoObject == None \notin Object /\ None # Own /\ None \notin Path

\* An entry of the list.  One whose pointer is null has live = FALSE.
Entry == [name : Name, path : Path, live : BOOLEAN]

Library == [handles : Nat, count : Nat,
            builder : Object \cup {None}, factory : Object \cup {None}]

Fresh == [handles |-> 0, count |-> 0, builder |-> None, factory |-> None]

TypeOK ==
    /\ plugins \in Seq(Entry)
    /\ lib \in [Path -> Library]
    /\ builders \in [Key -> Object \cup {None}]
    /\ factories \in [Key -> Object \cup {Own, None}]
    /\ inits \in 0..MaxInits
    /\ born \in Nat
    /\ phase \in {"up", "clearing", "exiting"}
    /\ last \in {"none", "true", "false", "throw", "crash"}

Init ==
    /\ plugins = <<>>
    /\ lib = [p \in Path |-> Fresh]
    /\ builders = [k \in Key |-> None]
    /\ factories \in [Key -> {Own, None}]
    /\ inits = 0
    /\ born = 0
    /\ phase = "up"
    /\ last = "none"

-----------------------------------------------------------------------------
(* What an operation changes of the libraries and the registries, as a       *)
(* record, so that one operation may open and close several.                 *)

Now == [lib |-> lib, builders |-> builders, factories |-> factories, inits |-> inits]

Becomes(w) ==
    /\ lib' = w.lib
    /\ builders' = w.builders
    /\ factories' = w.factories
    /\ inits' = w.inits

SetLib(w, p, l) == [w EXCEPT !.lib = [@ EXCEPT ![p] = l]]

\* dlopen and dlclose.  The last dlclose destroys the static Loader.
Dlopen(w, p) == SetLib(w, p, [w.lib[p] EXCEPT !.handles = @ + 1])

Dlclose(w, p) ==
    LET l == [w.lib[p] EXCEPT !.handles = @ - 1] IN
    SetLib(w, p, IF l.handles = 0 /\ p \notin Kept THEN Fresh ELSE l)

\* MessageBuilder::registe and MessageFactory::registe replace what has the key.
\* A builder is unregistered only if it is the one that is registered, while a
\* factory's key is erased whoever's it is.  The object is None for a library
\* that has none of the kind, and calls neither.
Registe(r, k, object) == IF object = None THEN r ELSE [r EXCEPT ![k] = object]
\* A variant with a bug: builders are unregistered like factories.
UnregisteAnyBuilder(r, k, object) == [r EXCEPT ![k] = None]

UnregisteBuilder(r, k, object) == IF r[k] = object THEN [r EXCEPT ![k] = None] ELSE r
\* A variant with a bug: unregiste of all of them, as the tests' teardown does.
UnregisteAllFactories(r, k, object) ==
    IF object = None THEN r ELSE [j \in DOMAIN r |-> None]

UnregisteFactory(r, k, object) ==
    IF object = None THEN r ELSE [r EXCEPT ![k] = None]

\* What the next do_init makes of a kind, if the library is among its registrants.
Made(w, p, registrants) ==
    IF p \in registrants THEN [path |-> p, n |-> w.inits + 1] ELSE None

\* do_init makes the library's builder and its factory and registers them.
DoInit(w, p) ==
    LET builder == Made(w, p, Builds)
        factory == Made(w, p, Makes)
    IN [lib |-> [w.lib EXCEPT ![p] = [@ EXCEPT !.builder = builder, !.factory = factory]],
        builders |-> Registe(w.builders, KeyOf[p], builder),
        factories |-> Registe(w.factories, KeyOf[p], factory),
        inits |-> w.inits + 1]

\* do_init throws before it registered anything, or, as HttpServerLoader's does
\* when its server cannot be made, after it registered its factory.
DoInitThrows(w, p) ==
    LET factory == Made(w, p, Makes)
        after == [w EXCEPT !.lib = [@ EXCEPT ![p] = [w.lib[p] EXCEPT !.factory = factory]],
                           !.factories = Registe(@, KeyOf[p], factory)]
    IN {[early EXCEPT !.inits = @ + 1] : early \in {w, after}}

\* A variant with a bug: the loader lets go of its builder, still registered.
DoDeinitFactory(w, p) ==
    LET l == w.lib[p] IN
    [w EXCEPT
        !.lib = [@ EXCEPT ![p] = [l EXCEPT !.builder = None, !.factory = None]],
        !.factories = UnregisteFactory(@, KeyOf[p], l.factory)]

DoDeinit(w, p) ==
    LET l == w.lib[p] IN
    [w EXCEPT
        !.lib = [@ EXCEPT ![p] = [l EXCEPT !.builder = None, !.factory = None]],
        !.builders = UnregisteBuilder(@, KeyOf[p], l.builder),
        !.factories = UnregisteFactory(@, KeyOf[p], l.factory)]

\* Loader::init: only the first one initialises.  The count stays as it is when
\* do_init throws.  What comes out: how it ended, and everything after it.
LoaderInit(w, p) ==
    LET counted == SetLib(w, p, [w.lib[p] EXCEPT !.count = @ + 1]) IN
    IF w.lib[p].count = 0
    THEN {[ok |-> TRUE, w |-> DoInit(counted, p)]}
         \cup {[ok |-> FALSE, w |-> x] : x \in DoInitThrows(counted, p)}
    ELSE {[ok |-> TRUE, w |-> counted]}

\* A variant with a bug: every deinit takes down.
LoaderDeinitEach(w, p) ==
    DoDeinit(SetLib(w, p, [w.lib[p] EXCEPT !.count = @ - 1]), p)

\* Loader::deinit: only the last one takes down.
LoaderDeinit(w, p) ==
    LET counted == SetLib(w, p, [w.lib[p] EXCEPT !.count = @ - 1]) IN
    IF counted.lib[p].count = 0 THEN DoDeinit(counted, p) ELSE counted

\* Variants with a bug: the constructor keeps the handle when init throws, or
\* closes it a second time.
ConstructLeaking(w, p) == {[ok |-> FALSE, w |-> w]} \cup LoaderInit(Dlopen(w, p), p)
ConstructClosingTwice(w, p) ==
    {[ok |-> r.ok, w |-> IF r.ok THEN r.w ELSE Dlclose(Dlclose(r.w, p), p)] :
        r \in LoaderInit(Dlopen(w, p), p)}

\* Plugin's constructor: dlopen fails, or init's exception closes the handle.
Construct(w, p) ==
    {[ok |-> FALSE, w |-> w]}
    \cup {[ok |-> r.ok, w |-> IF r.ok THEN r.w ELSE Dlclose(r.w, p)] :
             r \in LoaderInit(Dlopen(w, p), p)}

\* Plugin's destructor.
Destruct(w, p) == Dlclose(LoaderDeinit(w, p), p)

-----------------------------------------------------------------------------
(* Application.                                                              *)

Called(name, i) == plugins[i].name = name /\ plugins[i].live

\* get looks from the front, and reads the name of every plugin on its way.
Finds(name, i) ==
    /\ i \in DOMAIN plugins
    /\ Called(name, i)
    /\ \A j \in 1..(i - 1) : plugins[j].live /\ ~Called(name, j)

FindsNone(name) ==
    \A i \in DOMAIN plugins : plugins[i].live /\ ~Called(name, i)

Up == phase = "up" /\ last # "crash"

\* A null entry is met before the name: its name is read all the same.
Crash(name) ==
    /\ Up
    /\ ~FindsNone(name) /\ \A i \in DOMAIN plugins : ~Finds(name, i)
    /\ last' = "crash"
    /\ UNCHANGED <<plugins, lib, builders, factories, inits, born, phase>>

\* load of a name that is taken.
Taken(name) ==
    /\ Up
    /\ \E i \in DOMAIN plugins : Finds(name, i)
    /\ last' = "false"
    /\ UNCHANGED <<plugins, lib, builders, factories, inits, born, phase>>

\* reload or unload of a name that is not.
NotFound(name) ==
    /\ Up
    /\ FindsNone(name)
    /\ last' = "false"
    /\ UNCHANGED <<plugins, lib, builders, factories, inits, born, phase>>

Load(name, p) ==
    /\ Up
    /\ FindsNone(name)
    /\ born < MaxLoads /\ inits < MaxInits
    /\ \E r \in Construct(Now, p) :
          /\ Becomes(r.w)
          /\ IF r.ok
             THEN /\ plugins' = Append(plugins,
                        [name |-> name, path |-> p, live |-> TRUE])
                  /\ born' = born + 1
                  /\ last' = "true"
             ELSE UNCHANGED <<plugins, born>> /\ last' = "throw"
    /\ UNCHANGED phase

\* The old plugin goes first.  If the new one cannot be made, the exception
\* leaves the entry null.
Reload(name, p) ==
    /\ Up
    /\ inits < MaxInits
    /\ \E i \in DOMAIN plugins :
          /\ Finds(name, i)
          /\ \E r \in Construct(Destruct(Now, plugins[i].path), p) :
                /\ Becomes(r.w)
                /\ plugins' = [plugins EXCEPT ![i] =
                      IF r.ok THEN [@ EXCEPT !.path = p] ELSE [@ EXCEPT !.live = FALSE]]
                /\ last' = IF r.ok THEN "true" ELSE "throw"
    /\ UNCHANGED <<born, phase>>

Without(i) == SubSeq(plugins, 1, i - 1) \o SubSeq(plugins, i + 1, Len(plugins))

\* A null entry has nothing left to destroy.
Released(e) == Becomes(IF e.live THEN Destruct(Now, e.path) ELSE Now)

Unload(name) ==
    /\ Up
    /\ \E i \in DOMAIN plugins :
          /\ Finds(name, i)
          /\ Released(plugins[i])
          /\ plugins' = Without(i)
    /\ last' = "true"
    /\ UNCHANGED <<born, phase>>

\* unload without a name clears the list, from the front.
UnloadAll ==
    /\ Up
    /\ phase' = "clearing"
    /\ UNCHANGED <<plugins, lib, builders, factories, inits, born, last>>

Clear ==
    /\ phase = "clearing"
    /\ IF plugins = <<>>
       THEN phase' = "up" /\ UNCHANGED <<plugins, lib, builders, factories, inits>>
       ELSE /\ Released(Head(plugins))
            /\ plugins' = Tail(plugins)
            /\ UNCHANGED phase
    /\ UNCHANGED <<born, last>>

\* The destructor of the application releases from the back.
Exit ==
    /\ Up
    /\ phase' = "exiting"
    /\ UNCHANGED <<plugins, lib, builders, factories, inits, born, last>>

PopBack ==
    /\ phase = "exiting"
    /\ plugins # <<>>
    /\ Released(plugins[Len(plugins)])
    /\ plugins' = Without(Len(plugins))
    /\ UNCHANGED <<born, phase, last>>

Next ==
    \/ \E name \in Name :
          \/ Crash(name) \/ Taken(name) \/ NotFound(name) \/ Unload(name)
          \/ \E p \in Path : Load(name, p) \/ Reload(name, p)
    \/ UnloadAll \/ Clear
    \/ Exit \/ PopBack

Spec == Init /\ [][Next]_vars

-----------------------------------------------------------------------------
(* Properties.                                                              *)

\* As many handles of a library are open as plugins were made of it, however
\* many inits threw: no code is unmapped under a plugin, none is leaked.
HandlesMatch ==
    \A p \in Path :
        lib[p].handles = Cardinality({i \in DOMAIN plugins :
                             plugins[i].live /\ plugins[i].path = p})

\* A builder that can be found belongs to a loader that still has it, in a
\* library with a handle: create never calls code that is gone.
FoundIsLoaded ==
    \A k \in Key :
        builders[k] # None =>
            /\ lib[builders[k].path].builder = builders[k]
            /\ lib[builders[k].path].handles > 0

\* A builder that can be found stays so until its own loader takes it down or a
\* newer one is registered under its key: unloading an older plugin of the same
\* key does not take it away.
OnlyNewerDisplaces ==
    [][\A k \in Key :
        builders[k] # None /\ builders'[k] # builders[k] =>
            \/ builders'[k] # None /\ builders'[k].n > builders[k].n
            \/ lib'[builders[k].path].builder # builders[k]]_vars

Initialised(e) ==
    /\ e.path \in Builds => lib[e.path].builder # None
    /\ e.path \in Makes => lib[e.path].factory # None

\* A plugin of a library that can be unmapped is an initialised one: however
\* often it failed, was shared or was reloaded before.
LoadedWorks ==
    \A i \in DOMAIN plugins :
        plugins[i].live /\ plugins[i].path \notin Kept => Initialised(plugins[i])

\* A reload that fails is reported to its caller and nothing worse.
NeverCrashes == last # "crash"
=============================================================================
