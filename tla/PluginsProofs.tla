--------------------------- MODULE PluginsProofs ----------------------------
(***************************************************************************)
(* Proofs about Plugins and HttpMonitor, for any names, libraries, keys and *)
(* bounds: what is open, counted and registered fits together after every   *)
(* operation, however it ended.                                            *)
(***************************************************************************)
EXTENDS HttpMonitor, FiniteSetTheorems, SequenceTheorems, TLAPS

World == [lib : [Path -> Library],
          builders : [Key -> Object \cup {None}],
          factories : [Key -> Object \cup {Own, None}],
          inits : 0..MaxInits]

-----------------------------------------------------------------------------
(* What is true of the libraries and registries between operations.         *)

\* A library l at path p, of which `open' handles are expected.  A loader counts
\* its handles, or more if an init of a library that stays mapped threw; only one
\* that counts them right can be initialised, and one that can be unmapped is.
LibSound(p, l, open) ==
    /\ l.handles = open
    /\ l.count >= open
    /\ p \notin Kept => l.count = open
    /\ l.builder # None => l.count = open /\ open > 0 /\ l.builder.path = p
    /\ p \notin Kept /\ open > 0 =>
          /\ p \in Builds => l.builder # None
          /\ p \in Makes => l.factory # None

\* A registered builder is the one its loader has, under its library's key.
KeySound(w, k) ==
    w.builders[k] # None =>
        /\ w.lib[w.builders[k].path].builder = w.builders[k]
        /\ KeyOf[w.builders[k].path] = k
        /\ w.builders[k].n <= w.inits

Sound(w, h) ==
    /\ w \in World
    /\ h \in [Path -> Nat]
    /\ \A p \in Path : LibSound(p, w.lib[p], h[p])
    /\ \A k \in Key : KeySound(w, k)

\* One library changes, and keys other than its own do not.
LEMMA SoundAt ==
    ASSUME NEW w, NEW h, Sound(w, h), NEW p \in Path, NEW x \in World, NEW open \in Nat,
           \A q \in Path \ {p} : x.lib[q] = w.lib[q],
           LibSound(p, x.lib[p], open),
           \A k \in Key : \/ x.builders[k] = None
                          \/ k # KeyOf[p] /\ x.builders[k] = w.builders[k]
                          \/ k = KeyOf[p] /\ KeySound(x, k),
           x.inits >= w.inits
    PROVE  Sound(x, [h EXCEPT ![p] = open])
<1>1. [h EXCEPT ![p] = open] \in [Path -> Nat]
  BY DEF Sound
<1>2. \A q \in Path : LibSound(q, x.lib[q], [h EXCEPT ![p] = open][q])
  BY DEF Sound
<1>3. ASSUME NEW k \in Key, k # KeyOf[p], x.builders[k] = w.builders[k]
      PROVE  KeySound(x, k)
  <2> SUFFICES ASSUME x.builders[k] # None PROVE KeySound(x, k)
    BY DEF KeySound
  <2>1. KeySound(w, k) /\ w.builders[k] \in Object
    BY <1>3 DEF Sound, World
  <2>2. w.builders[k].path \in Path \ {p} /\ w.builders[k].n \in Nat
    BY <1>3, <2>1, BoundsAreNat DEF KeySound, Object
  <2>3. w.inits \in Nat /\ x.inits \in Nat
    BY BoundsAreNat DEF Sound, World
  <2> QED
    BY <1>3, <2>1, <2>2, <2>3 DEF KeySound
<1>4. \A k \in Key : KeySound(x, k)
  BY <1>3 DEF KeySound
<1> QED
  BY <1>1, <1>2, <1>4 DEF Sound

-----------------------------------------------------------------------------
(* The operations on a library.                                             *)

\* An operation on a library of p touches no other key's factory.
Others(w, x, p) == \A k \in Key : k # KeyOf[p] => x.factories[k] = w.factories[k]

\* How an operation leaves one library and the registry's key of it.
Leaves(w, x, p, l) ==
    /\ x \in World
    /\ \A q \in Path \ {p} : x.lib[q] = w.lib[q]
    /\ x.lib[p] = l
    /\ \A k \in Key : k # KeyOf[p] => x.builders[k] = w.builders[k]
    /\ Others(w, x, p)

LEMMA SetLibLeaves ==
    ASSUME NEW w \in World, NEW p \in Path, NEW l \in Library
    PROVE  /\ Leaves(w, SetLib(w, p, l), p, l)
           /\ SetLib(w, p, l).builders = w.builders
           /\ SetLib(w, p, l).factories = w.factories
           /\ SetLib(w, p, l).inits = w.inits
BY DEF SetLib, Leaves, Others, World

LEMMA MadeIsObject ==
    ASSUME NEW w \in World, NEW p \in Path, w.inits < MaxInits, NEW registrants
    PROVE  /\ Made(w, p, registrants) \in Object \cup {None}
           /\ p \in registrants => Made(w, p, registrants) # None
           /\ Made(w, p, registrants) # None =>
                 /\ Made(w, p, registrants).path = p
                 /\ Made(w, p, registrants).n = w.inits + 1
<1>1. w.inits + 1 \in 1..MaxInits
  BY BoundsAreNat DEF World
<1>2. [path |-> p, n |-> w.inits + 1] \in Object
  BY <1>1 DEF Object
<1> QED
  BY <1>2, NoneIsNoObject DEF Made

LEMMA DoInitLeaves ==
    ASSUME NEW w \in World, NEW p \in Path, w.inits < MaxInits, NEW b, NEW f,
           b = Made(w, p, Builds), f = Made(w, p, Makes)
    PROVE  /\ Leaves(w, DoInit(w, p), p, [w.lib[p] EXCEPT !.builder = b, !.factory = f])
           /\ DoInit(w, p).builders[KeyOf[p]] =
                 IF b = None THEN w.builders[KeyOf[p]] ELSE b
           /\ DoInit(w, p).inits = w.inits + 1
<1>1. w.inits \in Nat /\ w.inits + 1 \in 0..MaxInits
  BY BoundsAreNat DEF World
<1>2. b \in Object \cup {None} /\ f \in Object \cup {None}
  BY MadeIsObject
<1>3. [w.lib[p] EXCEPT !.builder = b, !.factory = f] \in Library
  <2>1. w.lib[p] \in Library
    BY DEF World
  <2>2. \A l \in Library : [l EXCEPT !.builder = b, !.factory = f] \in Library
    BY <1>2 DEF Library
  <2> QED
    BY <2>1, <2>2
<1>4. KeyOf[p] \in Key
  BY KeyOfLibrary
<1>5. /\ w.lib \in [Path -> Library] /\ w.builders \in [Key -> Object \cup {None}]
      /\ w.factories \in [Key -> Object \cup {Own, None}]
  BY DEF World
<1> DEFINE newBuilders == Registe(w.builders, KeyOf[p], b)
           newFactories == Registe(w.factories, KeyOf[p], f)
<1>6. DoInit(w, p) = [
        lib |-> [w.lib EXCEPT ![p] = [@ EXCEPT !.builder = b, !.factory = f]],
        builders |-> newBuilders, factories |-> newFactories, inits |-> w.inits + 1]
  BY DEF DoInit
<1>7. /\ newBuilders \in [Key -> Object \cup {None}]
      /\ \A k \in Key : k # KeyOf[p] => newBuilders[k] = w.builders[k]
      /\ newBuilders[KeyOf[p]] = IF b = None THEN w.builders[KeyOf[p]] ELSE b
  BY <1>2, <1>4, <1>5 DEF Registe
<1>8. /\ newFactories \in [Key -> Object \cup {Own, None}]
      /\ \A k \in Key : k # KeyOf[p] => newFactories[k] = w.factories[k]
  BY <1>2, <1>4, <1>5 DEF Registe
<1> HIDE DEF newBuilders, newFactories
<1>9. [w.lib EXCEPT ![p] = [@ EXCEPT !.builder = b, !.factory = f]] \in [Path -> Library]
  BY <1>3, <1>5
<1>10. DoInit(w, p) \in World
  BY <1>1, <1>6, <1>7, <1>8, <1>9 DEF World
<1>11. /\ DoInit(w, p).lib = [w.lib EXCEPT ![p] = [@ EXCEPT !.builder = b, !.factory = f]]
       /\ DoInit(w, p).builders = newBuilders
       /\ DoInit(w, p).factories = newFactories
       /\ DoInit(w, p).inits = w.inits + 1
  BY <1>6
<1>12. Leaves(w, DoInit(w, p), p, [w.lib[p] EXCEPT !.builder = b, !.factory = f])
  BY <1>5, <1>7, <1>8, <1>10, <1>11 DEF Leaves, Others
<1> QED
  BY <1>7, <1>11, <1>12

LEMMA DoInitThrowsLeaves ==
    ASSUME NEW w \in World, NEW p \in Path, w.inits < MaxInits,
           NEW x \in DoInitThrows(w, p)
    PROVE  \E l \in Library :
               /\ Leaves(w, x, p, l)
               /\ l.handles = w.lib[p].handles /\ l.count = w.lib[p].count
               /\ l.builder = w.lib[p].builder
               /\ x.builders = w.builders
               /\ x.inits = w.inits + 1
<1> DEFINE o == Made(w, p, Makes)
           l == [w.lib[p] EXCEPT !.factory = o]
           made == Registe(w.factories, KeyOf[p], o)
<1>1. /\ w.inits \in Nat /\ w.inits + 1 \in 0..MaxInits /\ o \in Object \cup {None}
      /\ KeyOf[p] \in Key
  BY MadeIsObject, KeyOfLibrary, BoundsAreNat DEF World
<1>2. /\ w.lib \in [Path -> Library] /\ w.builders \in [Key -> Object \cup {None}]
      /\ w.factories \in [Key -> Object \cup {Own, None}]
      /\ w = [lib |-> w.lib, builders |-> w.builders, factories |-> w.factories,
              inits |-> w.inits]
  BY DEF World
<1>3. \/ x = [w EXCEPT !.inits = w.inits + 1]
      \/ x = [lib |-> [w.lib EXCEPT ![p] = l], builders |-> w.builders,
              factories |-> made, inits |-> w.inits + 1]
  <2> DEFINE after == [w EXCEPT !.lib = [@ EXCEPT ![p] = [w.lib[p] EXCEPT !.factory = o]],
                                !.factories = Registe(@, KeyOf[p], o)]
  <2>1. x = [w EXCEPT !.inits = @ + 1] \/ x = [after EXCEPT !.inits = @ + 1]
    BY DEF DoInitThrows
  <2>2. after = [lib |-> [w.lib EXCEPT ![p] = l], builders |-> w.builders,
                 factories |-> made, inits |-> w.inits]
    <3>1. after = [w EXCEPT !.lib = [w.lib EXCEPT ![p] = l],
                            !.factories = made]
      BY <1>2
    <3> HIDE DEF after, o, l, made
    <3> QED
      BY <1>2, <3>1
  <2> HIDE DEF after, o, l, made
  <2>3. [after EXCEPT !.inits = @ + 1] =
          [lib |-> [w.lib EXCEPT ![p] = l], builders |-> w.builders,
           factories |-> made, inits |-> w.inits + 1]
    BY <2>2
  <2> QED
    BY <1>2, <2>1, <2>3
<1>4. /\ made \in [Key -> Object \cup {Own, None}]
      /\ \A k \in Key : k # KeyOf[p] => made[k] = w.factories[k]
  BY <1>1, <1>2 DEF Registe
<1> HIDE DEF o, made
<1>5. CASE x = [w EXCEPT !.inits = w.inits + 1]
  <2>1. /\ x \in World /\ x.lib = w.lib /\ x.builders = w.builders
        /\ x.factories = w.factories /\ x.inits = w.inits + 1
    BY <1>1, <1>2, <1>5 DEF World
  <2>2. w.lib[p] \in Library
    BY <1>2
  <2> QED
    BY <2>1, <2>2 DEF Leaves, Others
<1>6. CASE x = [lib |-> [w.lib EXCEPT ![p] = l], builders |-> w.builders,
               factories |-> made, inits |-> w.inits + 1]
  <2>1. /\ l \in Library
        /\ l.handles = w.lib[p].handles /\ l.count = w.lib[p].count
        /\ l.builder = w.lib[p].builder
    BY <1>1, <1>2 DEF Library
  <2> HIDE DEF l
  <2>2. /\ x.lib = [w.lib EXCEPT ![p] = l]
        /\ x.builders = w.builders
        /\ x.factories = made
        /\ x.inits = w.inits + 1
        /\ x = [lib |-> x.lib, builders |-> x.builders, factories |-> x.factories,
                inits |-> x.inits]
    BY <1>2, <1>6
  <2>3. x.lib \in [Path -> Library] /\ x.factories \in [Key -> Object \cup {Own, None}]
    BY <1>2, <1>4, <2>1, <2>2
  <2>4. x \in World
    BY <1>1, <1>2, <2>2, <2>3 DEF World
  <2> QED
    BY <1>2, <1>4, <2>1, <2>2, <2>4 DEF Leaves, Others
<1> QED
  BY <1>3, <1>5, <1>6

LEMMA DoDeinitLeaves ==
    ASSUME NEW w \in World, NEW p \in Path
    PROVE  /\ Leaves(w, DoDeinit(w, p), p, [w.lib[p] EXCEPT !.builder = None, !.factory = None])
           /\ DoDeinit(w, p).builders[KeyOf[p]] =
                 IF w.builders[KeyOf[p]] = w.lib[p].builder THEN None
                 ELSE w.builders[KeyOf[p]]
           /\ DoDeinit(w, p).inits = w.inits
<1> DEFINE x == DoDeinit(w, p)
           l == [w.lib[p] EXCEPT !.builder = None, !.factory = None]
           left == UnregisteFactory(w.factories, KeyOf[p], w.lib[p].factory)
<1>1. /\ w.lib \in [Path -> Library] /\ w.builders \in [Key -> Object \cup {None}]
      /\ w.factories \in [Key -> Object \cup {Own, None}]
      /\ w = [lib |-> w.lib, builders |-> w.builders, factories |-> w.factories,
              inits |-> w.inits]
      /\ KeyOf[p] \in Key
  BY KeyOfLibrary DEF World
<1>2. l \in Library
  BY <1>1 DEF Library
<1>3. x = [w EXCEPT !.lib = [w.lib EXCEPT ![p] = l],
                    !.builders = UnregisteBuilder(w.builders, KeyOf[p], w.lib[p].builder),
                    !.factories = left]
  BY DEF DoDeinit
<1>4. /\ left \in [Key -> Object \cup {Own, None}]
      /\ \A k \in Key : k # KeyOf[p] => left[k] = w.factories[k]
  BY <1>1 DEF UnregisteFactory
<1> HIDE DEF x, l, left
<1>5. /\ x.lib = [w.lib EXCEPT ![p] = l]
      /\ x.builders = UnregisteBuilder(w.builders, KeyOf[p], w.lib[p].builder)
      /\ x.factories = left
      /\ x.inits = w.inits
      /\ x = [lib |-> x.lib, builders |-> x.builders, factories |-> x.factories,
              inits |-> x.inits]
  BY <1>1, <1>3
<1>6. /\ x.builders \in [Key -> Object \cup {None}]
      /\ \A k \in Key \ {KeyOf[p]} : x.builders[k] = w.builders[k]
      /\ x.builders[KeyOf[p]] = IF w.builders[KeyOf[p]] = w.lib[p].builder THEN None
                                ELSE w.builders[KeyOf[p]]
  BY <1>1, <1>5 DEF UnregisteBuilder
<1>7. x.lib \in [Path -> Library] /\ x.factories \in [Key -> Object \cup {Own, None}]
  BY <1>1, <1>2, <1>5, <1>4
<1>8. x \in World
  BY <1>5, <1>6, <1>7 DEF World
<1>9. Leaves(w, x, p, l)
  BY <1>1, <1>5, <1>6, <1>8, <1>4 DEF Leaves, Others
<1> QED
  BY <1>5, <1>6, <1>9 DEF x, l

LEMMA DlcloseLeaves ==
    ASSUME NEW w \in World, NEW p \in Path, w.lib[p].handles > 0
    PROVE  \E l \in Library :
               /\ Leaves(w, Dlclose(w, p), p, l)
               /\ l.handles = w.lib[p].handles - 1
               /\ IF l.handles = 0 /\ p \notin Kept
                  THEN l = Fresh
                  ELSE /\ l.count = w.lib[p].count
                       /\ l.builder = w.lib[p].builder /\ l.factory = w.lib[p].factory
               /\ Dlclose(w, p).builders = w.builders
               /\ Dlclose(w, p).inits = w.inits
<1> DEFINE closed == [w.lib[p] EXCEPT !.handles = @ - 1]
           l == IF closed.handles = 0 /\ p \notin Kept THEN Fresh ELSE closed
<1>1. w.lib[p] \in Library
  BY DEF World
<1>2. /\ closed \in Library /\ closed.handles = w.lib[p].handles - 1
      /\ closed.count = w.lib[p].count /\ closed.builder = w.lib[p].builder
      /\ closed.factory = w.lib[p].factory
  BY <1>1 DEF Library
<1>3. Fresh \in Library /\ Fresh.handles = 0
  BY DEF Fresh, Library
<1>4. Dlclose(w, p) = SetLib(w, p, l)
  BY DEF Dlclose
<1> HIDE DEF closed
<1>5. l \in Library /\ l.handles = w.lib[p].handles - 1
  BY <1>2, <1>3
<1>6. /\ Leaves(w, Dlclose(w, p), p, l)
      /\ Dlclose(w, p).builders = w.builders
      /\ Dlclose(w, p).inits = w.inits
  BY <1>4, <1>5, SetLibLeaves
<1>7. IF l.handles = 0 /\ p \notin Kept
      THEN l = Fresh
      ELSE /\ l.count = w.lib[p].count
           /\ l.builder = w.lib[p].builder /\ l.factory = w.lib[p].factory
  BY <1>2, <1>3
<1> HIDE DEF l
<1> QED
  BY <1>5, <1>6, <1>7

-----------------------------------------------------------------------------
(* Plugin's constructor and destructor.                                     *)

\* What a constructor does to a builder, the registered or the loader's, is to
\* put a newer one there.
OnlyNewer(w, x) ==
    /\ \A k \in Key : x.builders[k] # w.builders[k] =>
          x.builders[k] # None /\ x.builders[k].n > w.inits
    /\ \A q \in Path : x.lib[q].builder # w.lib[q].builder =>
          x.lib[q].builder = None \/ x.lib[q].builder.n > w.inits

\* However the constructor ends, there is a handle more if it made a plugin, and
\* otherwise as many as before.
LEMMA ConstructSound ==
    ASSUME NEW w, NEW h, Sound(w, h), w.inits < MaxInits, NEW p \in Path,
           NEW r \in Construct(w, p)
    PROVE  /\ r.ok \in BOOLEAN
           /\ Sound(r.w, IF r.ok THEN [h EXCEPT ![p] = h[p] + 1] ELSE h)
           /\ OnlyNewer(w, r.w)
           /\ Others(w, r.w, p)
<1> DEFINE old == w.lib[p]
           opened == [old EXCEPT !.handles = @ + 1]
           counted == [opened EXCEPT !.count = @ + 1]
           x == Dlopen(w, p)
           y == SetLib(x, p, [x.lib[p] EXCEPT !.count = @ + 1])
<1>1. /\ w \in World /\ h[p] \in Nat /\ old \in Library /\ LibSound(p, old, h[p])
      /\ h = [h EXCEPT ![p] = h[p]]
      /\ w.inits \in Nat /\ KeyOf[p] \in Key
      /\ \A k \in Key : KeySound(w, k)
  BY KeyOfLibrary, BoundsAreNat DEF Sound, World
<1>2. /\ opened \in Library /\ counted \in Library
      /\ counted.handles = h[p] + 1 /\ counted.count = old.count + 1
      /\ counted.builder = old.builder /\ counted.factory = old.factory
  <2> HIDE DEF old
  <2>1. /\ opened \in Library /\ opened.handles = h[p] + 1
        /\ opened.count = old.count
        /\ opened.builder = old.builder /\ opened.factory = old.factory
    BY <1>1 DEF Library, LibSound
  <2> HIDE DEF opened
  <2> QED
    BY <2>1 DEF Library
<1>3. /\ Leaves(w, x, p, opened) /\ x.builders = w.builders /\ x.inits = w.inits
      /\ x.lib[p] = opened /\ x \in World
  <2>1. x = SetLib(w, p, opened)
    BY DEF Dlopen
  <2>2. w \in World /\ opened \in Library
    BY <1>1, <1>2
  <2> HIDE DEF x, opened, old
  <2>3. /\ Leaves(w, SetLib(w, p, opened), p, opened)
        /\ SetLib(w, p, opened).builders = w.builders
        /\ SetLib(w, p, opened).inits = w.inits
    BY <2>2, SetLibLeaves
  <2>4. Leaves(w, x, p, opened) /\ x.builders = w.builders /\ x.inits = w.inits
    BY <2>1, <2>3
  <2> QED
    BY <2>4 DEF Leaves
<1>4. /\ Leaves(w, y, p, counted) /\ y.builders = w.builders /\ y.inits = w.inits
      /\ y.lib[p] = counted /\ y \in World
  <2>1. /\ Leaves(x, SetLib(x, p, counted), p, counted)
        /\ SetLib(x, p, counted).builders = x.builders
        /\ SetLib(x, p, counted).inits = x.inits
    BY <1>2, <1>3, SetLibLeaves
  <2>2. y = SetLib(x, p, counted)
    BY <1>3
  <2> HIDE DEF x, y, opened, counted
  <2> QED
    BY <1>3, <2>1, <2>2 DEF Leaves, Others
<1>5. x.lib[p].count = old.count
  BY <1>1, <1>3 DEF Library
<1> HIDE DEF x, y, opened, counted
<1>6. \/ r = [ok |-> FALSE, w |-> w]
      \/ old.count = 0 /\ r = [ok |-> TRUE, w |-> DoInit(y, p)]
      \/ /\ old.count = 0
         /\ \E z \in DoInitThrows(y, p) : r = [ok |-> FALSE, w |-> Dlclose(z, p)]
      \/ old.count # 0 /\ r = [ok |-> TRUE, w |-> y]
  <2>1. \/ r = [ok |-> FALSE, w |-> w]
        \/ \E s \in LoaderInit(x, p) :
              r = [ok |-> s.ok, w |-> IF s.ok THEN s.w ELSE Dlclose(s.w, p)]
    BY DEF Construct, x
  <2>2. \A s \in LoaderInit(x, p) :
          \/ old.count = 0 /\ s = [ok |-> TRUE, w |-> DoInit(y, p)]
          \/ /\ old.count = 0
             /\ \E z \in DoInitThrows(y, p) : s = [ok |-> FALSE, w |-> z]
          \/ old.count # 0 /\ s = [ok |-> TRUE, w |-> y]
    BY <1>5 DEF LoaderInit, y
  <2> QED
    BY <2>1, <2>2
<1>7. CASE r = [ok |-> FALSE, w |-> w]
  BY <1>7 DEF OnlyNewer, Others
<1>8. CASE old.count = 0 /\ r = [ok |-> TRUE, w |-> DoInit(y, p)]
  <2> DEFINE z == DoInit(y, p)
             b == Made(y, p, Builds)
             f == Made(y, p, Makes)
             l == [counted EXCEPT !.builder = b, !.factory = f]
  <2>1. /\ Leaves(y, z, p, l) /\ z.inits = w.inits + 1
        /\ z.builders[KeyOf[p]] = IF b = None THEN w.builders[KeyOf[p]] ELSE b
    <3>1. y \in World /\ y.inits < MaxInits /\ y.inits = w.inits /\ y.lib[p] = counted
      BY <1>4
    <3> HIDE DEF b, f
    <3>2. /\ Leaves(y, DoInit(y, p), p, [y.lib[p] EXCEPT !.builder = b, !.factory = f])
          /\ DoInit(y, p).builders[KeyOf[p]] =
                IF b = None THEN y.builders[KeyOf[p]] ELSE b
          /\ DoInit(y, p).inits = y.inits + 1
      BY <3>1, DoInitLeaves, ZenonT(40) DEF b, f
    <3> QED
      BY <1>4, <3>1, <3>2
  <2>2. /\ b \in Object \cup {None} /\ f \in Object \cup {None}
        /\ p \in Builds => b # None
        /\ p \in Makes => f # None
        /\ b # None => b.path = p /\ b.n = w.inits + 1
    <3>1. y \in World /\ y.inits < MaxInits /\ y.inits = w.inits
      BY <1>4
    <3> QED
      BY <3>1, MadeIsObject
  <2> HIDE DEF b, f
  <2>3. h[p] = 0 /\ old.builder = None
    BY <1>1, <1>8 DEF LibSound, Library
  <2>4. /\ l.handles = 1 /\ l.count = 1 /\ l.builder = b /\ l.factory = f
    BY <1>2, <1>8, <2>3 DEF Library
  <2> HIDE DEF z, l
  <2>5. LibSound(p, l, h[p] + 1)
    BY <2>2, <2>3, <2>4 DEF LibSound
  <2>6. /\ z \in World /\ \A q \in Path \ {p} : z.lib[q] = w.lib[q]
        /\ z.lib[p] = l
        /\ \A k \in Key : k # KeyOf[p] => z.builders[k] = w.builders[k]
        /\ z.inits >= w.inits
    BY <1>1, <1>4, <2>1 DEF Leaves
  <2>7. KeySound(z, KeyOf[p])
    <3> DEFINE c == w.builders[KeyOf[p]]
    <3>1. CASE b = None
      <4> SUFFICES ASSUME c # None PROVE KeySound(z, KeyOf[p])
        BY <2>1, <3>1 DEF KeySound
      <4>1. /\ c \in Object /\ w.lib[c.path].builder = c /\ KeyOf[c.path] = KeyOf[p]
            /\ c.n <= w.inits
        BY <1>1 DEF KeySound, World
      <4>2. c.path \in Path \ {p} /\ c.n \in Nat
        BY <2>3, <4>1 DEF Object
      <4>3. z.inits \in Nat
        BY <1>1, <2>1
      <4> QED
        BY <1>1, <2>1, <2>6, <3>1, <4>1, <4>2, <4>3 DEF KeySound
    <3>2. CASE b # None
      BY <1>1, <2>1, <2>2, <2>4, <2>6, <3>2 DEF KeySound
    <3> QED
      BY <3>1, <3>2
  <2>8. h[p] + 1 \in Nat
    BY <1>1
  <2>9. Sound(z, [h EXCEPT ![p] = h[p] + 1])
    BY <2>5, <2>6, <2>7, <2>8, SoundAt
  <2>10. OnlyNewer(w, z)
    BY <1>1, <2>1, <2>2, <2>4, <2>6 DEF OnlyNewer
  <2>11. r.ok = TRUE /\ r.w = z
    BY <1>8 DEF z
  <2>12. Others(w, z, p)
    BY <1>4, <2>1 DEF Leaves, Others
  <2> QED
    BY <2>9, <2>10, <2>11, <2>12
<1>9. ASSUME old.count = 0, NEW z \in DoInitThrows(y, p),
             r = [ok |-> FALSE, w |-> Dlclose(z, p)]
      PROVE  Sound(r.w, h) /\ OnlyNewer(w, r.w) /\ Others(w, r.w, p) /\ r.ok = FALSE
  <2> DEFINE v == Dlclose(z, p)
  <2>1. PICK l \in Library :
          /\ Leaves(y, z, p, l)
          /\ l.handles = counted.handles /\ l.count = counted.count
          /\ l.builder = counted.builder
          /\ z.builders = y.builders /\ z.inits = y.inits + 1
    BY <1>4, DoInitThrowsLeaves
  <2>2. h[p] = 0 /\ old.builder = None
    BY <1>1, <1>9 DEF LibSound, Library
  <2>3. /\ z \in World /\ z.lib[p] = l /\ z.lib[p].handles = 1
        /\ l.count = 1 /\ l.builder = None
    BY <1>2, <1>9, <2>1, <2>2 DEF Leaves
  <2>4. PICK m \in Library :
          /\ Leaves(z, v, p, m)
          /\ m.handles = z.lib[p].handles - 1
          /\ IF m.handles = 0 /\ p \notin Kept
             THEN m = Fresh
             ELSE /\ m.count = z.lib[p].count
                  /\ m.builder = z.lib[p].builder /\ m.factory = z.lib[p].factory
          /\ v.builders = z.builders
          /\ v.inits = z.inits
    BY <2>3, DlcloseLeaves
  <2>5. LibSound(p, m, 0)
    BY <2>3, <2>4 DEF LibSound, Fresh
  <2> HIDE DEF v
  <2>6. /\ v \in World /\ \A q \in Path \ {p} : v.lib[q] = w.lib[q]
        /\ v.lib[p] = m
        /\ v.builders = w.builders
        /\ v.inits >= w.inits
    BY <1>1, <1>4, <2>1, <2>4 DEF Leaves
  <2>7. w.builders[KeyOf[p]] = None \/ KeySound(v, KeyOf[p])
    <3> SUFFICES ASSUME w.builders[KeyOf[p]] # None PROVE KeySound(v, KeyOf[p])
      OBVIOUS
    <3> DEFINE b == w.builders[KeyOf[p]]
    <3>1. /\ b \in Object /\ w.lib[b.path].builder = b /\ KeyOf[b.path] = KeyOf[p]
          /\ b.n <= w.inits
      BY <1>1 DEF KeySound, World
    <3>2. b.path \in Path \ {p} /\ b.n \in Nat
      BY <2>2, <3>1 DEF Object
    <3>3. v.inits \in Nat
      BY <2>6, BoundsAreNat DEF World
    <3> QED
      BY <1>1, <2>6, <3>1, <3>2, <3>3 DEF KeySound
  <2>8. \A k \in Key : \/ v.builders[k] = None
                       \/ k # KeyOf[p] /\ v.builders[k] = w.builders[k]
                       \/ k = KeyOf[p] /\ KeySound(v, k)
    <3> SUFFICES ASSUME NEW k \in Key
                 PROVE  \/ v.builders[k] = None
                        \/ k # KeyOf[p] /\ v.builders[k] = w.builders[k]
                        \/ k = KeyOf[p] /\ KeySound(v, k)
      OBVIOUS
    <3>1. CASE k = KeyOf[p]
      BY <2>6, <2>7, <3>1, Zenon
    <3>2. CASE k # KeyOf[p]
      BY <2>6, <3>2
    <3> QED
      BY <3>1, <3>2
  <2>9. Sound(v, [h EXCEPT ![p] = 0])
    BY <2>5, <2>6, <2>8, SoundAt
  <2>10. OnlyNewer(w, v)
    BY <2>3, <2>4, <2>6 DEF OnlyNewer, Fresh
  <2>11. Others(w, v, p)
    BY <1>4, <2>1, <2>4 DEF Leaves, Others
  <2> QED
    BY <1>1, <1>9, <2>2, <2>9, <2>10, <2>11 DEF v
<1>10. CASE old.count # 0 /\ r = [ok |-> TRUE, w |-> y]
  <2>1. LibSound(p, counted, h[p] + 1)
    BY <1>1, <1>2, <1>10 DEF LibSound, Library
  <2>2. h[p] + 1 \in Nat /\ y.inits >= w.inits
    BY <1>1, <1>4
  <2>3. KeySound(y, KeyOf[p])
    BY <1>1, <1>2, <1>4 DEF KeySound, Leaves, World, Object
  <2>4. Sound(y, [h EXCEPT ![p] = h[p] + 1])
    BY <1>4, <2>1, <2>2, <2>3, SoundAt DEF Leaves
  <2>5. OnlyNewer(w, y)
    BY <1>2, <1>4 DEF OnlyNewer, Leaves
  <2>6. Others(w, y, p)
    BY <1>4 DEF Leaves
  <2> QED
    BY <1>10, <2>4, <2>5, <2>6
<1> QED
  BY <1>6, <1>7, <1>8, <1>9, <1>10

\* What a destructor does to a registered builder is to take it from the
\* registry and from its loader.
OnlyOwn(w, x) ==
    /\ x.inits = w.inits
    /\ \A k \in Key : x.builders[k] # w.builders[k] =>
          x.builders[k] = None /\ x.lib[w.builders[k].path].builder # w.builders[k]

\* The destructor of a plugin of p takes one handle away.
LEMMA DestructSound ==
    ASSUME NEW w, NEW h, Sound(w, h), NEW p \in Path, h[p] > 0
    PROVE  /\ Sound(Destruct(w, p), [h EXCEPT ![p] = h[p] - 1])
           /\ OnlyOwn(w, Destruct(w, p))
           /\ Others(w, Destruct(w, p), p)
<1> DEFINE old == w.lib[p]
           counted == [old EXCEPT !.count = @ - 1]
           y == SetLib(w, p, counted)
           z == LoaderDeinit(w, p)
           v == Destruct(w, p)
<1>1. /\ w \in World /\ h[p] \in Nat /\ old \in Library /\ LibSound(p, old, h[p])
      /\ w.inits \in Nat /\ KeyOf[p] \in Key
      /\ \A k \in Key : KeySound(w, k)
      /\ w.builders \in [Key -> Object \cup {None}]
  BY KeyOfLibrary, BoundsAreNat DEF Sound, World
<1>2. old.count \in Nat /\ old.count > 0 /\ old.handles = h[p]
  BY <1>1 DEF LibSound, Library
<1>3. /\ counted \in Library
      /\ counted.handles = h[p] /\ counted.count = old.count - 1
      /\ counted.builder = old.builder /\ counted.factory = old.factory
  BY <1>1, <1>2 DEF Library
<1> HIDE DEF old, counted
<1>4. /\ Leaves(w, y, p, counted) /\ y.builders = w.builders /\ y.inits = w.inits
  BY <1>1, <1>3, SetLibLeaves
<1>5. y \in World /\ y.lib[p] = counted
  BY <1>4 DEF Leaves
<1>6. z = IF old.count = 1 THEN DoDeinit(y, p) ELSE y
  <2>1. z = IF y.lib[p].count = 0 THEN DoDeinit(y, p) ELSE y
    BY DEF LoaderDeinit, y, counted, old
  <2> HIDE DEF z, y
  <2> QED
    BY <1>2, <1>3, <1>5, <2>1
<1>7. v = Dlclose(z, p)
  BY DEF Destruct
<1> HIDE DEF y, z, v
\* It is enough to know what became of the library and of its own key.
<1>8. ASSUME NEW m \in Library, LibSound(p, m, h[p] - 1),
             v \in World, v.lib[p] = m, v.inits = w.inits,
             \A q \in Path \ {p} : v.lib[q] = w.lib[q],
             \A k \in Key : k # KeyOf[p] => v.builders[k] = w.builders[k],
             \/ v.builders[KeyOf[p]] = w.builders[KeyOf[p]]
             \/ v.builders[KeyOf[p]] = None,
             v.builders[KeyOf[p]] # None =>
                 m.builder = old.builder \/ v.builders[KeyOf[p]] # old.builder,
             v.builders[KeyOf[p]] # w.builders[KeyOf[p]] =>
                 m.builder = None /\ w.builders[KeyOf[p]] = old.builder
      PROVE  Sound(v, [h EXCEPT ![p] = h[p] - 1]) /\ OnlyOwn(w, v)
  <2> DEFINE b == w.builders[KeyOf[p]]
  <2>1. ASSUME b # None
        PROVE  /\ b \in Object /\ b.path \in Path /\ w.lib[b.path].builder = b
               /\ KeyOf[b.path] = KeyOf[p] /\ b.n <= w.inits
    BY <1>1, <2>1 DEF KeySound, Object
  <2> HIDE DEF b
  <2>2. v.builders[KeyOf[p]] = None \/ KeySound(v, KeyOf[p])
    <3> SUFFICES ASSUME v.builders[KeyOf[p]] # None
                 PROVE  KeySound(v, KeyOf[p])
      OBVIOUS
    <3>1. v.builders[KeyOf[p]] = b /\ b # None
      BY <1>8 DEF b
    <3>2. v.lib[b.path].builder = b
      <4>1. CASE b.path = p
        BY <1>8, <2>1, <3>1, <4>1 DEF old
      <4>2. CASE b.path # p
        BY <1>8, <2>1, <3>1, <4>2
      <4> QED
        BY <4>1, <4>2
    <3> QED
      BY <1>8, <2>1, <3>1, <3>2 DEF KeySound
  <2>3. \A k \in Key : \/ v.builders[k] = None
                       \/ k # KeyOf[p] /\ v.builders[k] = w.builders[k]
                       \/ k = KeyOf[p] /\ KeySound(v, k)
    <3> SUFFICES ASSUME NEW k \in Key
                 PROVE  \/ v.builders[k] = None
                        \/ k # KeyOf[p] /\ v.builders[k] = w.builders[k]
                        \/ k = KeyOf[p] /\ KeySound(v, k)
      OBVIOUS
    <3>1. CASE k = KeyOf[p]
      BY <2>2, <3>1, Zenon
    <3>2. CASE k # KeyOf[p]
      BY <1>8, <3>2
    <3> QED
      BY <3>1, <3>2
  <2>4. h[p] - 1 \in Nat /\ v.inits >= w.inits
    BY <1>1, <1>8
  <2>5. Sound(v, [h EXCEPT ![p] = h[p] - 1])
    BY <1>8, <2>3, <2>4, SoundAt
  <2>6. ASSUME v.builders[KeyOf[p]] # b
        PROVE  v.builders[KeyOf[p]] = None /\ v.lib[b.path].builder # b
    <3>1. v.builders[KeyOf[p]] = None /\ b # None /\ m.builder = None /\ b = old.builder
      BY <1>8, <2>6 DEF b
    <3>2. b.path = p
      BY <1>1, <3>1 DEF LibSound
    <3> QED
      BY <1>8, <3>1, <3>2
  <2>7. OnlyOwn(w, v)
    <3> SUFFICES ASSUME NEW k \in Key, v.builders[k] # w.builders[k]
                 PROVE  /\ v.builders[k] = None
                        /\ v.lib[w.builders[k].path].builder # w.builders[k]
      BY <1>8 DEF OnlyOwn
    <3>1. k = KeyOf[p] /\ w.builders[k] = b
      BY <1>8 DEF b
    <3> QED
      BY <2>6, <3>1
  <2> QED
    BY <2>5, <2>7
<1>9. CASE old.count = 1
  <2>1. h[p] = 1
    BY <1>1, <1>9 DEF LibSound
  <2> DEFINE l == [counted EXCEPT !.builder = None, !.factory = None]
  <2>2. /\ Leaves(y, z, p, l)
        /\ z.builders[KeyOf[p]] =
              IF w.builders[KeyOf[p]] = old.builder THEN None ELSE w.builders[KeyOf[p]]
        /\ z.inits = w.inits
    <3>1. /\ Leaves(y, DoDeinit(y, p), p,
                    [y.lib[p] EXCEPT !.builder = None, !.factory = None])
          /\ DoDeinit(y, p).builders[KeyOf[p]] =
                IF y.builders[KeyOf[p]] = y.lib[p].builder THEN None
                ELSE y.builders[KeyOf[p]]
          /\ DoDeinit(y, p).inits = y.inits
      BY <1>5, DoDeinitLeaves
    <3> QED
      BY <1>3, <1>4, <1>5, <1>6, <1>9, <3>1
  <2>3. /\ l.handles = 1 /\ l.count = 0 /\ l.builder = None
    BY <1>3, <1>9, <2>1 DEF Library
  <2> HIDE DEF l
  <2>4. z \in World /\ z.lib[p] = l
    BY <2>2 DEF Leaves
  <2>5. PICK m \in Library :
          /\ Leaves(z, v, p, m)
          /\ m.handles = z.lib[p].handles - 1
          /\ IF m.handles = 0 /\ p \notin Kept
             THEN m = Fresh
             ELSE /\ m.count = z.lib[p].count
                  /\ m.builder = z.lib[p].builder /\ m.factory = z.lib[p].factory
          /\ v.builders = z.builders
          /\ v.inits = z.inits
    BY <1>7, <2>3, <2>4, DlcloseLeaves
  <2>6. m.builder = None /\ m.count = 0 /\ m.handles = 0
    BY <2>3, <2>4, <2>5 DEF Fresh
  <2>7. LibSound(p, m, h[p] - 1)
    BY <2>1, <2>6 DEF LibSound
  <2>8. /\ v \in World /\ v.lib[p] = m /\ v.inits = w.inits
        /\ \A q \in Path \ {p} : v.lib[q] = w.lib[q]
        /\ \A k \in Key : k # KeyOf[p] => v.builders[k] = w.builders[k]
        /\ v.builders[KeyOf[p]] =
              IF w.builders[KeyOf[p]] = old.builder THEN None ELSE w.builders[KeyOf[p]]
    BY <1>4, <2>2, <2>5 DEF Leaves
  <2>9. /\ \/ v.builders[KeyOf[p]] = w.builders[KeyOf[p]]
           \/ v.builders[KeyOf[p]] = None
        /\ v.builders[KeyOf[p]] # None =>
              m.builder = old.builder \/ v.builders[KeyOf[p]] # old.builder
        /\ v.builders[KeyOf[p]] # w.builders[KeyOf[p]] =>
              m.builder = None /\ w.builders[KeyOf[p]] = old.builder
    BY <2>6, <2>8
  <2>10. Others(w, v, p)
    BY <1>4, <2>2, <2>5 DEF Leaves, Others
  <2> QED
    BY <1>8, <2>7, <2>8, <2>9, <2>10 DEF v
<1>10. CASE old.count # 1
  <2>1. z = y
    BY <1>6, <1>10
  <2>2. PICK m \in Library :
          /\ Leaves(y, v, p, m)
          /\ m.handles = y.lib[p].handles - 1
          /\ IF m.handles = 0 /\ p \notin Kept
             THEN m = Fresh
             ELSE /\ m.count = y.lib[p].count
                  /\ m.builder = y.lib[p].builder /\ m.factory = y.lib[p].factory
          /\ v.builders = y.builders
          /\ v.inits = y.inits
    BY <1>3, <1>5, <1>7, <2>1, DlcloseLeaves
  <2>3. h[p] = 1 => p \in Kept
    BY <1>1, <1>10 DEF LibSound
  <2>4. /\ m.handles = h[p] - 1 /\ m.count = old.count - 1
        /\ m.builder = old.builder /\ m.factory = old.factory
    BY <1>1, <1>3, <1>5, <2>2, <2>3
  <2>5. LibSound(p, m, h[p] - 1)
    BY <1>1, <1>2, <1>10, <2>4 DEF LibSound
  <2>6. /\ v \in World /\ v.lib[p] = m /\ v.inits = w.inits
        /\ \A q \in Path \ {p} : v.lib[q] = w.lib[q]
        /\ v.builders = w.builders
    BY <1>4, <2>2 DEF Leaves
  <2>7. Others(w, v, p)
    BY <1>4, <2>2 DEF Leaves, Others
  <2> QED
    BY <1>8, <2>4, <2>5, <2>6, <2>7 DEF v
<1> QED
  BY <1>9, <1>10

-----------------------------------------------------------------------------
(* How many plugins of each library a list holds.                           *)

Of(s, p) == {i \in DOMAIN s : s[i].live /\ s[i].path = p}

Open(s) == [p \in Path |-> Cardinality(Of(s, p))]

\* A library's plugins without the one at i, if it is one of them.
Less(s, i) == IF s[i].live
              THEN [Open(s) EXCEPT ![s[i].path] = Open(s)[s[i].path] - 1]
              ELSE Open(s)

More(h, e) == IF e.live THEN [h EXCEPT ![e.path] = h[e.path] + 1] ELSE h

LEMMA EntryOf ==
    ASSUME NEW s \in Seq(Entry), NEW i \in DOMAIN s
    PROVE  s[i].name \in Name /\ s[i].path \in Path /\ s[i].live \in BOOLEAN
<1>1. s[i] \in Entry
  OBVIOUS
<1> QED
  BY <1>1 DEF Entry

LEMMA OfIsFinite ==
    ASSUME NEW s \in Seq(Entry), NEW p
    PROVE  /\ IsFiniteSet(Of(s, p)) /\ Cardinality(Of(s, p)) \in Nat
           /\ \A i \in Of(s, p) : i \in Nat /\ 1 <= i /\ i <= Len(s)
           /\ Of(s, p) # {} => Cardinality(Of(s, p)) > 0
<1>1. Of(s, p) \subseteq 1..Len(s) /\ Len(s) \in Nat
  BY DEF Of
<1>2. IsFiniteSet(1..Len(s))
  BY <1>1, FS_Interval
<1>3. IsFiniteSet(Of(s, p))
  BY <1>1, <1>2, FS_Subset
<1>4. Cardinality(Of(s, p)) \in Nat /\ (Cardinality(Of(s, p)) = 0 <=> Of(s, p) = {})
  BY <1>3, FS_CardinalityType, FS_EmptySet
<1> QED
  BY <1>1, <1>3, <1>4

LEMMA OpenIsNat ==
    ASSUME NEW s \in Seq(Entry)
    PROVE  Open(s) \in [Path -> Nat]
BY OfIsFinite DEF Open

\* The plugin at i taken off is one of its library's less.
LEMMA LessIsCount ==
    ASSUME NEW s \in Seq(Entry), NEW i \in DOMAIN s, NEW p \in Path
    PROVE  /\ Less(s, i)[p] = Cardinality(Of(s, p) \ {i})
           /\ IsFiniteSet(Of(s, p) \ {i})
           /\ Less(s, i) \in [Path -> Nat]
           /\ s[i].live => Open(s)[s[i].path] > 0
<1>1. ASSUME NEW q \in Path
      PROVE  Less(s, i)[q] = Cardinality(Of(s, q) \ {i})
  <2>1. /\ Open(s)[q] = Cardinality(Of(s, q))
        /\ i \in Of(s, q) <=> s[i].live /\ s[i].path = q
    BY DEF Open, Of
  <2>2. Cardinality(Of(s, q) \ {i}) =
            IF i \in Of(s, q) THEN Cardinality(Of(s, q)) - 1 ELSE Cardinality(Of(s, q))
    BY OfIsFinite, FS_RemoveElement
  <2>3. Less(s, i)[q] = IF s[i].live /\ s[i].path = q THEN Open(s)[q] - 1 ELSE Open(s)[q]
    BY OpenIsNat DEF Less
  <2> QED
    BY <2>1, <2>2, <2>3
<1>2. \A q \in Path : IsFiniteSet(Of(s, q) \ {i}) /\ Cardinality(Of(s, q) \ {i}) \in Nat
  <2> SUFFICES ASSUME NEW q \in Path
               PROVE  IsFiniteSet(Of(s, q) \ {i}) /\ Cardinality(Of(s, q) \ {i}) \in Nat
    OBVIOUS
  <2>1. IsFiniteSet(Of(s, q) \ {i})
    BY OfIsFinite, FS_RemoveElement
  <2> QED
    BY <2>1, FS_CardinalityType
<1>3. DOMAIN Less(s, i) = Path /\ Less(s, i) = [q \in Path |-> Less(s, i)[q]]
  BY OpenIsNat DEF Less
<1>4. Less(s, i) \in [Path -> Nat]
  BY <1>1, <1>2, <1>3
<1>5. ASSUME s[i].live PROVE Open(s)[s[i].path] > 0
  <2>1. s[i].path \in Path
    BY EntryOf
  <2>2. i \in Of(s, s[i].path)
    BY <1>5 DEF Of
  <2> QED
    BY <2>1, <2>2, OfIsFinite DEF Open
<1> QED
  BY <1>1, <1>2, <1>4, <1>5

\* A new entry at the back.
LEMMA OpenOfAppend ==
    ASSUME NEW s \in Seq(Entry), NEW e \in Entry
    PROVE  Append(s, e) \in Seq(Entry) /\ Open(Append(s, e)) = More(Open(s), e)
<1> DEFINE n == Len(s) + 1
           t == Append(s, e)
<1>1. /\ t \in Seq(Entry) /\ Len(t) = n /\ t[n] = e
      /\ \A i \in 1..Len(s) : t[i] = s[i]
      /\ Len(s) \in Nat /\ e.path \in Path
  BY AppendProperties DEF Entry
<1> HIDE DEF t
<1>2. ASSUME NEW p \in Path
      PROVE  Open(t)[p] = More(Open(s), e)[p]
  <2>1. /\ Of(t, p) = IF e.live /\ e.path = p THEN Of(s, p) \cup {n} ELSE Of(s, p)
        /\ n \notin Of(s, p)
    BY <1>1 DEF Of
  <2>2. Cardinality(Of(s, p) \cup {n}) = Cardinality(Of(s, p)) + 1
    BY <2>1, OfIsFinite, FS_AddElement
  <2>3. More(Open(s), e)[p] = IF e.live /\ e.path = p THEN Open(s)[p] + 1 ELSE Open(s)[p]
    BY <1>1, OpenIsNat DEF More
  <2> QED
    BY <2>1, <2>2, <2>3 DEF Open
<1>3. /\ Open(t) \in [Path -> Nat]
      /\ DOMAIN More(Open(s), e) = Path
      /\ More(Open(s), e) = [p \in Path |-> More(Open(s), e)[p]]
  BY <1>1, OpenIsNat DEF More
<1>4. Open(t) = More(Open(s), e)
  BY <1>2, <1>3
<1> QED
  BY <1>1, <1>4 DEF t

\* Another entry in place of the one at i.
LEMMA OpenOfExcept ==
    ASSUME NEW s \in Seq(Entry), NEW i \in DOMAIN s, NEW e \in Entry
    PROVE  /\ [s EXCEPT ![i] = e] \in Seq(Entry)
           /\ Open([s EXCEPT ![i] = e]) = More(Less(s, i), e)
<1> DEFINE t == [s EXCEPT ![i] = e]
<1>1. /\ t \in Seq(Entry) /\ Len(t) = Len(s) /\ t[i] = e
      /\ \A j \in DOMAIN s : j # i => t[j] = s[j]
      /\ DOMAIN t = DOMAIN s /\ e.path \in Path
  BY ExceptSeq DEF Entry
<1> HIDE DEF t
<1>2. ASSUME NEW p \in Path
      PROVE  Open(t)[p] = More(Less(s, i), e)[p]
  <2> DEFINE R == Of(s, p) \ {i}
  <2>1. /\ Of(t, p) = IF e.live /\ e.path = p THEN R \cup {i} ELSE R
        /\ i \notin R
    BY <1>1 DEF Of
  <2>2. Less(s, i)[p] = Cardinality(R) /\ IsFiniteSet(R)
        /\ Less(s, i) \in [Path -> Nat]
    BY LessIsCount
  <2> HIDE DEF R
  <2>3. Cardinality(R \cup {i}) = Cardinality(R) + 1
    BY <2>1, <2>2, FS_AddElement
  <2>4. More(Less(s, i), e)[p] =
            IF e.live /\ e.path = p THEN Less(s, i)[p] + 1 ELSE Less(s, i)[p]
    BY <1>1, <2>2 DEF More
  <2> QED
    BY <2>1, <2>2, <2>3, <2>4 DEF Open
<1>3. /\ Open(t) \in [Path -> Nat]
      /\ \A p \in Path : Less(s, i) \in [Path -> Nat]
      /\ DOMAIN Open(t) = Path /\ Open(t) = [p \in Path |-> Open(t)[p]]
  BY <1>1, OpenIsNat, LessIsCount DEF Open
<1>4. Less(s, i) \in [Path -> Nat]
  BY <1>1, <1>3
<1>5. /\ DOMAIN More(Less(s, i), e) = Path
      /\ More(Less(s, i), e) = [p \in Path |-> More(Less(s, i), e)[p]]
  BY <1>1, <1>4 DEF More
<1>6. Open(t) = More(Less(s, i), e)
  BY <1>2, <1>3, <1>5
<1> QED
  BY <1>1, <1>6 DEF t

\* The list without the entry at i, which those behind it move up to.
LEMMA OpenOfShorter ==
    ASSUME NEW s \in Seq(Entry), NEW i \in DOMAIN s, NEW t \in Seq(Entry),
           Len(t) = Len(s) - 1,
           \A j \in 1..Len(t) : t[j] = s[IF j < i THEN j ELSE j + 1]
    PROVE  Open(t) = Less(s, i)
<1>1. Len(s) \in Nat /\ Len(t) \in Nat /\ i \in 1..Len(s)
      /\ DOMAIN t = 1..Len(t) /\ DOMAIN s = 1..Len(s)
  OBVIOUS
<1>2. ASSUME NEW p \in Path
      PROVE  Open(t)[p] = Less(s, i)[p]
  <2> DEFINE S == Of(t, p)
             T == Of(s, p) \ {i}
             up == [j \in S |-> IF j < i THEN j ELSE j + 1]
  <2>1. up \in [S -> T]
    <3> SUFFICES ASSUME NEW j \in S PROVE (IF j < i THEN j ELSE j + 1) \in T
      OBVIOUS
    <3>1. j \in 1..Len(t) /\ t[j].live /\ t[j].path = p
      BY <1>1 DEF Of
    <3> DEFINE k == IF j < i THEN j ELSE j + 1
    <3>2. k \in 1..Len(s) /\ k # i /\ t[j] = s[k]
      BY <1>1, <3>1
    <3> QED
      BY <1>1, <3>1, <3>2 DEF Of
  <2>2. \A j, k \in S : up[j] = up[k] => j = k
    <3>1. \A j \in S : j \in Int
      BY <1>1 DEF Of
    <3> HIDE DEF S
    <3> QED
      BY <1>1, <3>1
  <2>3. \A k \in T : \E j \in S : up[j] = k
    <3> SUFFICES ASSUME NEW k \in T PROVE \E j \in S : up[j] = k
      OBVIOUS
    <3>1. k \in 1..Len(s) /\ k # i /\ s[k].live /\ s[k].path = p
      BY <1>1 DEF Of
    <3> DEFINE j == IF k < i THEN k ELSE k - 1
    <3>2. j \in 1..Len(t) /\ t[j] = s[k] /\ (IF j < i THEN j ELSE j + 1) = k
      BY <1>1, <3>1
    <3>3. j \in S
      BY <1>1, <3>1, <3>2 DEF Of
    <3> HIDE DEF S, j
    <3> QED
      BY <3>2, <3>3
  <2>4. up \in Bijection(S, T)
    BY <2>1, <2>2, <2>3 DEF Bijection, Injection, Surjection, IsInjective
  <2>5. ExistsBijection(S, T)
    BY <2>4 DEF ExistsBijection
  <2>6. IsFiniteSet(S)
    BY OfIsFinite
  <2>7. Cardinality(T) = Cardinality(S)
    BY <2>5, <2>6, FS_Bijection
  <2> QED
    BY <2>7, LessIsCount DEF Open
<1>3. \A p \in Path : Less(s, i) \in [Path -> Nat]
  BY LessIsCount
<1>4. DOMAIN Less(s, i) = Path /\ Less(s, i) = [p \in Path |-> Less(s, i)[p]]
  BY OpenIsNat DEF Less
<1>5. DOMAIN Open(t) = Path /\ Open(t) = [p \in Path |-> Open(t)[p]]
  BY DEF Open
<1> QED
  BY <1>2, <1>4, <1>5

-----------------------------------------------------------------------------
(* Every step keeps the libraries, the registries and the list together.    *)

IInv == TypeOK /\ Sound(Now, Open(plugins))

Displaced(w, x) ==
    \A k \in Key :
        w.builders[k] # None /\ x.builders[k] # w.builders[k] =>
            \/ x.builders[k] # None /\ x.builders[k].n > w.builders[k].n
            \/ x.lib[w.builders[k].path].builder # w.builders[k]

\* What goes is a destructor's, what comes a constructor's.
LEMMA Displacing ==
    ASSUME NEW w, NEW h, Sound(w, h), NEW v \in World, NEW x \in World,
           OnlyOwn(w, v), OnlyNewer(v, x)
    PROVE  Displaced(w, x)
<1> SUFFICES ASSUME NEW k \in Key, w.builders[k] # None, x.builders[k] # w.builders[k],
                    x.builders[k] # None => ~(x.builders[k].n > w.builders[k].n)
             PROVE  x.lib[w.builders[k].path].builder # w.builders[k]
  BY DEF Displaced
<1> DEFINE b == w.builders[k]
<1>1. b \in Object /\ b.path \in Path /\ b.n <= w.inits
  BY DEF Sound, KeySound, World, Object
<1>2. b.n \in Nat /\ w.inits \in Nat /\ v.inits = w.inits
  BY <1>1, BoundsAreNat DEF Sound, World, Object, OnlyOwn
<1>3. x.builders[k] # None => x.builders[k].n \in Nat
  BY BoundsAreNat DEF World, Object
<1> HIDE DEF b
<1>4. x.builders[k] = v.builders[k]
  BY <1>1, <1>2, <1>3 DEF OnlyNewer, b
<1>5. v.lib[b.path].builder # b
  BY <1>4 DEF OnlyOwn, b
<1>6. CASE x.lib[b.path].builder = v.lib[b.path].builder
  BY <1>5, <1>6 DEF b
<1>7. CASE x.lib[b.path].builder # v.lib[b.path].builder
  <2>1. x.lib[b.path].builder = None \/ x.lib[b.path].builder.n > w.inits
    BY <1>1, <1>2, <1>7 DEF OnlyNewer
  <2>2. b # None /\ ~(b.n > w.inits)
    BY <1>1, <1>2 DEF b
  <2> QED
    BY <2>1, <2>2 DEF b
<1> QED
  BY <1>6, <1>7

LEMMA Unmoved ==
    ASSUME NEW w
    PROVE  OnlyNewer(w, w) /\ OnlyOwn(w, w)
BY DEF OnlyNewer, OnlyOwn

\* A step that ends in a sound world, with a plugin for every handle.
LEMMA Settles ==
    ASSUME NEW w, Sound(w, Open(plugins')), Becomes(w), plugins' \in Seq(Entry),
           born' \in Nat, phase' \in {"up", "clearing", "exiting"},
           last' \in {"none", "true", "false", "throw", "crash"}
    PROVE  IInv' /\ Now' = w
<1>1. w \in World
  BY DEF Sound
<1>2. Now' = w
  BY <1>1 DEF Now, Becomes, World
<1>3. TypeOK'
  BY <1>1 DEF TypeOK, Becomes, World
<1>4. Sound(Now', Open(plugins'))
  BY <1>2
<1> QED
  BY <1>2, <1>3, <1>4 DEF IInv

LEMMA ReleaseSound ==
    ASSUME NEW w, NEW s \in Seq(Entry), Sound(w, Open(s)), NEW i \in DOMAIN s, NEW v,
           v = IF s[i].live THEN Destruct(w, s[i].path) ELSE w
    PROVE  Sound(v, Less(s, i)) /\ OnlyOwn(w, v) /\ Others(w, v, s[i].path)
<1>1. s[i].path \in Path
  BY EntryOf
<1>2. CASE s[i].live
  <2>1. Open(s)[s[i].path] > 0
    BY <1>1, <1>2, LessIsCount
  <2>2. /\ Sound(Destruct(w, s[i].path),
                 [Open(s) EXCEPT ![s[i].path] = Open(s)[s[i].path] - 1])
        /\ OnlyOwn(w, Destruct(w, s[i].path))
        /\ Others(w, Destruct(w, s[i].path), s[i].path)
    BY <1>1, <2>1, DestructSound
  <2> QED
    BY <1>2, <2>2 DEF Less
<1>3. CASE ~s[i].live
  BY <1>3, Unmoved DEF Less, Others
<1> QED
  BY <1>2, <1>3

\* The entry at i is released and leaves the list.
LEMMA Leaving ==
    ASSUME IInv, NEW i \in DOMAIN plugins, Released(plugins[i]),
           plugins' \in Seq(Entry), Len(plugins') = Len(plugins) - 1,
           \A j \in 1..Len(plugins') : plugins'[j] = plugins[IF j < i THEN j ELSE j + 1],
           born' \in Nat, phase' \in {"up", "clearing", "exiting"},
           last' \in {"none", "true", "false", "throw", "crash"}
    PROVE  IInv' /\ Displaced(Now, Now')
<1> DEFINE v == IF plugins[i].live THEN Destruct(Now, plugins[i].path) ELSE Now
<1>1. plugins \in Seq(Entry) /\ Sound(Now, Open(plugins))
  BY DEF IInv, TypeOK
<1>2. Becomes(v)
  BY DEF Released
<1> HIDE DEF v
<1>3. Sound(v, Less(plugins, i)) /\ OnlyOwn(Now, v)
  BY <1>1, ReleaseSound DEF v
<1>4. Open(plugins') = Less(plugins, i)
  BY <1>1, OpenOfShorter
<1>5. Sound(v, Open(plugins'))
  BY <1>3, <1>4
<1>6. IInv' /\ Now' = v
  BY <1>2, <1>5, Settles
<1>7. v \in World
  BY <1>3 DEF Sound
<1>8. Displaced(Now, v)
  BY <1>1, <1>3, <1>7, Displacing, Unmoved
<1> QED
  BY <1>6, <1>8

LEMMA WithoutIsShorter ==
    ASSUME plugins \in Seq(Entry), NEW i \in DOMAIN plugins
    PROVE  /\ Without(i) \in Seq(Entry) /\ Len(Without(i)) = Len(plugins) - 1
           /\ \A j \in 1..Len(Without(i)) :
                 Without(i)[j] = plugins[IF j < i THEN j ELSE j + 1]
<1> DEFINE n == Len(plugins)
           a == SubSeq(plugins, 1, i - 1)
           b == SubSeq(plugins, i + 1, n)
<1>1. n \in Nat /\ i \in 1..n /\ \A j \in 1..n : plugins[j] \in Entry
  OBVIOUS
<1>2. /\ a \in Seq(Entry) /\ Len(a) = i - 1
      /\ \A j \in 1..(i - 1) : a[j] = plugins[j]
  <2>1. \A j \in 1..(i - 1) : plugins[j] \in Entry
    BY <1>1
  <2>2. /\ a \in Seq(Entry) /\ Len(a) = IF 1 <= i - 1 THEN (i - 1) - 1 + 1 ELSE 0
        /\ \A j \in 1..((i - 1) - 1 + 1) : a[j] = plugins[1 + j - 1]
    BY <1>1, <2>1, SubSeqProperties
  <2> HIDE DEF a
  <2> QED
    BY <1>1, <2>2
<1>3. /\ b \in Seq(Entry) /\ Len(b) = n - i
      /\ \A j \in 1..(n - i) : b[j] = plugins[i + j]
  <2>1. \A j \in (i + 1)..n : plugins[j] \in Entry
    BY <1>1
  <2>2. /\ b \in Seq(Entry) /\ Len(b) = IF i + 1 <= n THEN n - (i + 1) + 1 ELSE 0
        /\ \A j \in 1..(n - (i + 1) + 1) : b[j] = plugins[(i + 1) + j - 1]
    BY <1>1, <2>1, SubSeqProperties
  <2> HIDE DEF b
  <2>3. n - (i + 1) + 1 = n - i
    BY <1>1
  <2>4. Len(b) = n - i
    BY <1>1, <2>2
  <2>5. \A j \in 1..(n - i) : (i + 1) + j - 1 = i + j
    BY <1>1
  <2> QED
    BY <2>2, <2>3, <2>4, <2>5
<1>4. Without(i) = a \o b
  BY DEF Without
<1> HIDE DEF a, b, n
<1>5. /\ a \o b \in Seq(Entry) /\ Len(a \o b) = Len(a) + Len(b)
      /\ \A j \in 1..(Len(a) + Len(b)) :
            (a \o b)[j] = IF j <= Len(a) THEN a[j] ELSE b[j - Len(a)]
  BY <1>2, <1>3, ConcatProperties
<1>6. Len(a) + Len(b) = n - 1
  BY <1>1, <1>2, <1>3
<1>7. ASSUME NEW j \in 1..(n - 1)
      PROVE  (a \o b)[j] = plugins[IF j < i THEN j ELSE j + 1]
  <2>1. CASE j < i
    <3>1. j \in 1..(Len(a) + Len(b)) /\ j <= Len(a)
      BY <1>1, <1>2, <1>6, <2>1
    <3>2. (a \o b)[j] = a[j]
      BY <1>5, <3>1
    <3> QED
      BY <1>1, <1>2, <2>1, <3>1, <3>2
  <2>2. CASE ~(j < i)
    <3>1. /\ ~(j <= Len(a)) /\ j - Len(a) \in 1..(n - i)
          /\ i + (j - Len(a)) = j + 1
      BY <1>1, <1>2, <2>2
    <3>2. (a \o b)[j] = b[j - Len(a)]
      BY <1>5, <1>6, <3>1
    <3>3. b[j - Len(a)] = plugins[i + (j - Len(a))]
      BY <1>3, <3>1
    <3> QED
      BY <2>2, <3>1, <3>2, <3>3
  <2> QED
    BY <2>1, <2>2
<1> QED
  BY <1>4, <1>5, <1>6, <1>7 DEF n

\* Nothing changes but how the last operation ended, and the phase.
LEMMA Standing ==
    ASSUME IInv, UNCHANGED <<plugins, lib, builders, factories, inits>>,
           born' \in Nat, phase' \in {"up", "clearing", "exiting"},
           last' \in {"none", "true", "false", "throw", "crash"}
    PROVE  IInv' /\ Displaced(Now, Now')
<1>1. Now' = Now
  BY DEF Now
<1>2. TypeOK'
  BY DEF IInv, TypeOK
<1>3. Sound(Now', Open(plugins'))
  BY <1>1 DEF IInv
<1>4. Displaced(Now, Now')
  BY <1>1 DEF Displaced
<1> QED
  BY <1>2, <1>3, <1>4 DEF IInv

\* The constructor of a plugin ends well or with an exception.
LEMMA LoadSound ==
    ASSUME IInv, NEW name \in Name, NEW p \in Path, Load(name, p)
    PROVE  IInv' /\ Displaced(Now, Now')
<1>1. /\ plugins \in Seq(Entry) /\ Sound(Now, Open(plugins)) /\ Now \in World
      /\ Now.inits < MaxInits /\ born \in Nat
      /\ phase \in {"up", "clearing", "exiting"}
  BY DEF IInv, TypeOK, Load, Sound, Now
<1>2. PICK r \in Construct(Now, p) :
        /\ Becomes(r.w)
        /\ IF r.ok
           THEN /\ plugins' = Append(plugins, [name |-> name, path |-> p, live |-> TRUE])
                /\ born' = born + 1
                /\ last' = "true"
           ELSE UNCHANGED <<plugins, born>> /\ last' = "throw"
  BY DEF Load
<1> DEFINE e == [name |-> name, path |-> p, live |-> TRUE]
<1>3. e \in Entry /\ e.live = TRUE /\ e.path = p
  BY DEF Entry
<1>4. /\ r.ok \in BOOLEAN
      /\ Sound(r.w, IF r.ok THEN [Open(plugins) EXCEPT ![p] = Open(plugins)[p] + 1]
                    ELSE Open(plugins))
      /\ OnlyNewer(Now, r.w)
  BY <1>1, ConstructSound
<1>5. Append(plugins, e) \in Seq(Entry) /\ Open(Append(plugins, e)) = More(Open(plugins), e)
  BY <1>1, <1>3, OpenOfAppend
<1>6. plugins' = IF r.ok THEN Append(plugins, e) ELSE plugins
  BY <1>2
<1> HIDE DEF e
<1>7. More(Open(plugins), e) = [Open(plugins) EXCEPT ![p] = Open(plugins)[p] + 1]
  BY <1>3 DEF More
<1>8. Sound(r.w, Open(plugins')) /\ plugins' \in Seq(Entry)
  BY <1>1, <1>4, <1>5, <1>6, <1>7
<1>9. /\ born' \in Nat /\ last' \in {"none", "true", "false", "throw", "crash"}
      /\ phase' = phase
  BY <1>1, <1>2 DEF Load
<1>10. IInv' /\ Now' = r.w
  BY <1>1, <1>2, <1>8, <1>9, Settles
<1>11. r.w \in World
  BY <1>4 DEF Sound
<1>12. Displaced(Now, r.w)
  BY <1>1, <1>4, <1>11, Displacing, Unmoved
<1> QED
  BY <1>10, <1>12

\* The old plugin is gone before the new one is made, or not.
LEMMA ReloadSound ==
    ASSUME IInv, NEW name \in Name, NEW p \in Path, Reload(name, p)
    PROVE  IInv' /\ Displaced(Now, Now')
<1>1. /\ plugins \in Seq(Entry) /\ Sound(Now, Open(plugins)) /\ Now \in World
      /\ Now.inits = inits /\ inits < MaxInits /\ born \in Nat
      /\ phase \in {"up", "clearing", "exiting"}
  BY DEF IInv, TypeOK, Reload, Sound, Now
<1>2. PICK i \in DOMAIN plugins :
        /\ plugins[i].live
        /\ \E r \in Construct(Destruct(Now, plugins[i].path), p) :
              /\ Becomes(r.w)
              /\ plugins' = [plugins EXCEPT ![i] =
                    IF r.ok THEN [@ EXCEPT !.path = p] ELSE [@ EXCEPT !.live = FALSE]]
              /\ last' = IF r.ok THEN "true" ELSE "throw"
  BY DEF Reload, Finds, Called
<1> DEFINE v == Destruct(Now, plugins[i].path)
<1>3. PICK r \in Construct(v, p) :
        /\ Becomes(r.w)
        /\ plugins' = [plugins EXCEPT ![i] =
              IF r.ok THEN [@ EXCEPT !.path = p] ELSE [@ EXCEPT !.live = FALSE]]
        /\ last' = IF r.ok THEN "true" ELSE "throw"
  BY <1>2
<1> HIDE DEF v
<1>4. Sound(v, Less(plugins, i)) /\ OnlyOwn(Now, v)
  BY <1>1, <1>2, ReleaseSound DEF v
<1>5. v.inits < MaxInits /\ v \in World
  BY <1>1, <1>4 DEF OnlyOwn, Sound
<1>6. /\ r.ok \in BOOLEAN
      /\ Sound(r.w, IF r.ok THEN [Less(plugins, i) EXCEPT ![p] = Less(plugins, i)[p] + 1]
                    ELSE Less(plugins, i))
      /\ OnlyNewer(v, r.w)
  BY <1>4, <1>5, ConstructSound
<1> DEFINE e == IF r.ok THEN [plugins[i] EXCEPT !.path = p]
                ELSE [plugins[i] EXCEPT !.live = FALSE]
<1>7. e \in Entry /\ (r.ok => e.path = p /\ e.live = TRUE) /\ (~r.ok => e.live = FALSE)
  <2>1. plugins[i] \in Entry
    BY <1>1
  <2> QED
    BY <1>2, <1>6, <2>1 DEF Entry
<1>8. plugins' = [plugins EXCEPT ![i] = e]
  BY <1>3
<1> HIDE DEF e
<1>9. plugins' \in Seq(Entry) /\ Open(plugins') = More(Less(plugins, i), e)
  BY <1>1, <1>7, <1>8, OpenOfExcept
<1>10. Sound(r.w, Open(plugins'))
  BY <1>6, <1>7, <1>9 DEF More
<1>11. /\ born' \in Nat /\ last' \in {"none", "true", "false", "throw", "crash"}
       /\ phase' = phase
  BY <1>1, <1>3 DEF Reload
<1>12. IInv' /\ Now' = r.w
  BY <1>1, <1>3, <1>9, <1>10, <1>11, Settles
<1>13. r.w \in World
  BY <1>6 DEF Sound
<1>14. Displaced(Now, r.w)
  BY <1>1, <1>4, <1>5, <1>6, <1>13, Displacing
<1> QED
  BY <1>12, <1>14

LEMMA UnloadSound ==
    ASSUME IInv, NEW name \in Name, Unload(name)
    PROVE  IInv' /\ Displaced(Now, Now')
<1>1. PICK i \in DOMAIN plugins : Released(plugins[i]) /\ plugins' = Without(i)
  BY DEF Unload, Finds
<1>2. /\ plugins \in Seq(Entry) /\ born' \in Nat
      /\ phase' \in {"up", "clearing", "exiting"} /\ last' = "true"
  BY DEF IInv, TypeOK, Unload
<1>3. /\ plugins' \in Seq(Entry) /\ Len(plugins') = Len(plugins) - 1
      /\ \A j \in 1..Len(plugins') : plugins'[j] = plugins[IF j < i THEN j ELSE j + 1]
  BY <1>1, <1>2, WithoutIsShorter
<1> QED
  BY <1>1, <1>2, <1>3, Leaving

LEMMA ClearSound ==
    ASSUME IInv, Clear
    PROVE  IInv' /\ Displaced(Now, Now')
<1>1. /\ plugins \in Seq(Entry) /\ born' \in Nat
      /\ phase' \in {"up", "clearing", "exiting"}
      /\ last' \in {"none", "true", "false", "throw", "crash"}
  BY DEF IInv, TypeOK, Clear
<1>2. CASE plugins = <<>>
  BY <1>1, <1>2, Standing DEF Clear
<1>3. CASE plugins # <<>>
  <2>1. Released(plugins[1]) /\ plugins' = Tail(plugins)
    BY <1>3 DEF Clear
  <2>2. 1 \in DOMAIN plugins
    BY <1>1, <1>3
  <2>3. /\ plugins' \in Seq(Entry) /\ Len(plugins') = Len(plugins) - 1
        /\ \A j \in 1..Len(plugins') : plugins'[j] = plugins[j + 1]
    BY <1>1, <1>3, <2>1, HeadTailProperties
  <2>4. \A j \in 1..Len(plugins') : plugins'[j] = plugins[IF j < 1 THEN j ELSE j + 1]
    BY <2>3
  <2> QED
    BY <1>1, <2>1, <2>2, <2>3, <2>4, Leaving
<1> QED
  BY <1>2, <1>3

LEMMA PopBackSound ==
    ASSUME IInv, PopBack
    PROVE  IInv' /\ Displaced(Now, Now')
<1> DEFINE n == Len(plugins)
<1>1. /\ plugins \in Seq(Entry) /\ born' \in Nat
      /\ phase' \in {"up", "clearing", "exiting"}
      /\ last' \in {"none", "true", "false", "throw", "crash"}
  BY DEF IInv, TypeOK, PopBack
<1>2. n \in DOMAIN plugins /\ Released(plugins[n]) /\ plugins' = Without(n)
  BY <1>1 DEF PopBack
<1> HIDE DEF n
<1>3. /\ plugins' \in Seq(Entry) /\ Len(plugins') = Len(plugins) - 1
      /\ \A j \in 1..Len(plugins') : plugins'[j] = plugins[IF j < n THEN j ELSE j + 1]
  BY <1>1, <1>2, WithoutIsShorter
<1> QED
  BY <1>1, <1>2, <1>3, Leaving

LEMMA StepSound ==
    ASSUME IInv, [Next]_vars
    PROVE  IInv' /\ Displaced(Now, Now')
<1>1. /\ born \in Nat /\ phase \in {"up", "clearing", "exiting"}
      /\ last \in {"none", "true", "false", "throw", "crash"}
  BY DEF IInv, TypeOK
<1>2. ASSUME NEW name \in Name, Crash(name) \/ Taken(name) \/ NotFound(name)
      PROVE  IInv' /\ Displaced(Now, Now')
  BY <1>1, <1>2, Standing DEF Crash, Taken, NotFound
<1>3. CASE UnloadAll \/ Exit \/ UNCHANGED vars
  BY <1>1, <1>3, Standing DEF UnloadAll, Exit, vars
<1> QED
  BY <1>2, <1>3, LoadSound, ReloadSound, UnloadSound, ClearSound, PopBackSound DEF Next

-----------------------------------------------------------------------------
(* The theorems about Plugins.                                              *)

LEMMA InitSound ==
    Init => IInv
<1> SUFFICES ASSUME Init PROVE IInv
  OBVIOUS
<1>1. /\ plugins = <<>> /\ lib = [p \in Path |-> Fresh]
      /\ builders = [k \in Key |-> None] /\ factories \in [Key -> {Own, None}]
      /\ inits = 0 /\ born = 0 /\ phase = "up" /\ last = "none"
  BY DEF Init
<1>2. Fresh \in Library
  BY DEF Fresh, Library
<1>3. 0 \in 0..MaxInits
  BY BoundsAreNat
<1>4. TypeOK
  BY <1>1, <1>2, <1>3 DEF TypeOK
<1>5. Now \in World
  BY <1>4 DEF TypeOK, World, Now
<1>6. Open(plugins) = [p \in Path |-> 0]
  <2>1. \A p \in Path : Of(plugins, p) = {}
    BY <1>1 DEF Of
  <2> QED
    BY <2>1, FS_EmptySet DEF Open
<1>7. \A p \in Path : LibSound(p, Now.lib[p], Open(plugins)[p])
  BY <1>1, <1>6 DEF LibSound, Now, Fresh
<1>8. \A k \in Key : KeySound(Now, k)
  BY <1>1 DEF KeySound, Now
<1> QED
  BY <1>4, <1>5, <1>6, <1>7, <1>8 DEF IInv, Sound

\* Application's list, the libraries and the registries fit together, whichever
\* plugins were loaded, reloaded and unloaded, and whichever of them failed.
THEOREM Inductive ==
    Spec => []IInv
<1>1. IInv /\ [Next]_vars => IInv'
  BY StepSound
<1> QED
  BY <1>1, InitSound, PTL DEF Spec

LEMMA ThenHandlesMatch ==
    IInv => HandlesMatch
<1> SUFFICES ASSUME IInv, NEW p \in Path
             PROVE  lib[p].handles = Cardinality(Of(plugins, p))
  BY DEF HandlesMatch, Of
<1> QED
  BY DEF IInv, Sound, LibSound, Open, Now

LEMMA ThenFoundIsLoaded ==
    IInv => FoundIsLoaded
<1> SUFFICES ASSUME IInv, NEW k \in Key, builders[k] # None
             PROVE  /\ lib[builders[k].path].builder = builders[k]
                    /\ lib[builders[k].path].handles > 0
  BY DEF FoundIsLoaded
<1>1. /\ lib[builders[k].path].builder = builders[k] /\ builders[k] \in Object
  BY DEF IInv, Sound, KeySound, World, Now
<1>2. builders[k].path \in Path
  BY <1>1 DEF Object
<1>3. LibSound(builders[k].path, lib[builders[k].path], Open(plugins)[builders[k].path])
  BY <1>2 DEF IInv, Sound, Now
<1> QED
  BY <1>1, <1>3 DEF LibSound

LEMMA ThenLoadedWorks ==
    IInv => LoadedWorks
<1> SUFFICES ASSUME IInv, NEW i \in DOMAIN plugins, plugins[i].live,
                    plugins[i].path \notin Kept
             PROVE  Initialised(plugins[i])
  BY DEF LoadedWorks
<1>1. plugins \in Seq(Entry)
  BY DEF IInv, TypeOK
<1>2. plugins[i].path \in Path /\ Open(plugins)[plugins[i].path] > 0
  BY <1>1, EntryOf, LessIsCount
<1>3. LibSound(plugins[i].path, lib[plugins[i].path], Open(plugins)[plugins[i].path])
  BY <1>2 DEF IInv, Sound, Now
<1> QED
  BY <1>2, <1>3 DEF LibSound, Initialised

\* As many handles of each library are open as plugins were made of it.
THEOREM HandlesAreCounted ==
    Spec => []HandlesMatch
BY Inductive, ThenHandlesMatch, PTL

\* A builder that the registry finds is in a library that is open.
THEOREM BuildersAreLoaded ==
    Spec => []FoundIsLoaded
BY Inductive, ThenFoundIsLoaded, PTL

\* A plugin of a library that can be unmapped is an initialised one.
THEOREM PluginsWork ==
    Spec => []LoadedWorks
BY Inductive, ThenLoadedWorks, PTL

\* Unloading a plugin takes no other's builder from the registry.
THEOREM OldOnesStay ==
    Spec => OnlyNewerDisplaces
<1>1. IInv /\ [Next]_vars =>
        [\A k \in Key :
            builders[k] # None /\ builders'[k] # builders[k] =>
                \/ builders'[k] # None /\ builders'[k].n > builders[k].n
                \/ lib'[builders[k].path].builder # builders[k]]_vars
  BY StepSound DEF Displaced, Now
<1> QED
  BY <1>1, Inductive, PTL DEF Spec, OnlyNewerDisplaces

-----------------------------------------------------------------------------
(* HttpMonitor only does what Application's functions do.                   *)

\* Every request and every call of the process is a step of Plugins, or none.
LEMMA MonitorStep ==
    [MonitorNext]_<<vars, monVars>> => [Next]_vars
<1>1. ASSUME NEW name \in Name, NEW p \in Path,
             Post(name, p) \/ Put(name, p) \/ Directly(name, p)
      PROVE  [Next]_vars
  BY <1>1 DEF Post, Put, Directly, Next
<1>2. ASSUME NEW name \in Name, Delete(name) \/ Dies(name)
      PROVE  [Next]_vars
  BY <1>2 DEF Delete, Dies, Next
<1>3. CASE BadRequest \/ Unhandled \/ Lost \/ UNCHANGED <<vars, monVars>>
  BY <1>3 DEF BadRequest, Unhandled, Lost
<1>4. CASE DirectlyAll \/ Releasing
  BY <1>4 DEF DirectlyAll, Releasing, Next
<1> QED
  BY <1>1, <1>2, <1>3, <1>4 DEF MonitorNext

\* So what is true of Application is true under the monitor.
THEOREM MonitorRefinesPlugins ==
    MonitorSpec => Spec
<1>1. MonitorInit => Init
  BY DEF MonitorInit
<1> QED
  BY <1>1, MonitorStep, PTL DEF MonitorSpec, Spec

-----------------------------------------------------------------------------
(* What the statuses tell, and how long the monitor's factory lives.        *)

\* A name is one plugin's.
Sole == \A i, j \in DOMAIN plugins :
            plugins[i].live /\ plugins[j].live /\ plugins[i].name = plugins[j].name => i = j

\* The library of each name is as known.
Knows ==
    IF phase = "up"
    THEN /\ \A i \in DOMAIN plugins :
               plugins[i].live => known[plugins[i].name] = plugins[i].path
         /\ \A name \in Name :
               known[name] # None => \E i \in DOMAIN plugins : Called(name, i)
    ELSE known = Names(None)

\* Every plugin is of a library that was tried.
AllTried == \A i \in DOMAIN plugins : plugins[i].path \in tried

Taking == \E p \in tried : KeyOf[p] = HttpKey

Lists == /\ known \in [Name -> Path \cup {None}] /\ tried \subseteq Path
         /\ Sole /\ Knows /\ AllTried

MInv ==
    /\ IInv /\ Lists
    /\ alive \in BOOLEAN /\ answer \in {200, 400, 404, 500, None}
    /\ ~Taking => factories[HttpKey] = Own
    /\ ~alive => phase = "up" /\ OutlivesOthers

LEMMA OwnIsThere ==
    ASSUME NEW libraries PROVE There(Own, libraries)
BY NoneIsNoObject DEF There

\* Where each operation leaves the list and the factories.
LEMMA LoadLeaves ==
    ASSUME IInv, NEW name \in Name, NEW p \in Path, Load(name, p)
    PROVE  /\ phase = "up" /\ phase' = "up" /\ FindsNone(name)
           /\ \/ /\ last' = "true"
                 /\ plugins' = Append(plugins, [name |-> name, path |-> p, live |-> TRUE])
              \/ last' = "throw" /\ plugins' = plugins
           /\ KeyOf[p] # HttpKey => factories'[HttpKey] = factories[HttpKey]
<1>1. PICK r \in Construct(Now, p) :
        /\ Becomes(r.w)
        /\ IF r.ok
           THEN /\ plugins' = Append(plugins, [name |-> name, path |-> p, live |-> TRUE])
                /\ last' = "true"
           ELSE plugins' = plugins /\ last' = "throw"
  BY DEF Load
<1>2. Others(Now, r.w, p)
  <2>1. Sound(Now, Open(plugins)) /\ Now.inits < MaxInits
    BY DEF IInv, Load, Now
  <2> QED
    BY <2>1, ConstructSound
<1>3. KeyOf[p] # HttpKey => factories'[HttpKey] = factories[HttpKey]
  BY <1>1, <1>2, MonitorLibraries DEF Others, Becomes, Now
<1> QED
  BY <1>1, <1>3 DEF Load, Up

LEMMA ReloadLeaves ==
    ASSUME IInv, NEW name \in Name, NEW p \in Path, Reload(name, p)
    PROVE  /\ phase = "up" /\ phase' = "up"
           /\ \E i \in DOMAIN plugins :
                 /\ Called(name, i)
                 /\ \/ last' = "true" /\ plugins' = [plugins EXCEPT ![i] =
                                                        [plugins[i] EXCEPT !.path = p]]
                    \/ last' = "throw" /\ plugins' = [plugins EXCEPT ![i] =
                                                        [plugins[i] EXCEPT !.live = FALSE]]
                 /\ KeyOf[p] # HttpKey /\ KeyOf[plugins[i].path] # HttpKey =>
                       factories'[HttpKey] = factories[HttpKey]
<1>1. PICK i \in DOMAIN plugins :
        /\ Called(name, i)
        /\ \E r \in Construct(Destruct(Now, plugins[i].path), p) :
              /\ Becomes(r.w)
              /\ plugins' = [plugins EXCEPT ![i] =
                    IF r.ok THEN [@ EXCEPT !.path = p] ELSE [@ EXCEPT !.live = FALSE]]
              /\ last' = IF r.ok THEN "true" ELSE "throw"
  BY DEF Reload, Finds
<1> DEFINE v == Destruct(Now, plugins[i].path)
<1>2. PICK r \in Construct(v, p) :
        /\ Becomes(r.w)
        /\ plugins' = [plugins EXCEPT ![i] =
              IF r.ok THEN [@ EXCEPT !.path = p] ELSE [@ EXCEPT !.live = FALSE]]
        /\ last' = IF r.ok THEN "true" ELSE "throw"
  BY <1>1
<1> HIDE DEF v
<1>3. /\ Sound(v, Less(plugins, i)) /\ OnlyOwn(Now, v)
      /\ Others(Now, v, plugins[i].path)
  BY <1>1, ReleaseSound DEF v, Called, IInv, TypeOK
<1>4. Others(v, r.w, p)
  <2>1. v.inits < MaxInits
    BY <1>3 DEF OnlyOwn, Reload, Now
  <2> QED
    BY <1>3, <2>1, ConstructSound
<1>5. KeyOf[p] # HttpKey /\ KeyOf[plugins[i].path] # HttpKey =>
        factories'[HttpKey] = factories[HttpKey]
  BY <1>2, <1>3, <1>4, MonitorLibraries DEF Others, Becomes, Now
<1> QED
  BY <1>1, <1>2, <1>5 DEF Reload, Up

LEMMA ReleaseLeaves ==
    ASSUME IInv, NEW i \in DOMAIN plugins, Released(plugins[i]),
           KeyOf[plugins[i].path] # HttpKey
    PROVE  factories'[HttpKey] = factories[HttpKey]
<1> DEFINE v == IF plugins[i].live THEN Destruct(Now, plugins[i].path) ELSE Now
<1>1. Becomes(v)
  BY DEF Released
<1> HIDE DEF v
<1>2. Others(Now, v, plugins[i].path)
  BY ReleaseSound DEF v, IInv, TypeOK
<1> QED
  BY <1>1, <1>2, MonitorLibraries DEF Others, Becomes, Now

\* The list and what is known of it, through each of its changes.
LEMMA ListLoaded ==
    ASSUME plugins \in Seq(Entry), Lists, NEW name \in Name, NEW p \in Path,
           phase = "up", phase' = "up", FindsNone(name),
           plugins' = Append(plugins, [name |-> name, path |-> p, live |-> TRUE]),
           known' = [known EXCEPT ![name] = p], tried' = tried \cup {p}
    PROVE  Lists'
<1> DEFINE n == Len(plugins) + 1
           e == [name |-> name, path |-> p, live |-> TRUE]
<1>1. /\ e \in Entry /\ e.name = name /\ e.path = p /\ e.live = TRUE
  BY DEF Entry
<1> HIDE DEF e
<1>2. /\ plugins' \in Seq(Entry) /\ Len(plugins') = n /\ plugins'[n] = e
      /\ \A i \in DOMAIN plugins : plugins'[i] = plugins[i]
      /\ DOMAIN plugins' = DOMAIN plugins \cup {n} /\ n \notin DOMAIN plugins
  <2>1. /\ Append(plugins, e) \in Seq(Entry)
        /\ Len(Append(plugins, e)) = Len(plugins) + 1
        /\ \A i \in 1..Len(plugins) : Append(plugins, e)[i] = plugins[i]
        /\ Append(plugins, e)[Len(plugins) + 1] = e
    BY <1>1, AppendProperties
  <2>2. plugins' = Append(plugins, e)
    BY DEF e
  <2> QED
    BY <2>1, <2>2
<1> HIDE DEF n
<1>3. \A i \in DOMAIN plugins : plugins[i].live /\ plugins[i].name # name
  BY DEF FindsNone, Called
<1>4. Sole'
  BY <1>1, <1>2, <1>3 DEF Lists, Sole
<1>5. ASSUME NEW i \in DOMAIN plugins' PROVE known'[plugins'[i].name] = plugins'[i].path
  <2>1. CASE i = n
    BY <1>1, <1>2, <2>1 DEF Lists
  <2>2. CASE i \in DOMAIN plugins
    <3>1. plugins[i].name \in Name
      BY <2>2, EntryOf
    <3> QED
      BY <1>2, <1>3, <2>2, <3>1 DEF Lists, Knows
  <2> QED
    BY <1>2, <2>1, <2>2
<1>6. ASSUME NEW other \in Name, known'[other] # None
      PROVE  \E i \in DOMAIN plugins' : plugins'[i].name = other /\ plugins'[i].live
  <2>1. CASE other = name
    BY <1>1, <1>2, <2>1
  <2>2. CASE other # name
    <3>1. PICK i \in DOMAIN plugins : Called(other, i)
      BY <1>6, <2>2 DEF Lists, Knows
    <3> QED
      BY <1>2, <3>1 DEF Called
  <2> QED
    BY <2>1, <2>2
<1>7. Knows'
  BY <1>5, <1>6 DEF Knows, Called
<1>8. AllTried'
  BY <1>1, <1>2 DEF Lists, AllTried
<1> QED
  BY <1>4, <1>7, <1>8 DEF Lists

LEMMA ListReloaded ==
    ASSUME plugins \in Seq(Entry), Lists, NEW name \in Name, NEW p \in Path,
           phase = "up", phase' = "up", NEW i \in DOMAIN plugins, Called(name, i),
           \/ /\ plugins' = [plugins EXCEPT ![i] = [plugins[i] EXCEPT !.path = p]]
              /\ known' = [known EXCEPT ![name] = p]
           \/ /\ plugins' = [plugins EXCEPT ![i] = [plugins[i] EXCEPT !.live = FALSE]]
              /\ known' = [known EXCEPT ![name] = None],
           tried' = tried \cup {p}
    PROVE  Lists'
<1>1. plugins[i] \in Entry /\ plugins[i].name = name /\ plugins[i].live
  BY DEF Called
<1>2. /\ DOMAIN plugins' = DOMAIN plugins
      /\ \A j \in DOMAIN plugins : j # i => plugins'[j] = plugins[j]
  OBVIOUS
<1>3. /\ plugins'[i].name = name
      /\ \/ /\ plugins'[i].live = TRUE /\ plugins'[i].path = p
            /\ known' = [known EXCEPT ![name] = p]
         \/ /\ plugins'[i].live = FALSE /\ plugins'[i].path = plugins[i].path
            /\ known' = [known EXCEPT ![name] = None]
  <2>1. CASE /\ plugins' = [plugins EXCEPT ![i] = [plugins[i] EXCEPT !.path = p]]
             /\ known' = [known EXCEPT ![name] = p]
    BY <1>1, <2>1 DEF Entry
  <2>2. CASE /\ plugins' = [plugins EXCEPT ![i] = [plugins[i] EXCEPT !.live = FALSE]]
             /\ known' = [known EXCEPT ![name] = None]
    BY <1>1, <2>2 DEF Entry
  <2> QED
    BY <2>1, <2>2
<1>4. \A j \in DOMAIN plugins : plugins[j].live /\ j # i => plugins[j].name # name
  BY <1>1 DEF Lists, Sole
<1>5. \A j \in DOMAIN plugins : plugins[j].name \in Name
  BY EntryOf
<1>6. /\ known' \in [Name -> Path \cup {None}]
      /\ \A other \in Name : other # name => known'[other] = known[other]
  BY <1>3 DEF Lists
<1>7. Sole'
  BY <1>1, <1>2, <1>3 DEF Lists, Sole
<1>8. \A j \in DOMAIN plugins : plugins'[j].live => known'[plugins'[j].name] = plugins'[j].path
  <2> SUFFICES ASSUME NEW j \in DOMAIN plugins, plugins'[j].live
               PROVE  known'[plugins'[j].name] = plugins'[j].path
    OBVIOUS
  <2>1. CASE j = i
    BY <1>3, <2>1 DEF Lists
  <2>2. CASE j # i
    BY <1>2, <1>4, <1>5, <1>6, <2>2 DEF Lists, Knows
  <2> QED
    BY <2>1, <2>2
<1>9. ASSUME NEW other \in Name, known'[other] # None
      PROVE  \E j \in DOMAIN plugins : plugins'[j].name = other /\ plugins'[j].live
  <2>1. CASE other = name
    BY <1>3, <1>9, <2>1 DEF Lists
  <2>2. CASE other # name
    <3>1. PICK j \in DOMAIN plugins : Called(other, j)
      BY <1>6, <1>9, <2>2 DEF Lists, Knows
    <3>2. j # i
      BY <1>1, <2>2, <3>1 DEF Called
    <3> QED
      BY <1>2, <3>1, <3>2 DEF Called
  <2> QED
    BY <2>1, <2>2
<1>10. Knows'
  BY <1>2, <1>8, <1>9 DEF Knows, Called
<1>11. AllTried'
  BY <1>2, <1>3 DEF Lists, AllTried
<1> QED
  BY <1>6, <1>7, <1>10, <1>11 DEF Lists

LEMMA ListShorter ==
    ASSUME plugins \in Seq(Entry), Lists, NEW i \in DOMAIN plugins,
           plugins' \in Seq(Entry), Len(plugins') = Len(plugins) - 1,
           \A j \in 1..Len(plugins') : plugins'[j] = plugins[IF j < i THEN j ELSE j + 1],
           tried' = tried, phase' = phase,
           IF phase = "up"
           THEN plugins[i].live /\ known' = [known EXCEPT ![plugins[i].name] = None]
           ELSE known' = known
    PROVE  Lists'
<1> DEFINE up(j) == IF j < i THEN j ELSE j + 1
<1>1. /\ Len(plugins) \in Nat /\ i \in 1..Len(plugins) /\ Len(plugins') \in Nat
      /\ DOMAIN plugins = 1..Len(plugins) /\ DOMAIN plugins' = 1..Len(plugins')
  OBVIOUS
<1>2. \A j \in DOMAIN plugins' : up(j) \in DOMAIN plugins /\ up(j) # i
  BY <1>1
<1>3. \A j, k \in DOMAIN plugins' : up(j) = up(k) => j = k
  BY <1>1
<1>4. \A k \in DOMAIN plugins : k # i => \E j \in DOMAIN plugins' : up(j) = k
  <2> SUFFICES ASSUME NEW k \in DOMAIN plugins, k # i
               PROVE  \E j \in DOMAIN plugins' : up(j) = k
    OBVIOUS
  <2> DEFINE j == IF k < i THEN k ELSE k - 1
  <2>1. j \in DOMAIN plugins' /\ up(j) = k
    BY <1>1
  <2> QED
    BY <2>1
<1>5. \A j \in DOMAIN plugins' : plugins'[j] = plugins[up(j)]
  BY <1>1
<1> HIDE DEF up
<1>6. Sole'
  BY <1>2, <1>3, <1>5 DEF Lists, Sole
<1>7. AllTried'
  BY <1>2, <1>5 DEF Lists, AllTried
<1>8. CASE phase # "up"
  BY <1>6, <1>7, <1>8 DEF Lists, Knows
<1>9. CASE phase = "up"
  <2> DEFINE name == plugins[i].name
  <2>1. /\ name \in Name /\ plugins[i].live
        /\ \A j \in DOMAIN plugins : plugins[j].name \in Name
    BY <1>9, EntryOf
  <2>2. \A j \in DOMAIN plugins : plugins[j].live /\ j # i => plugins[j].name # name
    BY <2>1 DEF Lists, Sole
  <2> HIDE DEF name
  <2>3. /\ known' \in [Name -> Path \cup {None}] /\ known'[name] = None
        /\ \A other \in Name : other # name => known'[other] = known[other]
    BY <1>9, <2>1 DEF Lists, name
  <2>4. \A j \in DOMAIN plugins' :
            plugins'[j].live => known'[plugins'[j].name] = plugins'[j].path
    BY <1>2, <1>5, <1>9, <2>1, <2>2, <2>3 DEF Lists, Knows
  <2>5. ASSUME NEW other \in Name, known'[other] # None
        PROVE  \E j \in DOMAIN plugins' : plugins'[j].name = other /\ plugins'[j].live
    <3>1. other # name /\ known[other] # None
      BY <2>3, <2>5
    <3>2. PICK k \in DOMAIN plugins : Called(other, k)
      BY <1>9, <3>1 DEF Lists, Knows
    <3>3. k # i
      BY <3>1, <3>2 DEF Called, name
    <3> QED
      BY <1>4, <1>5, <3>2, <3>3 DEF Called
  <2>6. Knows'
    BY <1>9, <2>4, <2>5 DEF Knows, Called
  <2> QED
    BY <1>6, <1>7, <2>3, <2>6 DEF Lists
<1> QED
  BY <1>8, <1>9

LEMMA ListStands ==
    ASSUME Lists, UNCHANGED <<plugins, known, phase>>,
           tried \subseteq tried', tried' \subseteq Path
    PROVE  Lists'
<1>1. Sole'
  BY DEF Lists, Sole
<1>2. Knows'
  BY DEF Lists, Knows, Called, Names
<1>3. AllTried'
  BY DEF Lists, AllTried
<1> QED
  BY <1>1, <1>2, <1>3 DEF Lists

\* A request that was answered.
LEMMA Answered ==
    ASSUME MInv, IInv', Lists', NEW status \in {200, 400, 404, 500}, Answer(status),
           tried \subseteq tried', phase' = "up",
           ~Taking' => factories'[HttpKey] = factories[HttpKey]
    PROVE  MInv'
<1>1. ~Taking' => ~Taking
  BY DEF Taking
<1>2. ~Taking' => factories'[HttpKey] = Own
  BY <1>1 DEF MInv
<1>3. ~Taking' => There(factories[HttpKey], lib') /\ There(factories'[HttpKey], lib')
  BY <1>1, <1>2, OwnIsThere DEF MInv
<1>4. alive' \in BOOLEAN
  BY DEF Answer
<1>5. /\ answer' = status
      /\ alive' = (/\ There(factories[HttpKey], lib')
                   /\ status = 500 => There(factories'[HttpKey], lib'))
  BY DEF Answer
<1>6. ~alive' => OutlivesOthers'
  BY <1>3, <1>5 DEF OutlivesOthers, Taking
<1> QED
  BY <1>2, <1>4, <1>5, <1>6 DEF MInv

\* What changes nothing that the monitor can see of the plugins.
LEMMA Idle ==
    ASSUME MInv, IInv', UNCHANGED <<plugins, factories, phase, known, tried>>,
           alive' \in BOOLEAN, answer' \in {200, 400, 404, 500, None},
           ~alive' => phase = "up" /\ OutlivesOthers'
    PROVE  MInv'
<1>1. Lists'
  BY ListStands DEF MInv, Lists
<1>2. ~Taking' => factories'[HttpKey] = Own
  BY DEF MInv, Taking
<1> QED
  BY <1>1, <1>2 DEF MInv

\* So is one that ends the process.
LEMMA Ends ==
    ASSUME MInv, IInv', UNCHANGED <<plugins, factories, phase, known, tried, answer>>,
           alive' = FALSE, phase = "up", OutlivesOthers'
    PROVE  MInv'
<1>1. alive' \in BOOLEAN
  OBVIOUS
<1>2. answer' \in {200, 400, 404, 500, None}
  BY DEF MInv
<1>3. UNCHANGED <<plugins, factories, phase, known, tried>>
  OBVIOUS
<1> QED
  BY <1>1, <1>2, <1>3, Idle

LEMMA PostKeeps ==
    ASSUME MInv, IInv', NEW name \in Name, NEW p \in Path, Post(name, p)
    PROVE  MInv'
<1>1. plugins \in Seq(Entry) /\ Lists /\ IInv
  BY DEF MInv, IInv, TypeOK
<1>2. CASE Taken(name) /\ Answer(404) /\ UNCHANGED <<known, tried>>
  <2>1. UNCHANGED <<plugins, factories, phase>> /\ phase = "up"
    BY <1>2 DEF Taken, Up
  <2>2. Lists'
    BY <1>1, <1>2, <2>1, ListStands DEF Lists
  <2> QED
    BY <1>2, <2>1, <2>2, Answered
<1>3. CASE /\ Load(name, p) /\ Answer(Failure)
           /\ IF Failure = 200 THEN Learns(name, p) ELSE UNCHANGED known
           /\ tried' = tried \cup {p}
  <2>1. /\ phase = "up" /\ phase' = "up" /\ FindsNone(name)
        /\ \/ /\ last' = "true"
              /\ plugins' = Append(plugins, [name |-> name, path |-> p, live |-> TRUE])
           \/ last' = "throw" /\ plugins' = plugins
        /\ KeyOf[p] # HttpKey => factories'[HttpKey] = factories[HttpKey]
    BY <1>1, <1>3, LoadLeaves
  <2>2. Lists'
    <3>1. CASE last' = "true"
      BY <1>1, <1>3, <2>1, <3>1, ListLoaded DEF Failure, Learns
    <3>2. CASE last' = "throw"
      BY <1>1, <1>3, <2>1, <3>2, ListStands DEF Failure, Lists
    <3> QED
      BY <2>1, <3>1, <3>2
  <2>3. ~Taking' => factories'[HttpKey] = factories[HttpKey]
    BY <1>3, <2>1 DEF Taking
  <2>4. Failure \in {200, 400, 404, 500}
    BY DEF Failure
  <2> QED
    BY <1>3, <2>1, <2>2, <2>3, <2>4, Answered
<1> QED
  BY <1>2, <1>3 DEF Post

LEMMA PutKeeps ==
    ASSUME MInv, IInv', NEW name \in Name, NEW p \in Path, Put(name, p)
    PROVE  MInv'
<1>1. plugins \in Seq(Entry) /\ Lists /\ IInv
  BY DEF MInv, IInv, TypeOK
<1>2. CASE NotFound(name) /\ Answer(404) /\ UNCHANGED <<known, tried>>
  <2>1. UNCHANGED <<plugins, factories, phase>> /\ phase = "up"
    BY <1>2 DEF NotFound, Up
  <2>2. Lists'
    BY <1>1, <1>2, <2>1, ListStands DEF Lists
  <2> QED
    BY <1>2, <2>1, <2>2, Answered
<1>3. CASE /\ Reload(name, p) /\ Answer(Failure)
           /\ Learns(name, IF Failure = 200 THEN p ELSE None)
           /\ tried' = tried \cup {p}
  <2>1. phase = "up" /\ phase' = "up"
    BY <1>1, <1>3, ReloadLeaves
  <2>2. PICK i \in DOMAIN plugins :
          /\ Called(name, i)
          /\ \/ last' = "true" /\ plugins' = [plugins EXCEPT ![i] =
                                                 [plugins[i] EXCEPT !.path = p]]
             \/ last' = "throw" /\ plugins' = [plugins EXCEPT ![i] =
                                                 [plugins[i] EXCEPT !.live = FALSE]]
          /\ KeyOf[p] # HttpKey /\ KeyOf[plugins[i].path] # HttpKey =>
                factories'[HttpKey] = factories[HttpKey]
    BY <1>1, <1>3, ReloadLeaves
  <2>3. \/ /\ plugins' = [plugins EXCEPT ![i] = [plugins[i] EXCEPT !.path = p]]
           /\ known' = [known EXCEPT ![name] = p]
        \/ /\ plugins' = [plugins EXCEPT ![i] = [plugins[i] EXCEPT !.live = FALSE]]
           /\ known' = [known EXCEPT ![name] = None]
    <3>1. last' = "true" => known' = [known EXCEPT ![name] = p]
      BY <1>3 DEF Failure, Learns
    <3>2. last' = "throw" => known' = [known EXCEPT ![name] = None]
      BY <1>3 DEF Failure, Learns
    <3> QED
      BY <2>2, <3>1, <3>2, Zenon
  <2>4. Lists'
    BY <1>1, <1>3, <2>1, <2>2, <2>3, ListReloaded
  <2>5. ~Taking' => factories'[HttpKey] = factories[HttpKey]
    BY <1>1, <1>3, <2>2 DEF Taking, Lists, AllTried
  <2>6. Failure \in {200, 400, 404, 500}
    BY DEF Failure
  <2> QED
    BY <1>3, <2>1, <2>4, <2>5, <2>6, Answered
<1> QED
  BY <1>2, <1>3 DEF Put

LEMMA DeleteKeeps ==
    ASSUME MInv, IInv', NEW name \in Name, Delete(name)
    PROVE  MInv'
<1>1. plugins \in Seq(Entry) /\ Lists /\ IInv /\ tried' = tried
  BY DEF MInv, IInv, TypeOK, Delete
<1>2. CASE NotFound(name) /\ Answer(404) /\ UNCHANGED known
  <2>1. UNCHANGED <<plugins, factories, phase>> /\ phase = "up"
    BY <1>2 DEF NotFound, Up
  <2>2. Lists'
    BY <1>1, <1>2, <2>1, ListStands DEF Lists
  <2> QED
    BY <1>1, <1>2, <2>1, <2>2, Answered
<1>3. CASE Unload(name) /\ Answer(200) /\ Learns(name, None)
  <2>1. phase = "up" /\ phase' = "up"
    BY <1>3 DEF Unload, Up
  <2>2. PICK i \in DOMAIN plugins :
          Called(name, i) /\ Released(plugins[i]) /\ plugins' = Without(i)
    BY <1>3 DEF Unload, Finds
  <2>3. /\ plugins' \in Seq(Entry) /\ Len(plugins') = Len(plugins) - 1
        /\ \A j \in 1..Len(plugins') : plugins'[j] = plugins[IF j < i THEN j ELSE j + 1]
    BY <1>1, <2>2, WithoutIsShorter
  <2>4. plugins[i].live /\ known' = [known EXCEPT ![plugins[i].name] = None]
    BY <1>3, <2>2 DEF Called, Learns
  <2>5. Lists'
    BY <1>1, <2>1, <2>3, <2>4, ListShorter
  <2>6. ~Taking' => factories'[HttpKey] = factories[HttpKey]
    BY <1>1, <2>2, ReleaseLeaves DEF Taking, Lists, AllTried
  <2> QED
    BY <1>1, <1>3, <2>1, <2>5, <2>6, Answered
<1> QED
  BY <1>2, <1>3 DEF Delete

\* get meets a null plugin only if there is one: a name is found otherwise.
LEMMA DiesKeeps ==
    ASSUME MInv, IInv', NEW name \in Name, Dies(name)
    PROVE  MInv'
<1>1. /\ UNCHANGED <<plugins, factories, phase, known, tried, answer>>
      /\ phase = "up" /\ alive' = FALSE
  BY DEF Dies, Crash, Up
<1>2. \E i \in DOMAIN plugins : ~plugins[i].live
  <2> SUFFICES ASSUME \A i \in DOMAIN plugins : plugins[i].live PROVE FALSE
    OBVIOUS
  <2>1. PICK i \in DOMAIN plugins : Called(name, i)
    BY DEF Dies, Crash, FindsNone
  <2>2. plugins \in Seq(Entry)
    BY DEF MInv, IInv, TypeOK
  <2>3. \A j \in 1..(i - 1) : j \in DOMAIN plugins /\ j # i
    BY <2>2
  <2>4. Finds(name, i)
    BY <2>1, <2>3 DEF Finds, Called, MInv, Lists, Sole
  <2> QED
    BY <2>4 DEF Dies, Crash
<1>3. OutlivesOthers'
  BY <1>1, <1>2 DEF OutlivesOthers
<1> QED
  BY <1>1, <1>3, Ends

LEMMA DirectlyKeeps ==
    ASSUME MInv, IInv', NEW name \in Name, NEW p \in Path, Directly(name, p)
    PROVE  MInv'
<1>1. /\ plugins \in Seq(Entry) /\ Lists /\ IInv /\ Load(name, p)
      /\ alive /\ UNCHANGED <<answer, alive>> /\ tried' = tried \cup {p}
  BY DEF MInv, IInv, TypeOK, Directly
<1>2. /\ phase = "up" /\ phase' = "up" /\ FindsNone(name)
      /\ \/ /\ last' = "true"
            /\ plugins' = Append(plugins, [name |-> name, path |-> p, live |-> TRUE])
         \/ last' = "throw" /\ plugins' = plugins
      /\ KeyOf[p] # HttpKey => factories'[HttpKey] = factories[HttpKey]
  BY <1>1, LoadLeaves
<1>3. Lists'
  <2>1. CASE last' = "true"
    BY <1>1, <1>2, <2>1, ListLoaded DEF Directly, Learns
  <2>2. CASE last' = "throw"
    BY <1>1, <1>2, <2>2, ListStands DEF Directly, Lists
  <2> QED
    BY <1>2, <2>1, <2>2
<1>4. ~Taking' => factories'[HttpKey] = Own
  BY <1>1, <1>2 DEF Taking, MInv
<1> QED
  BY <1>1, <1>3, <1>4 DEF MInv

LEMMA ReleasingKeeps ==
    ASSUME MInv, IInv', Releasing
    PROVE  MInv'
<1>1. /\ plugins \in Seq(Entry) /\ Lists /\ IInv /\ UNCHANGED monVars
      /\ alive /\ phase # "up"
  BY DEF MInv, IInv, TypeOK, Releasing, Clear, PopBack
<1>2. CASE Clear /\ plugins = <<>>
  <2>1. phase' = "up" /\ UNCHANGED <<plugins, factories>>
    BY <1>2 DEF Clear
  <2>2. Lists'
    BY <1>1, <1>2, <2>1 DEF Lists, Sole, Knows, AllTried, monVars, Names
  <2>3. ~Taking' => factories'[HttpKey] = Own
    BY <1>1, <2>1 DEF MInv, Taking, monVars
  <2> QED
    BY <1>1, <2>2, <2>3 DEF MInv, monVars
<1>3. ASSUME NEW i \in DOMAIN plugins, Released(plugins[i]), phase' = phase,
             plugins' \in Seq(Entry), Len(plugins') = Len(plugins) - 1,
             \A j \in 1..Len(plugins') : plugins'[j] = plugins[IF j < i THEN j ELSE j + 1]
      PROVE  MInv'
  <2>1. tried' = tried /\ known' = known /\ alive' = alive /\ answer' = answer
    BY <1>1 DEF monVars
  <2>2. Lists'
    BY <1>1, <1>3, <2>1, ListShorter
  <2>3. ~Taking => KeyOf[plugins[i].path] # HttpKey
    BY <1>1 DEF Taking, Lists, AllTried
  <2>4. ~Taking' => factories'[HttpKey] = Own
    BY <1>1, <1>3, <2>1, <2>3, ReleaseLeaves DEF MInv, Taking
  <2> QED
    BY <1>1, <2>1, <2>2, <2>4 DEF MInv
<1>4. CASE Clear /\ plugins # <<>>
  <2>1. Released(plugins[1]) /\ plugins' = Tail(plugins) /\ phase' = phase
    BY <1>4 DEF Clear
  <2>2. 1 \in DOMAIN plugins
    BY <1>1, <1>4
  <2>3. /\ plugins' \in Seq(Entry) /\ Len(plugins') = Len(plugins) - 1
        /\ \A j \in 1..Len(plugins') : plugins'[j] = plugins[j + 1]
    BY <1>1, <1>4, <2>1, HeadTailProperties
  <2>4. \A j \in 1..Len(plugins') : plugins'[j] = plugins[IF j < 1 THEN j ELSE j + 1]
    BY <2>3
  <2> QED
    BY <1>3, <2>1, <2>2, <2>3, <2>4
<1>5. CASE PopBack
  <2> DEFINE n == Len(plugins)
  <2>1. n \in DOMAIN plugins /\ Released(plugins[n]) /\ plugins' = Without(n) /\ phase' = phase
    BY <1>1, <1>5 DEF PopBack
  <2> HIDE DEF n
  <2>2. /\ plugins' \in Seq(Entry) /\ Len(plugins') = Len(plugins) - 1
        /\ \A j \in 1..Len(plugins') : plugins'[j] = plugins[IF j < n THEN j ELSE j + 1]
    BY <1>1, <2>1, WithoutIsShorter
  <2> QED
    BY <1>3, <2>1, <2>2
<1> QED
  BY <1>2, <1>4, <1>5 DEF Releasing

LEMMA MonitorKeeps ==
    ASSUME MInv, [MonitorNext]_<<vars, monVars>>
    PROVE  MInv'
<1>1. IInv'
  BY MonitorStep, StepSound DEF MInv
<1>2. CASE BadRequest \/ Unhandled
  <2>1. /\ UNCHANGED <<plugins, factories, phase, known, tried, alive>> /\ alive
        /\ answer' \in {200, 400, 404, 500, None}
    BY <1>2 DEF BadRequest, Unhandled, Begins, vars
  <2>2. alive' \in BOOLEAN /\ alive'
    BY <2>1 DEF MInv
  <2> QED
    BY <1>1, <2>1, <2>2, Idle
<1>3. CASE Lost
  <2>1. /\ UNCHANGED <<plugins, factories, phase, known, tried, answer>>
        /\ alive' = FALSE /\ phase = "up"
    BY <1>3 DEF Lost, Up, vars
  <2>2. Taking
    BY <1>3, OwnIsThere DEF Lost, MInv
  <2>3. OutlivesOthers'
    BY <2>1, <2>2 DEF OutlivesOthers, Taking
  <2> QED
    BY <1>1, <2>1, <2>3, Ends
<1>4. CASE DirectlyAll
  <2>1. /\ UNCHANGED <<plugins, factories, tried, answer, alive>> /\ alive
        /\ phase' # "up" /\ known' = Names(None)
    BY <1>4 DEF DirectlyAll, UnloadAll, Exit
  <2>2. known' \in [Name -> Path \cup {None}]
    BY <2>1 DEF Names
  <2>3. Lists'
    BY <2>1, <2>2 DEF MInv, Lists, Sole, Knows, AllTried, Names
  <2>4. ~Taking' => factories'[HttpKey] = Own
    BY <2>1 DEF MInv, Taking
  <2> QED
    BY <1>1, <2>1, <2>3, <2>4 DEF MInv
<1>5. CASE UNCHANGED <<vars, monVars>>
  <2>1. UNCHANGED <<plugins, factories, phase, known, tried, answer, alive>>
    BY <1>5 DEF vars, monVars
  <2>2. OutlivesOthers => OutlivesOthers'
    BY <2>1 DEF OutlivesOthers
  <2> QED
    BY <1>1, <2>1, <2>2, Idle DEF MInv
<1> QED
  BY <1>1, <1>2, <1>3, <1>4, <1>5, PostKeeps, PutKeeps, DeleteKeeps, DiesKeeps,
     DirectlyKeeps, ReleasingKeeps DEF MonitorNext

LEMMA MonitorInitSound ==
    MonitorInit => MInv
<1> SUFFICES ASSUME MonitorInit PROVE MInv
  OBVIOUS
<1>1. IInv /\ plugins = <<>> /\ phase = "up"
  BY InitSound DEF MonitorInit, Init
<1>2. known = Names(None) /\ tried = {} /\ answer = None /\ alive = TRUE
  BY DEF MonitorInit
<1>3. Lists
  BY <1>1, <1>2 DEF Lists, Sole, Knows, AllTried, Names
<1>4. factories[HttpKey] = Own
  BY MonitorLibraries DEF MonitorInit
<1> QED
  BY <1>1, <1>2, <1>3, <1>4 DEF MInv

\* What Application and the loaders have, and what the requests answered about
\* it, agree in every state.
THEOREM MonitorInductive ==
    MonitorSpec => []MInv
<1>1. MInv /\ [MonitorNext]_<<vars, monVars>> => MInv'
  BY MonitorKeeps
<1> QED
  BY <1>1, MonitorInitSound, PTL DEF MonitorSpec

\* The monitor's state is of its types.
THEOREM TypeCorrect ==
    MonitorSpec => []MonitorTypeOK
<1>1. MInv => MonitorTypeOK
  BY DEF MInv, IInv, Lists, MonitorTypeOK
<1> QED
  BY <1>1, MonitorInductive, PTL

\* Who keeps the statuses knows what is loaded, whatever failed on the way.
THEOREM StatusesTell ==
    MonitorSpec => []AnswersTell
<1>1. MInv => AnswersTell
  <2> SUFFICES ASSUME MInv, phase = "up", NEW name \in Name
               PROVE  {plugins[i].path : i \in {i \in DOMAIN plugins : Called(name, i)}}
                          = {known[name]} \ {None}
    BY DEF AnswersTell
  <2>1. Knows /\ plugins \in Seq(Entry)
    BY DEF MInv, Lists, IInv, TypeOK
  <2>2. \A i \in DOMAIN plugins : Called(name, i) =>
            plugins[i].path = known[name] /\ known[name] # None
    BY <2>1, EntryOf, NoneIsNoObject DEF Knows, Called
  <2>3. known[name] # None => \E i \in DOMAIN plugins : Called(name, i)
    BY <2>1 DEF Knows
  <2> QED
    BY <2>2, <2>3
<1> QED
  BY <1>1, MonitorInductive, PTL

\* Only a failed reload and libraries of its own kind end the monitor.
THEOREM OthersDoNotEndIt ==
    MonitorSpec => []OutlivesOthers
<1>1. MInv => OutlivesOthers
  BY DEF MInv, OutlivesOthers
<1> QED
  BY <1>1, MonitorInductive, PTL

=============================================================================
