-------------------------- MODULE HttpToFixProofs --------------------------
(***************************************************************************)
(* Proofs about HttpToFix, for any tables of fields, any sessions, any      *)
(* requests and any responses: what the two copies make of a message, by    *)
(* induction along its members or the table's tags, and what becomes of the *)
(* requests of a connection.                                                *)
(***************************************************************************)
EXTENDS HttpToFix, WellFoundedInduction, TLAPS

-----------------------------------------------------------------------------
\* What holds of 0, and of n + 1 where it holds of n, holds of every number.
LEMMA Upwards ==
    ASSUME NEW P, 0 \in P, \A n \in Nat : n \in P => n + 1 \in P
    PROVE  \A n \in Nat : n \in P
<1> SUFFICES ASSUME NEW m \in Nat, m \notin P PROVE FALSE
  OBVIOUS
<1> DEFINE R == {ss \in Nat \X Nat : ss[1] < ss[2]}
           T == Nat \ P
<1>1. IsWellFoundedOn(R, Nat)
  BY NatLessThanWellFounded DEF OpToRel
<1>2. T \subseteq Nat /\ T # {}
  OBVIOUS
<1> HIDE DEF R, T
<1>3. PICK x \in T : \A y \in T : ~ (<<y, x>> \in R)
  BY <1>1, <1>2, WFMin
<1>4. x \in Nat /\ x \notin P
  BY DEF T
<1>5. x - 1 \in Nat /\ x = (x - 1) + 1
  BY <1>4
<1>6. x - 1 \in T
  BY <1>4, <1>5 DEF T
<1>7. <<x - 1, x>> \in R
  BY <1>4, <1>5 DEF R
<1> QED
  BY <1>3, <1>6, <1>7

\* And so along the numbers up to one.
LEMMA UpTo ==
    ASSUME NEW n \in Nat, NEW P, 0 \in P, \A k \in Nat : k + 1 <= n /\ k \in P => k + 1 \in P
    PROVE  n \in P
<1> DEFINE Q == {k \in Nat : k <= n => k \in P}
<1>1. 0 \in Q
  OBVIOUS
<1>2. ASSUME NEW k \in Nat, k \in Q PROVE k + 1 \in Q
  BY <1>2
<1> HIDE DEF Q
<1>3. n \in Q
  BY <1>1, <1>2, Upwards
<1> QED
  BY <1>3 DEF Q

\* Every set of places of a sequence has a last one.
LEMMA LastPlace ==
    ASSUME NEW n \in Nat, NEW s \in SUBSET (1..n), s # {}
    PROVE  Max(s) \in s /\ \A i \in s : i <= Max(s)
<1> DEFINE P == {m \in Nat : \A q \in SUBSET (1..m) : q # {} => \E x \in q : \A y \in q : x >= y}
<1>1. 0 \in P
  <2>1. \A q \in SUBSET (1..0) : q = {}
    OBVIOUS
  <2> QED
    BY <2>1
<1>2. ASSUME NEW m \in Nat, m \in P PROVE m + 1 \in P
  <2> SUFFICES ASSUME NEW q \in SUBSET (1..(m + 1)), q # {}
               PROVE  \E x \in q : \A y \in q : x >= y
    OBVIOUS
  <2>1. CASE m + 1 \in q
    BY <2>1
  <2>2. CASE m + 1 \notin q
    <3>1. q \in SUBSET (1..m)
      BY <2>2
    <3> QED
      BY <1>2, <3>1
  <2> QED
    BY <2>1, <2>2
<1> HIDE DEF P
<1>3. n \in P
  BY <1>1, <1>2, Upwards
<1>4. \E x \in s : \A y \in s : x >= y
  BY <1>3 DEF P
<1>5. \A x \in s : x \in Nat
  OBVIOUS
<1>6. Max(s) \in s /\ \A y \in s : Max(s) >= y
  BY <1>4 DEF Max
<1> QED
  BY <1>5, <1>6

\* The last place of a prefix.
LEMMA LastOfPrefix ==
    ASSUME NEW k \in Nat, k # 0
    PROVE  Max(1..k) = k
<1>1. 1..k \in SUBSET (1..k) /\ k \in 1..k
  OBVIOUS
<1> HIDE DEF Max
<1>2. Max(1..k) \in 1..k /\ k <= Max(1..k)
  BY <1>1, LastPlace
<1> QED
  BY <1>2

StepIn(step, n, V) == step \in [V \X (1..n) -> V]

\* A step that is taken at the places 1 to n, from the first to the last.
Iteration(g, n, base, step) ==
    \A s \in SUBSET (1..n) :
        g[s] = IF s = {} THEN base ELSE step[<<g[s \ {Max(s)}], Max(s)>>]

\* One that stays in a set can be taken.
LEMMA Iterates ==
    ASSUME NEW n \in Nat, NEW V, NEW base \in V, NEW step, StepIn(step, n, V)
    PROVE  \E g \in [SUBSET (1..n) -> V] : Iteration(g, n, base, step)
<1> DEFINE Can(m) == m <= n => \E g \in [SUBSET (1..m) -> V] : Iteration(g, m, base, step)
<1>1. Can(0)
  <2>1. [s \in SUBSET (1..0) |-> base] \in [SUBSET (1..0) -> V]
    OBVIOUS
  <2>2. \A s \in SUBSET (1..0) : s = {}
    OBVIOUS
  <2>3. Iteration([s \in SUBSET (1..0) |-> base], 0, base, step)
    BY <2>2 DEF Iteration
  <2> QED
    BY <2>1, <2>3
<1>2. ASSUME NEW m \in Nat, Can(m) PROVE Can(m + 1)
  <2> SUFFICES ASSUME m + 1 <= n
               PROVE  \E g \in [SUBSET (1..(m + 1)) -> V] : Iteration(g, m + 1, base, step)
    OBVIOUS
  <2>0. m <= n
    OBVIOUS
  <2>1. PICK g \in [SUBSET (1..m) -> V] : Iteration(g, m, base, step)
    BY <1>2, <2>0, Zenon
  <2> DEFINE h == [s \in SUBSET (1..(m + 1)) |->
                     IF m + 1 \in s THEN step[<<g[s \ {m + 1}], m + 1>>] ELSE g[s]]
  <2>2. ASSUME NEW s \in SUBSET (1..(m + 1)), m + 1 \in s
        PROVE  /\ s \ {m + 1} \in SUBSET (1..m) /\ Max(s) = m + 1
               /\ h[s] = step[<<g[s \ {m + 1}], m + 1>>] /\ h[s] \in V
    <3>1. s \ {m + 1} \in SUBSET (1..m)
      OBVIOUS
    <3>2. Max(s) \in s /\ \A i \in s : i <= Max(s)
      <4>1. m + 1 \in Nat /\ s # {}
        BY <2>2
      <4> HIDE DEF h
      <4> QED
        BY <4>1, LastPlace
    <3>3. Max(s) = m + 1
      <4>1. Max(s) \in 1..(m + 1)
        BY <3>2
      <4>2. m + 1 <= Max(s)
        BY <2>2, <3>2
      <4> QED
        BY <4>1, <4>2
    <3>4. g[s \ {m + 1}] \in V /\ m + 1 \in 1..n
      BY <3>1
    <3>5. step[<<g[s \ {m + 1}], m + 1>>] \in V
      BY <3>4 DEF StepIn
    <3> QED
      BY <2>2, <3>1, <3>3, <3>5
  <2>3. ASSUME NEW s \in SUBSET (1..(m + 1)), m + 1 \notin s
        PROVE  s \in SUBSET (1..m) /\ h[s] = g[s] /\ h[s] \in V
    <3>1. s \in SUBSET (1..m)
      BY <2>3
    <3> QED
      BY <2>3, <3>1
  <2>4. h \in [SUBSET (1..(m + 1)) -> V]
    BY <2>2, <2>3
  <2> HIDE DEF h
  <2>5. ASSUME NEW s \in SUBSET (1..(m + 1))
        PROVE  h[s] = IF s = {} THEN base ELSE step[<<h[s \ {Max(s)}], Max(s)>>]
    <3>1. CASE m + 1 \in s
      <4>1. m + 1 \notin s \ {m + 1} /\ s \ {m + 1} \in SUBSET (1..(m + 1))
        OBVIOUS
      <4>2. h[s \ {m + 1}] = g[s \ {m + 1}]
        BY <2>3, <4>1
      <4> QED
        BY <2>2, <3>1, <4>2
    <3>2. CASE m + 1 \notin s /\ s # {}
      <4>1. s \in SUBSET (1..m) /\ h[s] = g[s]
        BY <2>3, <3>2
      <4>2. Max(s) \in s
        BY <3>2, <4>1, LastPlace
      <4>3. h[s \ {Max(s)}] = g[s \ {Max(s)}]
        <5>1. m + 1 \notin s \ {Max(s)} /\ s \ {Max(s)} \in SUBSET (1..(m + 1))
          BY <3>2
        <5> QED
          BY <2>3, <5>1
      <4> QED
        BY <2>1, <3>2, <4>1, <4>3 DEF Iteration
    <3>3. CASE s = {}
      <4>1. h[s] = g[s] /\ s \in SUBSET (1..m)
        BY <2>3, <3>3
      <4> QED
        BY <2>1, <3>3, <4>1 DEF Iteration
    <3> QED
      BY <3>1, <3>2, <3>3
  <2> QED
    BY <2>4, <2>5 DEF Iteration
<1>3. Can(n)
  <2> HIDE DEF Can
  <2> DEFINE P == {m \in Nat : Can(m)}
  <2>1. 0 \in P /\ \A m \in Nat : m \in P => m + 1 \in P
    BY <1>1, <1>2
  <2> HIDE DEF P
  <2>2. n \in P
    BY <2>1, Upwards
  <2> QED
    BY <2>2 DEF P
<1>4. n <= n
  OBVIOUS
<1> QED
  BY <1>3, <1>4, Zenon

\* What takes such a step wherever it is in the set before it.
Follows(it, n, V, base, step) ==
    /\ it[{}] = base
    /\ \A s \in SUBSET (1..n) : s # {} /\ it[s \ {Max(s)}] \in V
          => it[s] = step[<<it[s \ {Max(s)}], Max(s)>>]

Along(f, it, n, V, base, step) ==
    /\ f \in [0..n -> V]
    /\ f[0] = base
    /\ f[n] = it[1..n]
    /\ \A i \in 1..n : f[i] = step[<<f[i - 1], i>>]

\* It goes along the places, and stays in the set.
LEMMA GoesAlong ==
    ASSUME NEW n \in Nat, NEW V, NEW base \in V, NEW step, StepIn(step, n, V),
           NEW it, Follows(it, n, V, base, step)
    PROVE  \E f : Along(f, it, n, V, base, step)
<1>1. ASSUME NEW k \in Nat, k + 1 <= n, it[1..k] \in V
      PROVE  it[1..(k + 1)] = step[<<it[1..k], k + 1>>] /\ it[1..(k + 1)] \in V
  <2>1. Max(1..(k + 1)) = k + 1
    BY LastOfPrefix
  <2>2. 1..(k + 1) \in SUBSET (1..n) /\ k + 1 \in 1..n
    BY <1>1
  <2>3. 1..(k + 1) # {} /\ (1..(k + 1)) \ {k + 1} = 1..k
    OBVIOUS
  <2>4. it[1..(k + 1)] = step[<<it[1..k], k + 1>>]
    BY <1>1, <2>1, <2>2, <2>3 DEF Follows
  <2> QED
    BY <1>1, <2>2, <2>4 DEF StepIn
<1>2. ASSUME NEW k \in 0..n PROVE it[1..k] \in V
  <2> DEFINE P == {j \in Nat : it[1..j] \in V}
  <2>1. 0 \in P
    <3>1. 1..0 = {}
      OBVIOUS
    <3> QED
      BY <3>1 DEF Follows
  <2>2. ASSUME NEW j \in Nat, j + 1 <= k, j \in P PROVE j + 1 \in P
    <3>1. j + 1 <= n /\ j + 1 \in Nat
      BY <2>2
    <3>2. it[1..(j + 1)] \in V
      BY <1>1, <2>2, <3>1
    <3> QED
      BY <3>1, <3>2
  <2> HIDE DEF P
  <2>3. k \in P
    BY <2>1, <2>2, UpTo
  <2> QED
    BY <2>3 DEF P
<1> DEFINE f == [k \in 0..n |-> it[1..k]]
<1>3. f \in [0..n -> V]
  BY <1>2
<1>4. f[0] = base
  <2>1. 1..0 = {} /\ 0 \in 0..n
    OBVIOUS
  <2> QED
    BY <2>1 DEF Follows
<1>5. f[n] = it[1..n]
  OBVIOUS
<1>6. ASSUME NEW i \in 1..n PROVE f[i] = step[<<f[i - 1], i>>]
  <2>1. i - 1 \in Nat /\ i - 1 \in 0..n /\ i \in 0..n /\ (i - 1) + 1 = i
    OBVIOUS
  <2>2. it[1..(i - 1)] \in V
    BY <1>2, <2>1
  <2>3. it[1..i] = step[<<it[1..(i - 1)], i>>]
    BY <1>1, <2>1, <2>2
  <2> QED
    BY <2>1, <2>3
<1> HIDE DEF f
<1> QED
  BY <1>3, <1>4, <1>5, <1>6 DEF Along

-----------------------------------------------------------------------------
\* A member that is set in a FIX message.
Typed(m) == JsonType(m.value) # "unknown"

LEMMA PutIs ==
    ASSUME NEW fields \in Fields, NEW m \in Member
    PROVE  /\ Put(fields, m) \in Fields
           /\ Typed(m) /\ m.name \in Name => Put(fields, m) = With(fields, m.name, m.value.text)
           /\ ~(Typed(m) /\ m.name \in Name) => Put(fields, m) = fields
<1>1. ~(Typed(m) /\ m.name \in Name) => Put(fields, m) = fields
  BY DEF Put, JsonMember, FixSet, Typed
<1>2. CASE Typed(m) /\ m.name \in Name
  <2>1. Put(fields, m) = With(fields, m.name, m.value.text)
    BY <1>2 DEF Put, JsonMember, FixSet, Typed
  <2>2. m.value.text \in Text
    BY <1>2 DEF Typed, JsonType, Member
  <2>3. PICK names \in SUBSET Name : fields \in [names -> Text]
    BY DEF Fields
  <2>4. /\ names \cup {m.name} \in SUBSET Name
        /\ With(fields, m.name, m.value.text) \in [names \cup {m.name} -> Text]
    BY <1>2, <2>2, <2>3 DEF With
  <2>5. Put(fields, m) \in Fields
    BY <2>1, <2>4 DEF Fields
  <2> QED
    BY <1>2, <2>1, <2>5
<1> QED
  BY <1>1, <1>2

\* The fold that copies a JSON object, member by member.
LEMMA CopyIntoFixSteps ==
    ASSUME NEW object \in Seq(Member)
    PROVE  \E f \in [0..Len(object) -> Fields] :
              /\ f[0] = NoFields
              /\ f[Len(object)] = CopyIntoFix(object)
              /\ (\A i \in 1..Len(object) : f[i] = Put(f[i - 1], object[i]))
<1>0. PICK n \in Nat : n = Len(object) /\ 1..n = DOMAIN object
  OBVIOUS
<1> DEFINE step == [vi \in Fields \X (1..n) |-> Put(vi[1], object[vi[2]])]
           Is(g) == g = [s \in SUBSET (1..n) |-> IF s = {} THEN NoFields
                            ELSE Put(g[s \ {Max(s)}], object[Max(s)])]
<1>1. NoFields \in Fields
  <2>1. NoFields \in [{} -> Text]
    BY DEF NoFields
  <2> QED
    BY <2>1 DEF Fields
<1>2. \A i \in 1..n : object[i] \in Member
  BY <1>0
<1>3. StepIn(step, n, Fields)
  BY <1>2, PutIs DEF StepIn
<1>4. \A v \in Fields, i \in 1..n : step[<<v, i>>] = Put(v, object[i])
  OBVIOUS
<1> HIDE DEF step
<1>5. \E g : Is(g)
  <2>1. PICK g \in [SUBSET (1..n) -> Fields] : Iteration(g, n, NoFields, step)
    BY <1>1, <1>3, Iterates
  <2>2. ASSUME NEW s \in SUBSET (1..n), s # {}
        PROVE  g[s] = Put(g[s \ {Max(s)}], object[Max(s)])
    <3>1. Max(s) \in 1..n
      BY <2>2, LastPlace
    <3>2. g[s \ {Max(s)}] \in Fields
      OBVIOUS
    <3>3. g[s] = step[<<g[s \ {Max(s)}], Max(s)>>]
      BY <2>1, <2>2 DEF Iteration
    <3> QED
      BY <1>4, <3>1, <3>2, <3>3
  <2>3. g[{}] = NoFields
    BY <2>1 DEF Iteration
  <2> QED
    BY <2>2, <2>3
<1>6. PICK it : Is(it) /\ CopyIntoFix(object) = it[1..n]
  <2>1. CopyIntoFix(object) = (CHOOSE g : Is(g))[1..n]
    BY <1>0 DEF CopyIntoFix, FoldLeft, MapThenFoldSet
  <2> HIDE DEF Is
  <2> QED
    BY <1>5, <2>1
<1>7. it[{}] = NoFields
  <2>1. {} \in SUBSET (1..n)
    OBVIOUS
  <2> QED
    BY <1>6, <2>1
<1>8. Follows(it, n, Fields, NoFields, step)
  <2>1. ASSUME NEW s \in SUBSET (1..n), s # {}, it[s \ {Max(s)}] \in Fields
        PROVE  it[s] = step[<<it[s \ {Max(s)}], Max(s)>>]
    <3>1. Max(s) \in 1..n
      BY <2>1, LastPlace
    <3>2. it[s] = Put(it[s \ {Max(s)}], object[Max(s)])
      BY <1>6, <2>1
    <3> QED
      BY <1>4, <2>1, <3>1, <3>2
  <2> QED
    BY <1>7, <2>1 DEF Follows
<1>9. PICK f : Along(f, it, n, Fields, NoFields, step)
  BY <1>1, <1>3, <1>8, GoesAlong
<1>10. ASSUME NEW i \in 1..n PROVE f[i] = Put(f[i - 1], object[i])
  <2>1. f[i - 1] \in Fields
    BY <1>9 DEF Along
  <2> QED
    BY <1>4, <1>9, <2>1 DEF Along
<1> QED
  BY <1>0, <1>6, <1>9, <1>10 DEF Along

-----------------------------------------------------------------------------
\* A member of a name that says something of it.
Speaks(m, name) == m.name = name /\ Typed(m)

\* What FIX fields have of the first k members: the last that speaks of a name.
CarriesFirst(fields, object, k) ==
    \A name \in Name :
        \/ /\ name \notin DOMAIN fields
           /\ \A j \in 1..k : ~Speaks(object[j], name)
        \/ /\ name \in DOMAIN fields
           /\ \E i \in 1..k : /\ Speaks(object[i], name)
                              /\ fields[name] = object[i].value.text
                              /\ \A j \in 1..k : Speaks(object[j], name) => j <= i

LEMMA CarriesNext ==
    ASSUME NEW k \in Nat, NEW object, NEW fields \in Fields, object[k + 1] \in Member,
           CarriesFirst(fields, object, k)
    PROVE  CarriesFirst(Put(fields, object[k + 1]), object, k + 1)
<1> DEFINE m == object[k + 1]
           more == Put(fields, m)
<1>1. \A j \in 1..(k + 1) : j \in 1..k \/ j = k + 1
  OBVIOUS
<1>2. \A j \in 1..k : j \in 1..(k + 1) /\ j <= k + 1
  OBVIOUS
<1>3. k + 1 \in 1..(k + 1)
  OBVIOUS
<1> SUFFICES ASSUME NEW name \in Name
             PROVE  \/ /\ name \notin DOMAIN more
                       /\ \A j \in 1..(k + 1) : ~Speaks(object[j], name)
                    \/ /\ name \in DOMAIN more
                       /\ \E i \in 1..(k + 1) :
                             /\ Speaks(object[i], name)
                             /\ more[name] = object[i].value.text
                             /\ \A j \in 1..(k + 1) : Speaks(object[j], name) => j <= i
  BY DEF CarriesFirst
<1>4. CASE Speaks(m, name)
  <2>1. more = With(fields, name, m.value.text)
    BY <1>4, PutIs DEF Speaks
  <2>2. name \in DOMAIN more /\ more[name] = m.value.text
    BY <2>1 DEF With
  <2>3. \A j \in 1..(k + 1) : j <= k + 1
    OBVIOUS
  <2> HIDE DEF more
  <2> QED
    BY <1>3, <1>4, <2>2, <2>3
<1>5. CASE ~Speaks(m, name)
  <2>1. \/ more = fields
        \/ m.name # name /\ more = With(fields, m.name, m.value.text)
    BY <1>5, PutIs DEF Speaks
  <2>2. /\ name \in DOMAIN more <=> name \in DOMAIN fields
        /\ name \in DOMAIN fields => more[name] = fields[name]
    BY <2>1 DEF With
  <2> HIDE DEF more
  <2>3. CASE /\ name \notin DOMAIN fields
             /\ \A j \in 1..k : ~Speaks(object[j], name)
    BY <1>1, <1>5, <2>2, <2>3
  <2>4. ASSUME NEW i \in 1..k, name \in DOMAIN fields, Speaks(object[i], name),
               fields[name] = object[i].value.text,
               \A j \in 1..k : Speaks(object[j], name) => j <= i
        PROVE  /\ name \in DOMAIN more
               /\ i \in 1..(k + 1) /\ more[name] = object[i].value.text
               /\ \A j \in 1..(k + 1) : Speaks(object[j], name) => j <= i
    BY <1>1, <1>2, <1>5, <2>2, <2>4
  <2> QED
    BY <2>3, <2>4 DEF CarriesFirst
<1> QED
  BY <1>4, <1>5

\* The copy of a JSON object says in every field what the last member of its name
\* with a type says, and has no other field.
THEOREM CopyCarries ==
    ASSUME NEW object \in Seq(Member)
    PROVE  CopyIntoFix(object) \in Fields /\ Carries(CopyIntoFix(object), object)
<1>1. PICK f \in [0..Len(object) -> Fields] :
        /\ f[0] = NoFields
        /\ f[Len(object)] = CopyIntoFix(object)
        /\ (\A i \in 1..Len(object) : f[i] = Put(f[i - 1], object[i]))
  BY CopyIntoFixSteps
<1>0. Len(object) \in Nat /\ DOMAIN object = 1..Len(object)
  OBVIOUS
<1>2. CarriesFirst(f[0], object, 0)
  <2>1. DOMAIN f[0] = {} /\ 1..0 = {}
    BY <1>1 DEF NoFields
  <2> QED
    BY <2>1 DEF CarriesFirst
<1>3. ASSUME NEW k \in Nat, k + 1 <= Len(object), CarriesFirst(f[k], object, k)
      PROVE  CarriesFirst(f[k + 1], object, k + 1)
  <2>1. k + 1 \in 1..Len(object) /\ (k + 1) - 1 = k /\ k \in 0..Len(object)
    BY <1>0, <1>3
  <2>2. f[k] \in Fields /\ object[k + 1] \in Member
    BY <2>1
  <2>3. f[k + 1] = Put(f[k], object[k + 1])
    BY <1>1, <2>1
  <2> QED
    BY <1>3, <2>2, <2>3, CarriesNext
<1>4. CarriesFirst(f[Len(object)], object, Len(object))
  <2> DEFINE P == {k \in Nat : CarriesFirst(f[k], object, k)}
  <2>1. 0 \in P
    BY <1>2
  <2>2. \A k \in Nat : k + 1 <= Len(object) /\ k \in P => k + 1 \in P
    BY <1>3
  <2> HIDE DEF P
  <2>3. Len(object) \in P
    BY <1>0, <2>1, <2>2, UpTo
  <2> QED
    BY <2>3 DEF P
<1>5. CopyIntoFix(object) \in Fields /\ CarriesFirst(CopyIntoFix(object), object, Len(object))
  BY <1>0, <1>1, <1>4
<1>6. ASSUME NEW fields, CarriesFirst(fields, object, Len(object)) PROVE Carries(fields, object)
  <2> SUFFICES ASSUME NEW name \in Name
               PROVE  Said(object, name) = IF name \in DOMAIN fields THEN {fields[name]} ELSE {}
    BY DEF Carries
  <2>1. Said(object, name) =
          {object[i].value.text : i \in {i \in 1..Len(object) :
              Speaks(object[i], name) /\ \A j \in 1..Len(object) : Speaks(object[j], name) => j <= i}}
    BY <1>0 DEF Said, Speaks, Typed
  <2>2. CASE name \notin DOMAIN fields
    BY <1>6, <2>1, <2>2 DEF CarriesFirst
  <2>3. CASE name \in DOMAIN fields
    <3>1. PICK i \in 1..Len(object) :
            /\ Speaks(object[i], name)
            /\ fields[name] = object[i].value.text
            /\ \A j \in 1..Len(object) : Speaks(object[j], name) => j <= i
      BY <1>6, <2>3 DEF CarriesFirst
    <3>2. ASSUME NEW l \in 1..Len(object), Speaks(object[l], name),
                 \A j \in 1..Len(object) : Speaks(object[j], name) => j <= l
          PROVE  l = i
      BY <1>0, <3>1, <3>2
    <3> QED
      BY <2>1, <2>3, <3>1, <3>2
  <2> QED
    BY <2>2, <2>3
<1> QED
  BY <1>5, <1>6

-----------------------------------------------------------------------------
\* A field the copy takes.
Taken(fields, name) == Has(fields, name) /\ TypeOf(name) # "unknown"

LEMMA TakenIs ==
    ASSUME NEW fields \in Fields, NEW name \in Name, Taken(fields, name)
    PROVE  LET value == FixMember(fields, name).value
           IN  /\ value \in [kind : FieldType \ {"unknown"}, text : Text]
               /\ value.kind = TypeOf(name) /\ value.text = fields[name]
<1>1. FixMember(fields, name).value = [kind |-> TypeOf(name), text |-> fields[name]]
  BY DEF FixMember
<1>2. TypeOf(name) \in FieldType \ {"unknown"}
  BY TypesAreTypes DEF Taken
<1>3. fields[name] \in Text
  BY DEF Fields, Taken, Has
<1> QED
  BY <1>1, <1>2, <1>3

LEMMA ValueSet ==
    ASSUME NEW m \in Json, NEW value \in [kind : FieldType \ {"unknown"}, text : Text]
    PROVE  [m EXCEPT !.value = value] \in Json
<1> DEFINE V == [kind : FieldType \ {"unknown"}, text : Text]
<1>1. m \in [name : Name, value : V] /\ value \in V
  BY DEF Json
<1> HIDE DEF V
<1>2. [m EXCEPT !.value = value] \in [name : Name, value : V]
  BY <1>1
<1> QED
  BY <1>2 DEF Json, V

LEMMA PutMemberTyped ==
    ASSUME NEW fields \in Fields, NEW object \in Seq(Json), NEW name \in Name
    PROVE  PutMember(object, fields, name) \in Seq(Json)
<1> DEFINE value == FixMember(fields, name).value
<1>1. CASE ~Taken(fields, name)
  BY <1>1 DEF PutMember, Taken
<1>2. CASE Taken(fields, name)
  <2>1. value \in [kind : FieldType \ {"unknown"}, text : Text]
    BY <1>2, TakenIs
  <2> HIDE DEF value
  <2>2. [name |-> name, value |-> value] \in Json
    BY <2>1 DEF Json
  <2>3. ASSUME NEW i PROVE [object EXCEPT ![i] = [@ EXCEPT !.value = value]] \in Seq(Json)
    <3>1. CASE i \in DOMAIN object
      <4>1. object[i] \in Json
        BY <3>1
      <4>2. [object[i] EXCEPT !.value = value] \in Json
        BY <2>1, <4>1, ValueSet
      <4> QED
        BY <3>1, <4>2
    <3>2. CASE i \notin DOMAIN object
      <4>1. [object EXCEPT ![i] = [@ EXCEPT !.value = value]] = object
        BY <3>2
      <4> QED
        BY <4>1
    <3> QED
      BY <3>1, <3>2
  <2>4. \/ PutMember(object, fields, name) = Append(object, [name |-> name, value |-> value])
        \/ \E i : PutMember(object, fields, name) = [object EXCEPT ![i] = [@ EXCEPT !.value = value]]
    BY <1>2 DEF PutMember, JsonSet, Taken, value
  <2>5. Append(object, [name |-> name, value |-> value]) \in Seq(Json)
    BY <2>2
  <2> QED
    BY <2>3, <2>4, <2>5, Zenon
<1> QED
  BY <1>1, <1>2

LEMMA TagsAre ==
    /\ Len(Tags) \in Nat /\ DOMAIN Tags = 1..Len(Tags)
    /\ \A t \in 1..Len(Tags) : Tags[t] \in Name
    /\ \A t, u \in 1..Len(Tags) : Tags[t] = Tags[u] => t = u
    /\ \A name \in Name : \E t \in 1..Len(Tags) : Tags[t] = name
BY TagsAreNames DEF IsInjective, ToSet

\* The fold that copies a FIX message, tag by tag.
LEMMA CopyIntoJsonSteps ==
    ASSUME NEW fields \in Fields
    PROVE  \E f \in [0..Len(Tags) -> Seq(Json)] :
              /\ f[0] = <<>>
              /\ f[Len(Tags)] = CopyIntoJson(fields)
              /\ (\A i \in 1..Len(Tags) : f[i] = PutMember(f[i - 1], fields, Tags[i]))
<1>0. PICK n \in Nat : n = Len(Tags) /\ 1..n = DOMAIN Tags
  BY TagsAre
<1> DEFINE V == Seq(Json)
           step == [vi \in V \X (1..n) |-> PutMember(vi[1], fields, Tags[vi[2]])]
           Is(g) == g = [s \in SUBSET (1..n) |-> IF s = {} THEN <<>>
                            ELSE PutMember(g[s \ {Max(s)}], fields, Tags[Max(s)])]
<1>1. <<>> \in V
  OBVIOUS
<1>2. \A v \in V, i \in 1..n : PutMember(v, fields, Tags[i]) \in V
  BY <1>0, TagsAre, PutMemberTyped
<1> HIDE DEF V
<1>3. StepIn(step, n, V)
  BY <1>2 DEF StepIn
<1>4. \A v \in V, i \in 1..n : step[<<v, i>>] = PutMember(v, fields, Tags[i])
  OBVIOUS
<1> HIDE DEF step
<1>5. \E g : Is(g)
  <2>1. PICK g \in [SUBSET (1..n) -> V] : Iteration(g, n, <<>>, step)
    BY <1>1, <1>3, Iterates
  <2>2. ASSUME NEW s \in SUBSET (1..n), s # {}
        PROVE  g[s] = PutMember(g[s \ {Max(s)}], fields, Tags[Max(s)])
    <3>1. Max(s) \in 1..n
      BY <2>2, LastPlace
    <3>2. g[s \ {Max(s)}] \in V
      OBVIOUS
    <3>3. g[s] = step[<<g[s \ {Max(s)}], Max(s)>>]
      BY <2>1, <2>2 DEF Iteration
    <3> QED
      BY <1>4, <3>1, <3>2, <3>3
  <2>3. g[{}] = <<>>
    BY <2>1 DEF Iteration
  <2> QED
    BY <2>2, <2>3
<1>6. PICK it : Is(it) /\ CopyIntoJson(fields) = it[1..n]
  <2>1. CopyIntoJson(fields) = (CHOOSE g : Is(g))[1..n]
    BY <1>0 DEF CopyIntoJson, FoldLeft, MapThenFoldSet
  <2> HIDE DEF Is
  <2> QED
    BY <1>5, <2>1
<1>7. it[{}] = <<>>
  <2>1. {} \in SUBSET (1..n)
    OBVIOUS
  <2> QED
    BY <1>6, <2>1
<1>8. Follows(it, n, V, <<>>, step)
  <2>1. ASSUME NEW s \in SUBSET (1..n), s # {}, it[s \ {Max(s)}] \in V
        PROVE  it[s] = step[<<it[s \ {Max(s)}], Max(s)>>]
    <3>1. Max(s) \in 1..n
      BY <2>1, LastPlace
    <3>2. it[s] = PutMember(it[s \ {Max(s)}], fields, Tags[Max(s)])
      BY <1>6, <2>1
    <3> QED
      BY <1>4, <2>1, <3>1, <3>2
  <2> QED
    BY <1>7, <2>1 DEF Follows
<1>9. PICK f : Along(f, it, n, V, <<>>, step)
  BY <1>1, <1>3, <1>8, GoesAlong
<1>10. ASSUME NEW i \in 1..n PROVE f[i] = PutMember(f[i - 1], fields, Tags[i])
  <2>1. f[i - 1] \in V
    BY <1>9 DEF Along
  <2> QED
    BY <1>4, <1>9, <2>1 DEF Along
<1>11. f \in [0..n -> Seq(Json)]
  BY <1>9 DEF Along, V
<1>12. f[0] = <<>> /\ f[Len(Tags)] = CopyIntoJson(fields)
  BY <1>0, <1>6, <1>9 DEF Along
<1>13. f \in [0..Len(Tags) -> Seq(Json)]
  BY <1>0, <1>11
<1>14. \A i \in 1..Len(Tags) : f[i] = PutMember(f[i - 1], fields, Tags[i])
  BY <1>0, <1>10
<1> QED
  BY <1>12, <1>13, <1>14, Zenon

\* What a JSON object has of the first k tags: every field that is taken, once.
ReadsFirst(object, fields, k) ==
    /\ \A i \in DOMAIN object : \E t \in 1..k :
          /\ Taken(fields, Tags[t]) /\ object[i] = FixMember(fields, Tags[t])
    /\ \A i, j \in DOMAIN object : object[i].name = object[j].name => i = j
    /\ \A t \in 1..k : Taken(fields, Tags[t])
          => \E i \in DOMAIN object : object[i] = FixMember(fields, Tags[t])

LEMMA ReadsNext ==
    ASSUME NEW k \in Nat, k + 1 <= Len(Tags), NEW fields \in Fields, NEW object \in Seq(Json),
           ReadsFirst(object, fields, k)
    PROVE  ReadsFirst(PutMember(object, fields, Tags[k + 1]), fields, k + 1)
<1> DEFINE m == FixMember(fields, Tags[k + 1])
           more == PutMember(object, fields, Tags[k + 1])
<1>1. \A t \in 1..(k + 1) : t \in 1..k \/ t = k + 1
  OBVIOUS
<1>2. k + 1 \in 1..(k + 1) /\ \A t \in 1..k : t \in 1..(k + 1)
  OBVIOUS
<1>3. CASE ~Taken(fields, Tags[k + 1])
  <2>1. more = object
    BY <1>3 DEF PutMember, Taken
  <2>2. \A t \in 1..(k + 1) : Taken(fields, Tags[t]) => t \in 1..k
    BY <1>1, <1>3
  <2>3. ReadsFirst(object, fields, k + 1)
    BY <1>2, <2>2 DEF ReadsFirst
  <2> QED
    BY <2>1, <2>3
<1>4. CASE Taken(fields, Tags[k + 1])
  <2>1. m.name = Tags[k + 1] /\ m = [name |-> Tags[k + 1], value |-> m.value]
    BY DEF FixMember
  <2>2. ASSUME NEW i \in DOMAIN object PROVE object[i].name # Tags[k + 1]
    <3>0. PICK t \in 1..k : object[i] = FixMember(fields, Tags[t])
      BY DEF ReadsFirst
    <3>1. object[i].name = Tags[t]
      BY <3>0 DEF FixMember
    <3>2. t # k + 1 /\ t \in 1..Len(Tags) /\ k + 1 \in 1..Len(Tags)
      BY TagsAre
    <3> QED
      BY <3>1, <3>2, TagsAre
  <2>3. more = Append(object, m)
    BY <1>4, <2>1, <2>2 DEF PutMember, JsonSet, Taken
  <2> HIDE DEF m, more
  <2>4. /\ Len(object) \in Nat /\ DOMAIN object = 1..Len(object)
        /\ DOMAIN more = 1..(Len(object) + 1)
        /\ \A i \in DOMAIN object : more[i] = object[i]
        /\ more[Len(object) + 1] = m
    BY <2>3
  <2>5. /\ \A i \in DOMAIN object : i \in DOMAIN more
        /\ \A i \in DOMAIN more : i \in DOMAIN object \/ i = Len(object) + 1
        /\ Len(object) + 1 \in DOMAIN more
    BY <2>4
  <2>6. \A i \in DOMAIN more : \E t \in 1..(k + 1) :
          Taken(fields, Tags[t]) /\ more[i] = FixMember(fields, Tags[t])
    <3> SUFFICES ASSUME NEW i \in DOMAIN more
                 PROVE  \E t \in 1..(k + 1) :
                           Taken(fields, Tags[t]) /\ more[i] = FixMember(fields, Tags[t])
      OBVIOUS
    <3>1. CASE i \in DOMAIN object
      BY <1>2, <2>4, <3>1 DEF ReadsFirst
    <3>2. CASE i = Len(object) + 1
      BY <1>2, <1>4, <2>4, <3>2 DEF m
    <3> QED
      BY <2>5, <3>1, <3>2
  <2>7. \A i, j \in DOMAIN more : more[i].name = more[j].name => i = j
    <3> SUFFICES ASSUME NEW i \in DOMAIN more, NEW j \in DOMAIN more, more[i].name = more[j].name
                 PROVE  i = j
      OBVIOUS
    <3>1. CASE i \in DOMAIN object /\ j \in DOMAIN object
      BY <2>4, <3>1 DEF ReadsFirst
    <3>2. CASE i \notin DOMAIN object \/ j \notin DOMAIN object
      BY <2>1, <2>2, <2>4, <2>5, <3>2
    <3> QED
      BY <3>1, <3>2
  <2>8. \A t \in 1..(k + 1) : Taken(fields, Tags[t])
          => \E i \in DOMAIN more : more[i] = FixMember(fields, Tags[t])
    <3> SUFFICES ASSUME NEW t \in 1..(k + 1), Taken(fields, Tags[t])
                 PROVE  \E i \in DOMAIN more : more[i] = FixMember(fields, Tags[t])
      OBVIOUS
    <3>1. CASE t \in 1..k
      BY <2>4, <2>5, <3>1 DEF ReadsFirst
    <3>2. CASE t = k + 1
      BY <2>4, <2>5, <3>2 DEF m
    <3> QED
      BY <1>1, <3>1, <3>2
  <2> QED
    BY <2>6, <2>7, <2>8 DEF ReadsFirst, more
<1> QED
  BY <1>3, <1>4

\* The copy of a FIX message reads as the table types its fields, says each that
\* has a type, and nothing else.
THEOREM CopyReads ==
    ASSUME NEW fields \in Fields
    PROVE  /\ CopyIntoJson(fields) \in Seq(Json)
           /\ ReadsAsTyped(CopyIntoJson(fields))
           /\ Tells(CopyIntoJson(fields), fields)
<1> DEFINE object == CopyIntoJson(fields)
<1>1. PICK f \in [0..Len(Tags) -> Seq(Json)] :
        /\ f[0] = <<>>
        /\ f[Len(Tags)] = object
        /\ (\A i \in 1..Len(Tags) : f[i] = PutMember(f[i - 1], fields, Tags[i]))
  BY CopyIntoJsonSteps
<1>2. ReadsFirst(f[0], fields, 0)
  <2>1. DOMAIN f[0] = {} /\ 1..0 = {}
    BY <1>1
  <2> QED
    BY <2>1 DEF ReadsFirst
<1>3. ASSUME NEW k \in Nat, k + 1 <= Len(Tags), ReadsFirst(f[k], fields, k)
      PROVE  ReadsFirst(f[k + 1], fields, k + 1)
  <2>1. k + 1 \in 1..Len(Tags) /\ (k + 1) - 1 = k /\ k \in 0..Len(Tags)
    BY <1>3, TagsAre
  <2>2. f[k] \in Seq(Json)
    BY <2>1
  <2>3. f[k + 1] = PutMember(f[k], fields, Tags[k + 1])
    BY <1>1, <2>1
  <2> QED
    BY <1>3, <2>2, <2>3, ReadsNext
<1>4. ReadsFirst(f[Len(Tags)], fields, Len(Tags))
  <2> DEFINE P == {k \in Nat : ReadsFirst(f[k], fields, k)}
  <2>1. 0 \in P
    BY <1>2
  <2>2. \A k \in Nat : k + 1 <= Len(Tags) /\ k \in P => k + 1 \in P
    BY <1>3
  <2> HIDE DEF P
  <2>3. Len(Tags) \in P
    BY <2>1, <2>2, TagsAre, UpTo
  <2> QED
    BY <2>3 DEF P
<1> HIDE DEF object
<1>5. object \in Seq(Json) /\ ReadsFirst(object, fields, Len(Tags))
  BY <1>1, <1>4, TagsAre
<1>6. ASSUME NEW i \in DOMAIN object
      PROVE  /\ object[i].name \in Name /\ Taken(fields, object[i].name)
             /\ object[i].value.kind = TypeOf(object[i].name)
             /\ object[i].value.text = fields[object[i].name]
             /\ JsonType(object[i].value) # "unknown"
  <2>1. PICK t \in 1..Len(Tags) :
           Taken(fields, Tags[t]) /\ object[i] = FixMember(fields, Tags[t])
    BY <1>5 DEF ReadsFirst
  <2>2. /\ object[i].name = Tags[t] /\ object[i].value.kind = TypeOf(Tags[t])
        /\ object[i].value.text = fields[Tags[t]]
    BY <2>1 DEF FixMember
  <2>3. Tags[t] \in Name
    BY TagsAre
  <2>4. JsonType(object[i].value) # "unknown"
    BY <2>1, <2>2, <2>3, TypesAreTypes DEF JsonType, Taken, FieldType
  <2> QED
    BY <2>1, <2>2, <2>3, <2>4
<1>7. ReadsAsTyped(object)
  BY <1>5, <1>6 DEF ReadsAsTyped, ReadsFirst
<1>8. ASSUME NEW name \in Name
      PROVE  Said(object, name) = IF Taken(fields, name) THEN {fields[name]} ELSE {}
  <2>1. CASE ~Taken(fields, name)
    BY <1>6, <2>1 DEF Said
  <2>2. CASE Taken(fields, name)
    <3>1. PICK i \in DOMAIN object : object[i].name = name
      BY <1>5, <2>2, TagsAre DEF ReadsFirst, FixMember
    <3>2. \A j \in DOMAIN object : object[j].name = name => j = i
      BY <1>5, <3>1 DEF ReadsFirst
    <3>3. i \in Nat /\ i <= i
      BY <1>5
    <3> QED
      BY <1>6, <2>2, <3>1, <3>2, <3>3 DEF Said
  <2> QED
    BY <2>1, <2>2
<1>9. Tells(object, fields)
  BY <1>8 DEF Tells, Taken
<1> QED
  BY <1>5, <1>7, <1>9 DEF object

-----------------------------------------------------------------------------

\* An order on the wire and an answer, as far as the steps make them.
Sent == [n : Nat \ {0}, session : Session,
         head : {CopyIntoFix(h) : h \in JsonHeads},
         body : {CopyIntoFix(b) : b \in JsonBodies}]

Error == [n : Nat \ {0}, code : {400, 404, 500}, head : {<<>>}, body : {<<>>}]

Reply == [n : Nat \ {0}, code : {200},
          head : {CopyIntoJson(h) : h \in FixHeads},
          body : {CopyIntoJson(b) : b \in FixBodies}]

Answer == Error \cup Reply

\* The requests are numbered, and so what was sent and answered for them; an order
\* is sent once.
Numbered ==
    /\ asked \in Seq(Request)
    /\ wire \in Seq(Sent)
    /\ answers \in Seq(Answer)
    /\ \A j \in DOMAIN wire : wire[j].n <= Len(asked)
    /\ \A i, j \in DOMAIN wire : wire[i].n = wire[j].n => i = j
    /\ \A i \in DOMAIN answers : answers[i].n <= Len(asked)
    /\ phase = "waiting" => wire # <<>>

\* The session of an order that was answered with a response.
Answering(session, j) ==
    /\ wire[j].session = session
    /\ \E k \in DOMAIN answers : answers[k].code = 200 /\ answers[k].n = wire[j].n

\* The connection's session is one that answered.
BoundByAnswer == up # None => \E j \in DOMAIN wire : Answering(up, j)

IInv == Numbered /\ BoundByAnswer /\ RefusedUnsent /\ SentWhereNamed

\* An order is the copy of its request.
Copied ==
    \A j \in DOMAIN wire :
        LET r == asked[wire[j].n]
        IN  /\ r.head \in JsonHeads /\ wire[j].head = CopyIntoFix(r.head)
            /\ r.body \in JsonBodies /\ wire[j].body = CopyIntoFix(r.body)

Connected ==
    /\ up \in Session \cup {None}
    /\ phase \in {"idle", "waiting", "over"}
    /\ got \in BOOLEAN
    /\ Len(asked) <= MaxRequests

-----------------------------------------------------------------------------
LEMMA NumbersAreNat ==
    Numbered =>
        /\ \A j \in DOMAIN wire : wire[j] \in Sent /\ wire[j].n \in Nat \ {0}
        /\ \A i \in DOMAIN answers : answers[i] \in Answer /\ answers[i].n \in Nat \ {0}
<1>1. (\A s \in Sent : s.n \in Nat \ {0}) /\ (\A a \in Answer : a.n \in Nat \ {0})
  BY DEF Sent, Answer, Error, Reply
<1> QED
  BY <1>1 DEF Numbered

\* A request that is answered without being sent, or ends the process.
LEMMA UnsentInv ==
    ASSUME IInv, NEW r \in Request, NotFound(r) \/ Refused(r) \/ Crash(r)
    PROVE  IInv'
<1> USE DEF IInv
<1>1. /\ asked' = Append(asked, r) /\ UNCHANGED <<up, wire>>
      /\ phase' # "waiting"
  BY DEF NotFound, Refused, Crash, Ask
<1>2. asked' \in Seq(Request) /\ Len(asked') = Len(asked) + 1 /\ Len(asked) \in Nat
  BY <1>1 DEF Numbered
<1>3. \/ UNCHANGED answers
      \/ \E code \in {400, 404} : AnswerFrom(Len(asked'), code, <<>>, <<>>)
  BY DEF NotFound, Refused, Crash, AnswerError, CodeOf, MessageException
<1>4. CASE UNCHANGED answers
  <2>1. Numbered'
    BY <1>1, <1>2, <1>4, NumbersAreNat DEF Numbered
  <2> QED
    BY <1>1, <1>4, <2>1
    DEF BoundByAnswer, Answering, RefusedUnsent, SentWhereNamed, Has
<1>5. ASSUME NEW code \in {400, 404}, AnswerFrom(Len(asked'), code, <<>>, <<>>)
      PROVE  IInv'
  <2> DEFINE a == [n |-> Len(asked'), code |-> code, head |-> <<>>, body |-> <<>>]
  <2>1. answers' = Append(answers, a) /\ a \in Answer
    BY <1>2, <1>5 DEF AnswerFrom, Answer, Error
  <2>2. a.n = Len(asked) + 1 /\ a.code = code
    BY <1>2
  <2> HIDE DEF a
  <2>3. /\ answers' \in Seq(Answer)
        /\ DOMAIN answers \subseteq DOMAIN answers'
        /\ \A i \in DOMAIN answers : answers'[i] = answers[i]
        /\ \A i \in DOMAIN answers' : i \in DOMAIN answers \/ answers'[i] = a
    BY <2>1 DEF Numbered
  <2>4. Numbered'
    BY <1>1, <1>2, <2>2, <2>3, NumbersAreNat DEF Numbered
  <2>5. BoundByAnswer'
    BY <1>1, <2>3 DEF BoundByAnswer, Answering
  <2>6. RefusedUnsent'
    <3>1. \A j \in DOMAIN wire : wire[j].n # a.n
      BY <1>2, <2>2, NumbersAreNat DEF Numbered
    <3> QED
      BY <1>1, <2>3, <3>1 DEF RefusedUnsent, Has
  <2>7. SentWhereNamed'
    BY <1>1, <2>3 DEF SentWhereNamed, Has
  <2> QED
    BY <2>4, <2>5, <2>6, <2>7
<1> QED
  BY <1>3, <1>4, <1>5

\* An order goes out.
LEMMA SendInv ==
    ASSUME IInv, NEW r \in Request, Send(r)
    PROVE  IInv'
<1> USE DEF IInv
<1> DEFINE head == CopyIntoFix(r.head)
           s == [n |-> Len(asked'), session |-> SessionOf(head),
                 head |-> head, body |-> CopyIntoFix(r.body)]
<1>1. /\ asked' = Append(asked, r) /\ UNCHANGED <<up, answers>>
      /\ wire' = Append(wire, s)
      /\ SessionOf(head) \in Session
      /\ up # None \/ Has(head, Comp)
  BY DEF Send, Ask
<1>2. asked' \in Seq(Request) /\ Len(asked') = Len(asked) + 1 /\ Len(asked) \in Nat
  BY <1>1 DEF Numbered
<1>3. s \in Sent
  <2>1. r.head \in JsonHeads /\ r.body \in JsonBodies
    BY DEF Send, Translatable, Request
  <2> QED
    BY <1>1, <1>2, <2>1 DEF Sent
<1>4. /\ s.n = Len(asked) + 1
      /\ s.session = SessionOf(s.head)
      /\ up # None \/ Has(s.head, Comp)
  BY <1>1, <1>2
<1> HIDE DEF s
<1>5. /\ wire' \in Seq(Sent) /\ wire' # <<>>
      /\ Len(wire) \in Nat
      /\ \A j \in DOMAIN wire : /\ j \in DOMAIN wire' /\ wire'[j] = wire[j]
                                /\ j < Len(wire) + 1
      /\ Len(wire) + 1 \in DOMAIN wire' /\ wire'[Len(wire) + 1] = s
      /\ \A j \in DOMAIN wire' : j \in DOMAIN wire \/ j = Len(wire) + 1
  <2>1. wire \in Seq(Sent) /\ wire' = Append(wire, s)
    BY <1>1 DEF Numbered, s
  <2> QED
    BY <1>3, <2>1
<1>6. \A j \in DOMAIN wire : wire[j].n \in Nat /\ wire[j].n <= Len(asked)
  BY NumbersAreNat DEF Numbered
<1>7. \A i \in DOMAIN answers : answers[i].n \in Nat /\ answers[i].n <= Len(asked)
  BY NumbersAreNat DEF Numbered
<1>8. Numbered'
  <2>1. \A j \in DOMAIN wire' : wire'[j].n <= Len(asked')
    BY <1>2, <1>4, <1>5, <1>6
  <2>2. \A i, j \in DOMAIN wire' : wire'[i].n = wire'[j].n => i = j
    <3> SUFFICES ASSUME NEW i \in DOMAIN wire', NEW j \in DOMAIN wire',
                        wire'[i].n = wire'[j].n
                 PROVE  i = j
      OBVIOUS
    <3>1. \A l \in DOMAIN wire : wire[l].n # s.n
      BY <1>2, <1>4, <1>6
    <3>2. CASE i \in DOMAIN wire /\ j \in DOMAIN wire
      BY <1>5, <3>2 DEF Numbered
    <3>3. CASE i \notin DOMAIN wire \/ j \notin DOMAIN wire
      BY <1>5, <3>1, <3>3
    <3> QED
      BY <3>2, <3>3
  <2>3. \A i \in DOMAIN answers' : answers'[i].n <= Len(asked')
    BY <1>1, <1>2, <1>7
  <2> QED
    BY <1>1, <1>2, <1>5, <2>1, <2>2, <2>3 DEF Numbered
<1>9. BoundByAnswer'
  BY <1>1, <1>5 DEF BoundByAnswer, Answering
<1>10. RefusedUnsent'
  <2>1. \A i \in DOMAIN answers : answers[i].n # s.n
    BY <1>2, <1>4, <1>7
  <2> QED
    BY <1>1, <1>5, <2>1 DEF RefusedUnsent, Has
<1>11. SentWhereNamed'
  <2>1. \/ Has(s.head, Comp) /\ s.head[Comp] = s.session
        \/ \E j \in DOMAIN wire : Answering(s.session, j)
    BY <1>4 DEF SessionOf, BoundByAnswer
  <2>2. ASSUME NEW i \in DOMAIN wire'
        PROVE  \/ Has(wire'[i].head, Comp) /\ wire'[i].head[Comp] = wire'[i].session
               \/ \E j \in DOMAIN wire : j < i /\ Answering(wire'[i].session, j)
    <3>1. CASE i \in DOMAIN wire
      BY <1>5, <3>1 DEF SentWhereNamed, Answering
    <3>2. CASE i = Len(wire) + 1
      BY <1>5, <2>1, <3>2
    <3> QED
      BY <1>5, <3>1, <3>2
  <2>3. \A j \in DOMAIN wire : j \in DOMAIN wire' /\ wire'[j] = wire[j]
    BY <1>5
  <2>4. ASSUME NEW i \in DOMAIN wire', NEW j \in DOMAIN wire, j < i,
               Answering(wire'[i].session, j)
        PROVE  \E k \in DOMAIN answers' : \E l \in DOMAIN wire' :
                  /\ answers'[k].code = 200 /\ answers'[k].n = wire'[l].n
                  /\ l < i /\ wire'[l].session = wire'[i].session
    BY <1>1, <2>3, <2>4 DEF Answering
  <2> QED
    BY <2>2, <2>4 DEF SentWhereNamed, Has
<1> QED
  BY <1>8, <1>9, <1>10, <1>11

\* The order that waits is answered: with a response, and then the connection is
\* bound to its session, or as timed out or refused.
LEMMA AnswerInv ==
    ASSUME IInv, phase = "waiting", phase' = "idle", UNCHANGED <<asked, wire>>,
           NEW a \in Answer, answers' = Append(answers, a), a.n = Latest.n,
           a.code \in {400, 404} => ~Has(Latest.head, MsgType),
           UNCHANGED up \/ (up' = Latest.session /\ a.code = 200)
    PROVE  IInv'
<1> USE DEF IInv
<1>1. /\ Len(wire) \in DOMAIN wire
      /\ Latest = wire[Len(wire)]
      /\ a.n <= Len(asked)
      /\ \A j \in DOMAIN wire : wire[j].n = a.n => j = Len(wire)
  BY DEF Numbered, Latest
<1>2. /\ answers' \in Seq(Answer)
      /\ DOMAIN answers \subseteq DOMAIN answers'
      /\ Len(answers) + 1 \in DOMAIN answers' /\ answers'[Len(answers) + 1] = a
      /\ \A i \in DOMAIN answers : answers'[i] = answers[i]
      /\ \A i \in DOMAIN answers' : i \in DOMAIN answers \/ answers'[i] = a
  BY DEF Numbered
<1>3. Numbered'
  BY <1>1, <1>2 DEF Numbered
<1>4. a.code = 200 =>
        \E k \in DOMAIN answers' : /\ answers'[k].code = 200
                                   /\ answers'[k].n = wire[Len(wire)].n
  BY <1>1, <1>2
<1>5. BoundByAnswer'
  <2>1. CASE UNCHANGED up
    BY <1>2, <2>1 DEF BoundByAnswer, Answering
  <2>2. CASE up' = Latest.session /\ a.code = 200
    BY <1>1, <1>4, <2>2 DEF BoundByAnswer, Answering
  <2> QED
    BY <2>1, <2>2
<1>6. RefusedUnsent'
  BY <1>1, <1>2 DEF RefusedUnsent, Has
<1>7. SentWhereNamed'
  BY <1>2 DEF SentWhereNamed, Has
<1> QED
  BY <1>3, <1>5, <1>6, <1>7

LEMMA WaitingInv ==
    ASSUME IInv,
           \/ \E head \in FixHeads, body \in FixBodies : Answered(head, body)
           \/ RefusedLate \/ TimedOut
    PROVE  IInv'
<1>1. phase = "waiting" /\ phase' = "idle" /\ UNCHANGED <<asked, wire>>
  BY DEF Answered, RefusedLate, TimedOut
<1>2. Latest.n \in Nat \ {0}
  <2>1. Len(wire) \in DOMAIN wire
    BY <1>1 DEF IInv, Numbered
  <2> QED
    BY <2>1, NumbersAreNat DEF IInv, Latest
<1>3. ASSUME NEW head \in FixHeads, NEW body \in FixBodies, Answered(head, body)
      PROVE  IInv'
  <2> DEFINE a == [n |-> Latest.n, code |-> 200, head |-> CopyIntoJson(head),
                   body |-> CopyIntoJson(body)]
  <2>1. a \in Answer /\ a.n = Latest.n /\ a.code = 200
    BY <1>2 DEF Answer, Reply
  <2>2. answers' = Append(answers, a) /\ up' = Latest.session
    BY <1>3 DEF Answered, AnswerFrom
  <2> HIDE DEF a
  <2> QED
    BY <1>1, <2>1, <2>2, AnswerInv
<1>4. ASSUME RefusedLate \/ TimedOut PROVE IInv'
  <2>1. PICK code \in {400, 500} :
          /\ AnswerFrom(Latest.n, code, <<>>, <<>>)
          /\ code = 400 => ~Has(Latest.head, MsgType)
    BY <1>4 DEF RefusedLate, TimedOut, AnswerError, CodeOf
  <2> DEFINE a == [n |-> Latest.n, code |-> code, head |-> <<>>, body |-> <<>>]
  <2>2. a \in Answer /\ a.n = Latest.n /\ a.code = code
    BY <1>2 DEF Answer, Error
  <2>3. answers' = Append(answers, a) /\ UNCHANGED up
    BY <1>4, <2>1 DEF RefusedLate, TimedOut, AnswerFrom
  <2> HIDE DEF a
  <2> QED
    BY <1>1, <2>1, <2>2, <2>3, AnswerInv
<1> QED
  BY <1>3, <1>4

\* Answers and what was sent are numbered as the requests came, and the cached
\* session is one that answered.
THEOREM Inductive == Spec => []IInv
<1>1. Init => IInv
  BY DEF Init, IInv, Numbered, BoundByAnswer, RefusedUnsent, SentWhereNamed
<1>2. IInv /\ [Next]_vars => IInv'
  <2> SUFFICES ASSUME IInv, [Next]_vars PROVE IInv'
    OBVIOUS
  <2>1. ASSUME NEW head \in FixHeads, PassedOver(head) PROVE IInv'
    BY <2>1 DEF PassedOver, IInv, Numbered, BoundByAnswer, Answering,
                RefusedUnsent, SentWhereNamed, Has
  <2>2. ASSUME UNCHANGED vars PROVE IInv'
    BY <2>2 DEF vars, IInv, Numbered, BoundByAnswer, Answering,
                RefusedUnsent, SentWhereNamed, Has
  <2> QED
    BY <2>1, <2>2, UnsentInv, SendInv, WaitingInv DEF Next
<1> QED
  BY <1>1, <1>2, PTL DEF Spec

\* A request that is refused was not sent, unless it has no MsgType.
THEOREM RefusalsAreUnsent == Spec => []RefusedUnsent
BY Inductive, PTL DEF IInv

\* An order goes to the session it names, or to the one that answered the
\* connection before: what a failed call used is never kept.
THEOREM OrdersGoWhereNamed == Spec => []SentWhereNamed
BY Inductive, PTL DEF IInv

-----------------------------------------------------------------------------
LEMMA ConnectedInv ==
    ASSUME IInv, Connected, [Next]_vars
    PROVE  Connected'
<1> USE DEF Connected
<1>1. ASSUME NEW r \in Request, NotFound(r) \/ Refused(r) \/ Crash(r) \/ Send(r)
      PROVE  Connected'
  <2>1. Len(asked') = Len(asked) + 1 /\ Len(asked) \in Nat /\ Len(asked) < MaxRequests
    BY <1>1 DEF NotFound, Refused, Crash, Send, Ask, IInv, Numbered
  <2>2. Len(asked') <= MaxRequests
    BY <2>1, BoundIsNat
  <2> QED
    BY <1>1, <2>2 DEF NotFound, Refused, Crash, Send, Ask
<1>2. phase = "waiting" => Latest.session \in Session
  <2> SUFFICES ASSUME phase = "waiting" PROVE Latest.session \in Session
    OBVIOUS
  <2>1. Len(wire) \in DOMAIN wire
    BY DEF IInv, Numbered
  <2> QED
    BY <2>1, NumbersAreNat DEF IInv, Latest, Sent
<1>3. ASSUME NEW head \in FixHeads, NEW body \in FixBodies, Answered(head, body)
      PROVE  Connected'
  BY <1>2, <1>3 DEF Answered
<1>4. ASSUME NEW head \in FixHeads, PassedOver(head) PROVE Connected'
  BY <1>4 DEF PassedOver
<1>5. ASSUME RefusedLate \/ TimedOut PROVE Connected'
  BY <1>5 DEF RefusedLate, TimedOut
<1>6. ASSUME UNCHANGED vars PROVE Connected'
  BY <1>6 DEF vars
<1> QED
  BY <1>1, <1>3, <1>4, <1>5, <1>6 DEF Next

LEMMA CopiedInv ==
    ASSUME IInv, Copied, [Next]_vars
    PROVE  Copied'
<1>1. asked \in Seq(Request) /\ wire \in Seq(Sent)
  BY DEF IInv, Numbered
<1>2. ASSUME NEW r \in Request, asked' = Append(asked, r), NEW j \in DOMAIN wire
      PROVE  asked'[wire[j].n] = asked[wire[j].n]
  <2>1. wire[j].n \in Nat \ {0} /\ wire[j].n <= Len(asked)
    BY NumbersAreNat DEF IInv, Numbered
  <2> QED
    BY <1>1, <1>2, <2>1
<1>3. ASSUME NEW r \in Request, NotFound(r) \/ Refused(r) \/ Crash(r) PROVE Copied'
  <2>1. asked' = Append(asked, r) /\ UNCHANGED wire
    BY <1>3 DEF NotFound, Refused, Crash, Ask
  <2> QED
    BY <1>2, <2>1 DEF Copied
<1>4. ASSUME NEW r \in Request, Send(r) PROVE Copied'
  <2> DEFINE s == [n |-> Len(asked'), session |-> SessionOf(CopyIntoFix(r.head)),
                   head |-> CopyIntoFix(r.head), body |-> CopyIntoFix(r.body)]
  <2>1. asked' = Append(asked, r) /\ wire' = Append(wire, s)
    BY <1>4 DEF Send, Ask
  <2>2. r.head \in JsonHeads /\ r.body \in JsonBodies
    BY <1>4 DEF Send, Translatable, Request
  <2>3. asked'[Len(asked')] = r
    BY <1>1, <2>1
  <2>4. /\ s.n = Len(asked')
        /\ s.head = CopyIntoFix(r.head) /\ s.body = CopyIntoFix(r.body)
    OBVIOUS
  <2> HIDE DEF s
  <2>5. \A j \in DOMAIN wire' : \/ j \in DOMAIN wire /\ wire'[j] = wire[j]
                                \/ wire'[j] = s
    BY <1>1, <2>1
  <2> SUFFICES ASSUME NEW j \in DOMAIN wire'
               PROVE  LET q == asked'[wire'[j].n]
                      IN  /\ q.head \in JsonHeads /\ wire'[j].head = CopyIntoFix(q.head)
                          /\ q.body \in JsonBodies /\ wire'[j].body = CopyIntoFix(q.body)
    BY DEF Copied
  <2>6. CASE j \in DOMAIN wire /\ wire'[j] = wire[j]
    BY <1>2, <2>1, <2>6 DEF Copied
  <2>7. CASE wire'[j] = s
    BY <2>2, <2>3, <2>4, <2>7
  <2> QED
    BY <2>5, <2>6, <2>7
<1>5. ASSUME UNCHANGED <<asked, wire>> PROVE Copied'
  BY <1>5 DEF Copied
<1>6. ASSUME RefusedLate \/ TimedOut \/ UNCHANGED vars \/ (\E head \in FixHeads : PassedOver(head))
              \/ (\E head \in FixHeads, body \in FixBodies : Answered(head, body))
      PROVE  UNCHANGED <<asked, wire>>
  BY <1>6 DEF RefusedLate, TimedOut, PassedOver, Answered, vars
<1> QED
  BY <1>3, <1>4, <1>5, <1>6 DEF Next

\* Orders are copies of their requests.
THEOREM CopiesAreSent == Spec => [](Connected /\ Copied)
<1>1. Init => Connected /\ Copied
  <2> SUFFICES ASSUME Init PROVE Connected /\ Copied
    OBVIOUS
  <2>1. Len(asked) = 0 /\ 0 <= MaxRequests
    BY BoundIsNat DEF Init
  <2>2. Connected
    BY <2>1 DEF Init, Connected
  <2>3. DOMAIN wire = {}
    BY DEF Init
  <2> QED
    BY <2>2, <2>3 DEF Copied
<1>2. IInv /\ (Connected /\ Copied) /\ [Next]_vars => (Connected /\ Copied)'
  BY ConnectedInv, CopiedInv
<1> QED
  BY <1>1, <1>2, Inductive, PTL DEF Spec

\* An order on the wire says what its request said, in every field FIX knows and
\* JSON types, and nothing else: whatever objects clients send.
THEOREM OrdersSayWhatWasAsked == Spec => []SentIsAsked
<1>1. Copied => SentIsAsked
  <2> SUFFICES ASSUME Copied, NEW j \in DOMAIN wire
               PROVE  /\ Carries(wire[j].head, asked[wire[j].n].head)
                      /\ Carries(wire[j].body, asked[wire[j].n].body)
    BY DEF SentIsAsked
  <2> DEFINE r == asked[wire[j].n]
  <2>1. /\ r.head \in JsonHeads /\ wire[j].head = CopyIntoFix(r.head)
        /\ r.body \in JsonBodies /\ wire[j].body = CopyIntoFix(r.body)
    BY DEF Copied
  <2>2. r.head \in Seq(Member) /\ r.body \in Seq(Member)
    BY <2>1, JsonObjects
  <2> HIDE DEF r
  <2>3. Carries(wire[j].head, r.head) /\ Carries(wire[j].body, r.body)
    BY <2>1, <2>2, CopyCarries
  <2> QED
    BY <2>3 DEF r
<1> QED
  BY <1>1, CopiesAreSent, PTL

\* A 200 carries all that has a type of one response, each field once and read as
\* the table types it: whatever the counterparty sends.
THEOREM AnswersSayWhatCame == Spec => []AnswerIsReply
<1>1. Numbered => AnswerIsReply
  <2>1. ASSUME Numbered, NEW i \in DOMAIN answers, answers[i].code = 200
        PROVE  /\ ReadsAsTyped(answers[i].head) /\ ReadsAsTyped(answers[i].body)
               /\ \E head \in FixHeads, body \in FixBodies :
                     Tells(answers[i].head, head) /\ Tells(answers[i].body, body)
    <3>1. answers[i] \in Reply
      BY <2>1, NumbersAreNat DEF Answer, Error
    <3>2. PICK head \in FixHeads, body \in FixBodies :
             answers[i].head = CopyIntoJson(head) /\ answers[i].body = CopyIntoJson(body)
      BY <3>1 DEF Reply
    <3>3. head \in Fields /\ body \in Fields
      BY FixMessages
    <3>4. ReadsAsTyped(answers[i].head) /\ ReadsAsTyped(answers[i].body)
      BY <3>2, <3>3, CopyReads
    <3>5. Tells(answers[i].head, head) /\ Tells(answers[i].body, body)
      BY <3>2, <3>3, CopyReads
    <3> QED
      BY <3>4, <3>5
  <2> QED
    BY <2>1 DEF AnswerIsReply
<1> QED
  BY <1>1, Inductive, PTL DEF IInv

\* Requests, orders and answers are what the handlers make of them, and are
\* numbered by a request there is.
THEOREM TypeCorrect == Spec => []TypeOK
<1>1. Numbered /\ Connected /\ Copied => TypeOK
  <2> SUFFICES ASSUME Numbered, Connected, Copied PROVE TypeOK
    OBVIOUS
  <2>1. asked \in Seq(Request) /\ DOMAIN asked = 1..Len(asked) /\ Len(asked) \in Nat
    BY DEF Numbered
  <2>2. ASSUME NEW j \in DOMAIN wire
        PROVE  /\ wire[j].n \in DOMAIN asked /\ wire[j].session \in Session
               /\ wire[j].head \in Fields /\ wire[j].body \in Fields
    <3>1. wire[j].n \in Nat \ {0} /\ wire[j].n <= Len(asked) /\ wire[j] \in Sent
      BY NumbersAreNat DEF Numbered
    <3>2. wire[j].n \in DOMAIN asked /\ wire[j].session \in Session
      BY <2>1, <3>1 DEF Sent
    <3>3. PICK h \in JsonHeads, b \in JsonBodies :
             wire[j].head = CopyIntoFix(h) /\ wire[j].body = CopyIntoFix(b)
      BY DEF Copied
    <3>4. h \in Seq(Member) /\ b \in Seq(Member)
      BY JsonObjects
    <3> QED
      BY <3>2, <3>3, <3>4, CopyCarries
  <2>3. ASSUME NEW i \in DOMAIN answers
        PROVE  /\ answers[i].n \in DOMAIN asked
               /\ answers[i].code \in {200, 400, 404, 500}
               /\ answers[i].head \in Seq(Json) /\ answers[i].body \in Seq(Json)
    <3>1. answers[i].n \in Nat \ {0} /\ answers[i].n <= Len(asked) /\ answers[i] \in Answer
      BY NumbersAreNat DEF Numbered
    <3>2. answers[i].n \in DOMAIN asked
      BY <2>1, <3>1
    <3>3. CASE answers[i] \in Error
      <4>1. answers[i].code \in {400, 404, 500}
        BY <3>3 DEF Error
      <4>2. answers[i].head = <<>> /\ answers[i].body = <<>>
        BY <3>3 DEF Error
      <4>3. <<>> \in Seq(Json)
        OBVIOUS
      <4> QED
        BY <3>2, <4>1, <4>2, <4>3
    <3>4. CASE answers[i] \in Reply
      <4>1. PICK head \in FixHeads, body \in FixBodies :
               answers[i].head = CopyIntoJson(head) /\ answers[i].body = CopyIntoJson(body)
        BY <3>4 DEF Reply
      <4>2. head \in Fields /\ body \in Fields
        BY FixMessages
      <4>3. answers[i].code = 200
        BY <3>4 DEF Reply
      <4> QED
        BY <3>2, <4>1, <4>2, <4>3, CopyReads
    <3> QED
      BY <3>1, <3>3, <3>4 DEF Answer
  <2> QED
    BY <2>2, <2>3 DEF TypeOK, Connected
<1> QED
  BY <1>1, Inductive, CopiesAreSent, PTL DEF IInv
=============================================================================
