----------------------------- MODULE CallsProofs ----------------------------
(***************************************************************************)
(* Proofs about calls and the namespaces they go through, for any number   *)
(* of namespaces, objects, symbols and cdata, any signatures, and any      *)
(* nesting of calls.                                                       *)
(***************************************************************************)
EXTENDS Calls, FiniteSetTheorems, SequenceTheorems, TLAPS

-----------------------------------------------------------------------------
(***************************************************************************)
(* The argument buffer, for any number of arguments and any size of a      *)
(* place for a value                                                       *)
(***************************************************************************)
(* What the words of a buffer that are written are for. *)
Uses == {"value", "type", "pointer"}
At(n, use, i) ==
  IF use = "value" THEN ValueAt(n, i) ELSE IF use = "type" THEN TypeAt(n, i) ELSE PointerAt(n, i)

(* The places for values end where the types begin. *)
LEMMA PlaceBefore ==
  ASSUME NEW n \in Nat, NEW i \in 0..(n - 1)
  PROVE  i * StorWords \in Nat /\ n * StorWords \in Nat /\ i * StorWords + StorWords <= n * StorWords
<1>1. StorWords \in Nat
  BY StorAssumption
<1>2. PICK k \in Nat : n = (i + 1) + k
  <2>1. n - (i + 1) \in Nat /\ n = (i + 1) + (n - (i + 1))
    OBVIOUS
  <2>. QED  BY <2>1
<1>3. n * StorWords = (i * StorWords + StorWords) + k * StorWords
  BY <1>1, <1>2
<1>4. i * StorWords \in Nat /\ k * StorWords \in Nat
  BY <1>1, <1>2
<1>. QED  BY <1>1, <1>3, <1>4

(* Places of different arguments are different. *)
LEMMA PlacesApart ==
  ASSUME NEW i \in Nat, NEW j \in Nat, i * StorWords = j * StorWords
  PROVE  i = j
<1>1. StorWords \in Nat \ {0}
  BY StorAssumption
<1>2. ASSUME NEW a \in Nat, NEW b \in Nat, a < b
      PROVE  a * StorWords < b * StorWords
  <2>1. a \in 0..(b - 1)
    BY <1>2
  <2>. QED  BY <1>1, <2>1, PlaceBefore
<1>3. CASE i < j
  BY <1>2, <1>3, StorAssumption
<1>4. CASE j < i
  BY <1>2, <1>4, StorAssumption
<1>. QED  BY <1>3, <1>4

(* Every word that is written is written for one thing only, and is inside *)
(* a buffer that has room for as many arguments or more.                   *)
LEMMA WordsApart ==
  ASSUME NEW n \in Nat, NEW i \in 0..(n - 1), NEW j \in 0..(n - 1),
         NEW u \in Uses, NEW w \in Uses, At(n, u, i) = At(n, w, j)
  PROVE  u = w /\ i = j
<1>1. i * StorWords \in Nat /\ i * StorWords + StorWords <= n * StorWords
  BY PlaceBefore
<1>2. j * StorWords \in Nat /\ j * StorWords + StorWords <= n * StorWords
  BY PlaceBefore
<1>3. StorWords \in Nat \ {0} /\ n * StorWords \in Nat
  BY StorAssumption, PlaceBefore
<1>4. u = w
  BY <1>1, <1>2, <1>3 DEF At, Uses, ValueAt, TypeAt, PointerAt
<1>5. CASE u = "value"
  BY <1>4, <1>5, PlacesApart DEF At, ValueAt
<1>6. CASE u # "value"
  BY <1>4, <1>6, <1>3 DEF At, Uses, TypeAt, PointerAt
<1>. QED  BY <1>4, <1>5, <1>6

LEMMA WordsInside ==
  ASSUME NEW n \in Nat, NEW capacity \in Nat, n <= capacity,
         NEW i \in 0..(n - 1), NEW u \in Uses
  PROVE  At(n, u, i) \in Nat /\ At(n, u, i) < Size(capacity)
<1>1. i * StorWords \in Nat /\ i * StorWords + StorWords <= n * StorWords
  BY PlaceBefore
<1>2. StorWords \in Nat \ {0} /\ n * StorWords \in Nat
  BY StorAssumption, PlaceBefore
<1>3. capacity * StorWords \in Nat /\ n * StorWords <= capacity * StorWords
  <2>1. CASE n = capacity
    BY <2>1, <1>2
  <2>2. CASE n # capacity
    <3>1. n \in 0..(capacity - 1)
      BY <2>2
    <3>. QED  BY <3>1, <1>2, PlaceBefore
  <2>. QED  BY <2>1, <2>2
<1>. QED  BY <1>1, <1>2, <1>3 DEF At, Uses, ValueAt, TypeAt, PointerAt, Size

(* The writes of a call, each at the place for one use of one argument. *)
LEMMA StoresAt ==
  ASSUME NEW n \in Nat, NEW args \in [1..n -> Kinds], NEW fixed \in Nat,
         NEW s \in Stores(n, args, fixed)
  PROVE  \E i \in 0..(n - 1) :
           \/ s = Store(0, At(n, "type", i), Type)
           \/ s \in Convert(n, i, args[i + 1], fixed)
BY DEF Stores, At

LEMMA ConvertAt ==
  ASSUME NEW n \in Nat, NEW i \in 0..(n - 1), NEW arg \in Kinds, NEW fixed \in Nat,
         NEW s \in Convert(n, i, arg, fixed)
  PROVE  s.at = At(n, "value", i) \/ s.at = At(n, "pointer", i)
BY DEF Convert, At, Kinds, Store

(* The only write to a word is what it holds. *)
LEMMA OnlyWrite ==
  ASSUME NEW stores, NEW capacity \in Nat, NEW s \in stores,
         s.at \in Nat, s.at < Size(capacity), s.time \in Nat,
         \A r \in stores : r.at = s.at => r = s
  PROVE  Content(stores, capacity, s.at) = s.word
<1>. DEFINE here == {r \in stores : r.at = s.at}
<1>1. here = {s}
  OBVIOUS
<1>2. ~(s.at >= Size(capacity))
  <2>1. Size(capacity) \in Nat
    <3>1. StorWords \in Nat
      BY StorAssumption
    <3>. QED  BY <3>1 DEF Size
  <2>. QED  BY <2>1
<1>3. (CHOOSE t \in here : \A r \in here : r.time <= t.time) = s
  BY <1>1
<1>. QED  BY <1>1, <1>2, <1>3 DEF Content

-----------------------------------------------------------------------------
(* Two writes for one argument that go to the same word are the same. *)
LEMMA ConvertOnce ==
  ASSUME NEW n \in Nat, NEW i \in 0..(n - 1), NEW arg \in Kinds, NEW fixed \in Nat,
         NEW s \in Convert(n, i, arg, fixed), NEW r \in Convert(n, i, arg, fixed), r.at = s.at
  PROVE  r = s
<1>1. ValueAt(n, i) # PointerAt(n, i)
  BY WordsApart DEF At, Uses
<1>2. CASE arg = "number"
  BY <1>1, <1>2 DEF Convert, Store
<1>3. CASE arg # "number"
  <2>1. CASE arg = "record" /\ i >= fixed
    BY <1>3, <2>1 DEF Convert
  <2>2. CASE ~(arg = "record" /\ i >= fixed)
    BY <1>3, <2>2 DEF Convert
  <2>. QED  BY <2>1, <2>2
<1>. QED  BY <1>2, <1>3

(* A buffer that has room for the arguments of a call holds, when C is     *)
(* called, every type and whatever was written for each argument.          *)
LEMMA TypesHeld ==
  ASSUME NEW n \in Nat, NEW capacity \in Nat, n <= capacity, NEW fixed \in Nat,
         NEW args \in [1..n -> Kinds], NEW i \in 0..(n - 1)
  PROVE  Content(Stores(n, args, fixed), capacity, TypeAt(n, i)) = Type
<1>. DEFINE stores == Stores(n, args, fixed)
<1>1. Store(0, TypeAt(n, i), Type) \in stores
  BY DEF Stores
<1>2. PICK s \in stores : s = Store(0, At(n, "type", i), Type)
  BY <1>1 DEF At
<1>3. s.at = TypeAt(n, i) /\ s.at = At(n, "type", i) /\ s.time \in Nat /\ s.word = Type
  BY <1>2 DEF Store, At
<1>4. s.at \in Nat /\ s.at < Size(capacity)
  BY <1>3, WordsInside DEF Uses
<1>5. ASSUME NEW r \in stores, r.at = s.at
      PROVE  r = s
  <2>1. PICK j \in 0..(n - 1) : r = Store(0, At(n, "type", j), Type) \/ r \in Convert(n, j, args[j + 1], fixed)
    BY StoresAt
  <2>2. CASE r = Store(0, At(n, "type", j), Type)
    <3>1. At(n, "type", j) = At(n, "type", i)
      BY <1>5, <1>3, <2>2 DEF Store
    <3>. QED  BY <3>1, <2>2, <1>2
  <2>3. CASE r \in Convert(n, j, args[j + 1], fixed)
    <3>1. args[j + 1] \in Kinds
      OBVIOUS
    <3>2. r.at = At(n, "value", j) \/ r.at = At(n, "pointer", j)
      BY <2>3, <3>1, ConvertAt
    <3>. QED  BY <3>2, <1>5, <1>3, WordsApart DEF Uses
  <2>. QED  BY <2>1, <2>2, <2>3
<1>. HIDE DEF stores
<1>6. Content(stores, capacity, s.at) = s.word
  BY <1>3, <1>4, <1>5, OnlyWrite
<1>. QED  BY <1>3, <1>6 DEF stores

LEMMA WritesHeld ==
  ASSUME NEW n \in Nat, NEW capacity \in Nat, n <= capacity, NEW fixed \in Nat,
         NEW args \in [1..n -> Kinds], NEW i \in 0..(n - 1), NEW s \in Convert(n, i, args[i + 1], fixed)
  PROVE  Content(Stores(n, args, fixed), capacity, s.at) = s.word
<1>. DEFINE stores == Stores(n, args, fixed)
<1>1. s \in stores
  BY DEF Stores
<1>2. \A j \in 0..(n - 1) : args[j + 1] \in Kinds
  OBVIOUS
<1>3. PICK u \in {"value", "pointer"} : s.at = At(n, u, i)
  BY <1>2, ConvertAt
<1>4. s.at \in Nat /\ s.at < Size(capacity) /\ s.time \in Nat
  <2>1. s.at \in Nat /\ s.at < Size(capacity)
    BY <1>3, WordsInside DEF Uses
  <2>2. s.time = 2 * i + 1 \/ s.time = 2 * i + 2
    BY DEF Convert, Store
  <2>. QED  BY <2>1, <2>2
<1>5. ASSUME NEW r \in stores, r.at = s.at
      PROVE  r = s
  <2>1. PICK j \in 0..(n - 1) : r = Store(0, At(n, "type", j), Type) \/ r \in Convert(n, j, args[j + 1], fixed)
    BY StoresAt
  <2>2. CASE r = Store(0, At(n, "type", j), Type)
    <3>1. At(n, "type", j) = At(n, u, i)
      BY <1>5, <1>3, <2>2 DEF Store
    <3>. QED  BY <3>1, WordsApart DEF Uses
  <2>3. CASE r \in Convert(n, j, args[j + 1], fixed)
    <3>1. PICK w \in {"value", "pointer"} : r.at = At(n, w, j)
      BY <2>3, <1>2, ConvertAt
    <3>2. At(n, w, j) = At(n, u, i) /\ u \in Uses /\ w \in Uses
      BY <3>1, <1>3, <1>5 DEF Uses
    <3>3. i = j
      BY <3>2, WordsApart
    <3>4. r \in Convert(n, i, args[i + 1], fixed) /\ args[i + 1] \in Kinds
      BY <3>3, <2>3, <1>2
    <3>. QED  BY <3>4, <1>5, ConvertOnce
  <2>. QED  BY <2>1, <2>2, <2>3
<1>. HIDE DEF stores
<1>. QED  BY <1>1, <1>4, <1>5, OnlyWrite DEF stores

(***************************************************************************)
(* A buffer that has room for the arguments of a call delivers them, for   *)
(* any number of arguments and whatever the buffer held before; a record   *)
(* in the variable part aside. (prepare_cif_var, call_cif)                 *)
(***************************************************************************)
THEOREM RoomDelivers ==
  ASSUME NEW n \in 0..MaxArgs, NEW capacity \in 0..MaxArgs, n <= capacity, NEW fixed \in 0..MaxArgs
  PROVE  Delivers[n][capacity][fixed]
<1>. DEFINE Arrive == \A args \in [1..n -> Kinds] : \A i \in 0..(n - 1) :
                        \/ Passed(Stores(n, args, fixed), capacity, n, i) = Word("value", i)
                        \/ args[i + 1] = "record" /\ i >= fixed
<1>1. Arrive
  <2>. SUFFICES ASSUME NEW args \in [1..n -> Kinds], NEW i \in 0..(n - 1),
                       ~(args[i + 1] = "record" /\ i >= fixed)
                PROVE  Passed(Stores(n, args, fixed), capacity, n, i) = Word("value", i)
    OBVIOUS
  <2>. DEFINE stores == Stores(n, args, fixed)
  <2>1. n \in Nat /\ capacity \in Nat /\ fixed \in Nat /\ args[i + 1] \in Kinds
    BY StorAssumption
  <2>2. Content(stores, capacity, TypeAt(n, i)) = Type
    BY <2>1, TypesHeld
  <2>3. CASE args[i + 1] = "number"
    <3>. DEFINE value == Store(2 * i + 1, ValueAt(n, i), Word("value", i))
                pointer == Store(2 * i + 2, PointerAt(n, i), Word("word", ValueAt(n, i)))
    <3>1. value \in Convert(n, i, args[i + 1], fixed) /\ pointer \in Convert(n, i, args[i + 1], fixed)
      BY <2>3 DEF Convert
    <3>2. /\ value.at = ValueAt(n, i) /\ value.word = Word("value", i)
          /\ pointer.at = PointerAt(n, i) /\ pointer.word = Word("word", ValueAt(n, i))
      BY DEF Store
    <3>. HIDE DEF value, pointer
    <3>3. Content(stores, capacity, ValueAt(n, i)) = Word("value", i)
      BY <2>1, <3>1, <3>2, WritesHeld
    <3>4. Content(stores, capacity, PointerAt(n, i)) = Word("word", ValueAt(n, i))
      BY <2>1, <3>1, <3>2, WritesHeld
    <3>. HIDE DEF stores
    <3>5. Passed(stores, capacity, n, i) = Content(stores, capacity, ValueAt(n, i))
      BY <2>2, <3>4 DEF Passed, Word
    <3>. QED  BY <3>3, <3>5 DEF stores
  <2>4. CASE args[i + 1] # "number"
    <3>. DEFINE pointer == Store(2 * i + 1, PointerAt(n, i), Word("outside", i))
    <3>1. pointer \in Convert(n, i, args[i + 1], fixed)
      BY <2>4 DEF Convert
    <3>2. pointer.at = PointerAt(n, i) /\ pointer.word = Word("outside", i)
      BY DEF Store
    <3>. HIDE DEF pointer
    <3>3. Content(stores, capacity, PointerAt(n, i)) = Word("outside", i)
      BY <2>1, <3>1, <3>2, WritesHeld
    <3>. HIDE DEF stores
    <3>4. Passed(stores, capacity, n, i) = Word("value", i)
      BY <2>2, <3>3 DEF Passed, Word
    <3>. QED  BY <3>4 DEF stores
  <2>. QED  BY <2>3, <2>4
<1>. QED  BY <1>1 DEF Delivers

-----------------------------------------------------------------------------
(***************************************************************************)
(* The inductive invariant                                                 *)
(***************************************************************************)
IsOpen(s) == space[s].st = "open"

(* An open object has been mapped; only open ones are searched.  With the  *)
(* counts right, this makes the object of an open namespace mapped.        *)
Linked ==
  /\ \A o \in Object : object[o].opens > 0 => object[o].load > 0
  /\ \A o \in scope : object[o].opens > 0

(* cffi.C is always open and has no object; others have one while open. *)
Spaces ==
  /\ space[Default].held /\ space[Default].object = Null
  /\ \A s \in Space : /\ space[s].held => IsOpen(s)
                      /\ IsOpen(s) /\ s # Default => space[s].object \in Object

(* What the table of a namespace holds is in its object as mapped now.     *)
(* What that of cffi.C holds is in an object that is searched, or in none  *)
(* that is mapped and none that will be.                                   *)
CacheHolds(s, n, a) ==
  IF s = Default
  THEN /\ a.object \in Object /\ a.load <= object[a.object].load
       /\ IsMapped(a) => a.object \in scope /\ n \in Exports[a.object]
  ELSE a = Here(space[s].object) /\ n \in Exports[space[s].object]

Caches ==
  \A s \in Space, n \in Symbol :
    IsOpen(s) /\ space[s].cache[n] # NoAddress => CacheHolds(s, n, space[s].cache[n])

LibraryInv == LibraryTypeOK /\ OpensCounted /\ Linked /\ Spaces /\ Caches

(* A cdata in use is live, and so is one whose function runs. *)
Handles ==
  /\ \A h \in Handle : fdata[h].held => fdata[h].live
  /\ \A i \in DOMAIN stack : fdata[stack[i].handle].live

(* The address in a cdata is that of its namespace, as long as it is open. *)
Origins ==
  \A h \in Handle : fdata[h].live /\ fdata[h].from # Default =>
    /\ space[fdata[h].from].st # "none"
    /\ IsOpen(fdata[h].from) => fdata[h].addr = Here(space[fdata[h].from].object)

IInv == LibraryInv /\ TypeOK /\ Handles /\ Origins /\ OpenNamespacesServe /\ ResultsWait /\ StorageHolds

-----------------------------------------------------------------------------
(***************************************************************************)
(* Lemmas about namespaces and the linker                                  *)
(***************************************************************************)
LEMMA SpaceAt ==
  ASSUME LibraryTypeOK, NEW s \in Space
  PROVE  /\ space[s].st \in {"none", "open", "closed"}
         /\ space[s].held \in BOOLEAN
         /\ space[s].object \in Object \cup {Null}
         /\ space[s].cache \in [Symbol -> Address \cup {NoAddress}]
BY DEF LibraryTypeOK, SpaceState, Cache

LEMMA ObjectAt ==
  ASSUME LibraryTypeOK, NEW o \in Object
  PROVE  object[o].opens \in Nat /\ object[o].load \in 0..MaxLoads
BY DEF LibraryTypeOK, ObjectState

LEMMA NoAddressApart == NoAddress \notin Address
BY NoObjectAssumption DEF NoAddress, Address

LEMMA OpenOnFinite ==
  ASSUME NEW o
  PROVE  IsFiniteSet(OpenOn(o)) /\ Cardinality(OpenOn(o)) \in Nat
<1>1. OpenOn(o) \in SUBSET Space
  BY DEF OpenOn
<1>. QED  BY <1>1, SpaceAssumption, FS_Subset, FS_CardinalityType

(* The object of an open namespace is open. *)
LEMMA OpenCounted ==
  ASSUME LibraryTypeOK, OpensCounted, NEW s \in Space, IsOpen(s), space[s].object \in Object
  PROVE  object[space[s].object].opens > 0
<1>. DEFINE o == space[s].object
<1>1. s \in OpenOn(o)
  BY DEF OpenOn, IsOpen
<1>2. Cardinality(OpenOn(o)) # 0
  BY <1>1, OpenOnFinite, FS_EmptySet
<1>. QED  BY <1>2, OpenOnFinite, ObjectAt DEF OpensCounted

(* dlsym() finds addresses in mapped objects that have the symbol. *)
LEMMA FoundMapped ==
  ASSUME LibraryInv, NEW s \in Space, NEW n \in Symbol, IsOpen(s), NEW a \in Found(s, n)
  PROVE  a \in Address /\ IsMapped(a) /\ CacheHolds(s, n, a)
<1>1. PICK o \in IF s = Default THEN scope ELSE {space[s].object} : a = Here(o) /\ n \in Exports[o]
  BY DEF Found
<1>2. o \in Object /\ object[o].opens > 0
  <2>1. CASE s = Default
    BY <2>1, <1>1 DEF LibraryInv, Linked, LibraryTypeOK
  <2>2. CASE s # Default
    BY <2>2, <1>1, OpenCounted DEF LibraryInv, Spaces
  <2>. QED  BY <2>1, <2>2
<1>3. object[o].load \in 1..MaxLoads
  BY <1>2, ObjectAt, LoadsAssumption DEF LibraryInv, Linked
<1>4. a \in Address /\ IsMapped(a)
  BY <1>1, <1>2, <1>3 DEF Here, Address, IsMapped
<1>5. CacheHolds(s, n, a)
  BY <1>1, <1>2, <1>3, ObjectAt DEF CacheHolds, Here, LibraryInv
<1>. QED  BY <1>4, <1>5

(* What get_sym() returns may go into the table, and is mapped unless it   *)
(* was in that of cffi.C.                                                  *)
LEMMA GetSymHolds ==
  ASSUME LibraryInv, NEW s \in Space, NEW n \in Symbol, IsOpen(s), NEW a \in GetSym(s, n)
  PROVE  a \in Address /\ CacheHolds(s, n, a) /\ (s # Default => IsMapped(a))
<1>1. CASE a \in Found(s, n)
  BY <1>1, FoundMapped
<1>2. CASE a = space[s].cache[n] /\ a # NoAddress
  <2>1. a \in Address /\ CacheHolds(s, n, a)
    BY <1>2, SpaceAt DEF LibraryInv, Caches
  <2>2. ASSUME s # Default PROVE IsMapped(a)
    <3>1. space[s].object \in Object /\ object[space[s].object].opens > 0
      BY <2>2, OpenCounted DEF LibraryInv, Spaces
    <3>. QED  BY <2>1, <2>2, <3>1 DEF CacheHolds, Here, IsMapped
  <2>. QED  BY <2>1, <2>2
<1>. QED  BY <1>1, <1>2 DEF GetSym

(* dlopen() changes no mapping that is in use. *)
LEMMA OpenKeeps ==
  ASSUME LibraryInv, NEW o \in Object, NEW g \in BOOLEAN, Open(o, g)
  PROVE  /\ object' \in [Object -> ObjectState] /\ scope' \subseteq Object
         /\ \A p \in Object : object'[p].opens = object[p].opens + IF p = o THEN 1 ELSE 0
         /\ \A p \in Object : object[p].opens > 0 => object'[p].load = object[p].load
         /\ \A p \in Object : object[p].opens = 0 /\ object'[p].opens > 0 => object'[p].load > object[p].load
         /\ \A p \in Object : object'[p].load >= object[p].load
         /\ scope \subseteq scope' /\ scope' \subseteq scope \cup {o}
         /\ Linked'
<1>1. object \in [Object -> ObjectState]
  BY DEF LibraryInv, LibraryTypeOK
<1>2. \A p \in Object : object[p].opens \in Nat /\ object[p].load \in 0..MaxLoads
  BY ObjectAt DEF LibraryInv
<1>3. scope \subseteq scope' /\ scope' \subseteq scope \cup {o} /\ scope' \subseteq Object
  BY DEF Open, LibraryInv, LibraryTypeOK
<1>4. CASE object[o].opens = 0
  <2>1. object' = [object EXCEPT ![o] = [opens |-> 1, load |-> object[o].load + 1]] /\ object[o].load < MaxLoads
    BY <1>4 DEF Open
  <2>2. [opens |-> 1, load |-> object[o].load + 1] \in ObjectState
    BY <2>1, <1>2, LoadsAssumption DEF ObjectState
  <2>3. object' \in [Object -> ObjectState]
    BY <2>1, <2>2, <1>1
  <2>4. \A p \in Object : object'[p] = IF p = o THEN [opens |-> 1, load |-> object[o].load + 1] ELSE object[p]
    BY <2>1, <1>1
  <2>. QED  BY <2>3, <2>4, <1>2, <1>3, <1>4, LoadsAssumption DEF Linked, LibraryInv
<1>5. CASE object[o].opens # 0
  <2>1. object' = [object EXCEPT ![o].opens = object[o].opens + 1]
    BY <1>5 DEF Open
  <2>2. \A p \in Object : object'[p].opens = (IF p = o THEN object[o].opens + 1 ELSE object[p].opens)
                         /\ object'[p].load = object[p].load
    BY <2>1, <1>1 DEF ObjectState
  <2>3. object' \in [Object -> ObjectState]
    BY <2>1, <1>1, <1>2 DEF ObjectState
  <2>. QED  BY <2>3, <2>2, <1>2, <1>3, <1>5, LoadsAssumption DEF Linked, LibraryInv
<1>. QED  BY <1>4, <1>5

(* dlclose() changes no mapping either. *)
LEMMA ShutKeeps ==
  ASSUME LibraryInv, NEW o \in Object, object[o].opens > 0, Shut(o)
  PROVE  /\ object' \in [Object -> ObjectState] /\ scope' \subseteq scope
         /\ \A p \in Object : object'[p].opens = object[p].opens - IF p = o THEN 1 ELSE 0
         /\ \A p \in Object : object'[p].load = object[p].load
         /\ \A p \in scope : p \in scope' \/ object'[p].opens = 0
         /\ Linked'
<1>1. object \in [Object -> ObjectState] /\ object' = [object EXCEPT ![o].opens = object[o].opens - 1]
      /\ scope \subseteq Object
  BY DEF LibraryInv, LibraryTypeOK, Shut
<1>2. \A p \in Object : object[p].opens \in Nat /\ object[p].load \in 0..MaxLoads
  BY ObjectAt DEF LibraryInv
<1>3. \A p \in Object : object'[p].opens = (IF p = o THEN object[o].opens - 1 ELSE object[p].opens)
                       /\ object'[p].load = object[p].load
  BY <1>1 DEF ObjectState
<1>4. object' \in [Object -> ObjectState]
  BY <1>1, <1>2 DEF ObjectState
<1>5. scope' = IF object[o].opens = 1 THEN scope \ {o} ELSE scope
  BY DEF Shut
<1>6. \A p \in scope : object[p].opens > 0
  BY DEF LibraryInv, Linked
<1>7. Linked'
  BY <1>1, <1>2, <1>3, <1>5, <1>6 DEF Linked, LibraryInv
<1>. QED  BY <1>1, <1>2, <1>3, <1>4, <1>5, <1>7

(***************************************************************************)
(* Every step of a namespace preserves its part of the invariant, and the  *)
(* namespaces that are open before and after it have their mappings.       *)
(***************************************************************************)
Steady ==
  \A t \in Space : /\ space[t].st # "none" => space'[t].st # "none"
                   /\ t # Default /\ space[t].st # "none" /\ space'[t].st = "open" =>
                        /\ IsOpen(t)
                        /\ Here(space[t].object)' = Here(space[t].object)
                        /\ space'[t].object = space[t].object

LEMMA CountOneMore ==
  ASSUME OpensCounted, NEW o \in Object, NEW s
  PROVE  /\ object[o].opens = Cardinality(OpenOn(o))
         /\ s \notin OpenOn(o) => Cardinality(OpenOn(o) \cup {s}) = object[o].opens + 1
         /\ s \in OpenOn(o) => Cardinality(OpenOn(o) \ {s}) = object[o].opens - 1
<1>1. object[o].opens = Cardinality(OpenOn(o)) /\ IsFiniteSet(OpenOn(o)) /\ Cardinality(OpenOn(o)) \in Nat
  BY OpenOnFinite DEF OpensCounted
<1>2. s \notin OpenOn(o) => Cardinality(OpenOn(o) \cup {s}) = object[o].opens + 1
  BY <1>1, FS_AddElement
<1>3. s \in OpenOn(o) => Cardinality(OpenOn(o) \ {s}) = object[o].opens - 1
  BY <1>1, FS_RemoveElement
<1>. QED  BY <1>1, <1>2, <1>3

LEMMA LoadKeeps ==
  ASSUME LibraryInv, NEW s \in Space, NEW o \in Object, NEW g \in BOOLEAN, Load(s, o, g)
  PROVE  LibraryInv' /\ Steady
<1>. DEFINE new == [st |-> "open", held |-> TRUE, object |-> o, cache |-> EmptyCache]
<1>1. /\ Open(o, g) /\ space[s].st = "none" /\ space \in [Space -> SpaceState]
      /\ space' = [space EXCEPT ![s] = new]
  BY DEF Load, LibraryInv, LibraryTypeOK
<1>2. \A t \in Space : space'[t] = IF t = s THEN new ELSE space[t]
  BY <1>1
<1>3. s # Default /\ ~IsOpen(s)
  BY <1>1, SpaceAssumption DEF LibraryInv, Spaces, IsOpen
<1>4. LibraryTypeOK'
  <2>1. new \in SpaceState
    BY DEF SpaceState, EmptyCache, Cache
  <2>2. space' \in [Space -> SpaceState]
    BY <1>1, <2>1
  <2>. QED  BY <1>1, <2>2, OpenKeeps DEF LibraryTypeOK
<1>5. OpensCounted'
  <2>. SUFFICES ASSUME NEW p \in Object PROVE object'[p].opens = Cardinality(OpenOn(p)')
    BY DEF OpensCounted
  <2>1. OpenOn(p)' = IF p = o THEN OpenOn(p) \cup {s} ELSE OpenOn(p)
    BY <1>1, <1>2 DEF OpenOn
  <2>2. s \notin OpenOn(p)
    BY <1>3 DEF OpenOn, IsOpen
  <2>3. object'[p].opens = object[p].opens + IF p = o THEN 1 ELSE 0
    BY <1>1, OpenKeeps
  <2>4. CASE p = o
    BY <2>1, <2>2, <2>3, <2>4, CountOneMore DEF LibraryInv
  <2>5. CASE p # o
    <3>1. object'[p].opens = object[p].opens
      BY <2>3, <2>5, ObjectAt DEF LibraryInv
    <3>. QED  BY <2>1, <2>5, <3>1, CountOneMore DEF LibraryInv
  <2>. QED  BY <2>4, <2>5
<1>6. Linked'
  BY <1>1, OpenKeeps
<1>7. Spaces'
  BY <1>2, <1>3, SpaceAssumption DEF Spaces, LibraryInv, IsOpen
<1>8. Steady
  <2>. SUFFICES ASSUME NEW t \in Space, space[t].st # "none"
       PROVE  /\ space'[t].st # "none"
              /\ t # Default /\ space'[t].st = "open" =>
                   /\ IsOpen(t)
                   /\ Here(space[t].object)' = Here(space[t].object)
                   /\ space'[t].object = space[t].object
    BY DEF Steady
  <2>1. t # s /\ space'[t] = space[t]
    BY <1>1, <1>2
  <2>2. ASSUME t # Default, IsOpen(t) PROVE Here(space[t].object)' = Here(space[t].object)
    <3>1. space[t].object \in Object /\ object[space[t].object].opens > 0
      BY <2>2, OpenCounted DEF LibraryInv, Spaces
    <3>2. object'[space[t].object].load = object[space[t].object].load
      BY <3>1, <1>1, OpenKeeps
    <3>. QED  BY <3>2, <2>1 DEF Here
  <2>. QED  BY <2>1, <2>2 DEF IsOpen
<1>9. Caches'
  <2>. SUFFICES ASSUME NEW t \in Space, NEW n \in Symbol, IsOpen(t)', space'[t].cache[n] # NoAddress
       PROVE  CacheHolds(t, n, space[t].cache[n])'
    BY DEF Caches, NoAddress
  <2>1. t # s
    BY <1>2 DEF EmptyCache
  <2>2. space'[t] = space[t] /\ IsOpen(t) /\ CacheHolds(t, n, space[t].cache[n])
    BY <2>1, <1>2 DEF LibraryInv, Caches, IsOpen
  <2>3. CASE t # Default
    <3>1. Here(space[t].object)' = Here(space[t].object)
      BY <1>8, <2>2, <2>3 DEF Steady, IsOpen
    <3>2. space[t].cache[n] = Here(space[t].object) /\ n \in Exports[space[t].object]
      BY <2>2, <2>3 DEF CacheHolds
    <3>3. CacheHolds(t, n, space[t].cache[n])' <=>
            (space'[t].cache[n] = Here(space[t].object)' /\ n \in Exports[space'[t].object])
      BY <2>3 DEF CacheHolds
    <3>. QED  BY <2>2, <3>1, <3>2, <3>3
  <2>4. CASE t = Default
    <3>. DEFINE a == space[t].cache[n]
    <3>1. a.object \in Object /\ a.load <= object[a.object].load
          /\ (IsMapped(a) => a.object \in scope /\ n \in Exports[a.object])
      BY <2>2, <2>4 DEF CacheHolds
    <3>2. a.load \in Nat /\ object[a.object].load \in Nat /\ object'[a.object].load \in Nat
          /\ object[a.object].opens \in Nat
      <4>1. a \in Address
        BY <2>2, SpaceAt DEF LibraryInv
      <4>. QED  BY <4>1, <3>1, <1>4, ObjectAt, LoadsAssumption DEF Address, LibraryInv, LibraryTypeOK, ObjectState
    <3>3. /\ object[a.object].opens > 0 => object'[a.object].load = object[a.object].load
          /\ object[a.object].opens = 0 /\ object'[a.object].opens > 0 =>
               object'[a.object].load > object[a.object].load
          /\ object'[a.object].load >= object[a.object].load
          /\ scope \subseteq scope'
      BY <3>1, <1>1, OpenKeeps
    <3>4. a.load <= object'[a.object].load
      BY <3>1, <3>2, <3>3
    <3>5. ASSUME object'[a.object].opens > 0, object'[a.object].load = a.load
          PROVE  IsMapped(a)
      BY <3>1, <3>2, <3>3, <3>5 DEF IsMapped
    <3>. QED  BY <2>2, <2>4, <3>1, <3>3, <3>4, <3>5 DEF CacheHolds, IsMapped
  <2>. QED  BY <2>3, <2>4
<1>. QED  BY <1>4, <1>5, <1>6, <1>7, <1>8, <1>9 DEF LibraryInv

(* A step that changes no more of the namespaces than what is held, or an  *)
(* entry of a table that may be there.                                     *)
LEMMA SpacesKept ==
  ASSUME LibraryInv, UNCHANGED <<object, scope>>, space' \in [Space -> SpaceState],
         space'[Default].held,
         \A t \in Space : /\ space'[t].st = space[t].st /\ space'[t].object = space[t].object
                          /\ space'[t].held => space[t].held
                          /\ \A m \in Symbol : space'[t].cache[m] = space[t].cache[m]
                                            \/ CacheHolds(t, m, space'[t].cache[m])
  PROVE  LibraryInv' /\ Steady
<1>1. \A o : OpenOn(o)' = OpenOn(o)
  BY DEF OpenOn
<1>2. LibraryTypeOK' /\ OpensCounted' /\ Linked'
  BY <1>1 DEF LibraryInv, LibraryTypeOK, OpensCounted, Linked
<1>3. \A t \in Space : IsOpen(t)' = IsOpen(t)
  BY DEF IsOpen
<1>4. Spaces'
  BY <1>3, SpaceAssumption DEF Spaces, LibraryInv
<1>5. Steady
  BY DEF Steady, IsOpen, Here
<1>6. \A b : IsMapped(b)' = IsMapped(b)
  BY DEF IsMapped
<1>7. ASSUME NEW t \in Space, NEW m \in Symbol, NEW b PROVE CacheHolds(t, m, b)' = CacheHolds(t, m, b)
  BY <1>6 DEF CacheHolds, Here
<1>8. Caches'
  <2>. SUFFICES ASSUME NEW t \in Space, NEW m \in Symbol, IsOpen(t)', space'[t].cache[m] # NoAddress
       PROVE  CacheHolds(t, m, space'[t].cache[m])
    BY <1>7 DEF Caches, NoAddress
  <2>. QED  BY <1>3 DEF LibraryInv, Caches
<1>. QED  BY <1>2, <1>4, <1>5, <1>8 DEF LibraryInv

LEMMA LoseKeeps ==
  ASSUME LibraryInv, NEW s \in Space, Lose(s)
  PROVE  LibraryInv' /\ Steady
<1>1. /\ space \in [Space -> SpaceState] /\ s # Default /\ UNCHANGED <<object, scope>>
      /\ space' = [space EXCEPT ![s].held = FALSE]
  BY DEF Lose, LibraryInv, LibraryTypeOK
<1>2. \A t \in Space : /\ space'[t].st = space[t].st /\ space'[t].object = space[t].object
                       /\ space'[t].cache = space[t].cache
                       /\ space'[t].held = IF t = s THEN FALSE ELSE space[t].held
  BY <1>1 DEF SpaceState
<1>3. space' \in [Space -> SpaceState]
  BY <1>1 DEF SpaceState
<1>4. space'[Default].held
  BY <1>1, <1>2, SpaceAssumption DEF LibraryInv, Spaces
<1>5. \A t \in Space : space'[t].held => space[t].held
  BY <1>2
<1>. QED  BY <1>1, <1>2, <1>3, <1>4, <1>5, SpacesKept

LEMMA RememberKeeps ==
  ASSUME LibraryInv, NEW s \in Space, NEW n \in Symbol, IsOpen(s), NEW a \in GetSym(s, n),
         Remember(s, n, a), UNCHANGED <<object, scope>>
  PROVE  LibraryInv' /\ Steady
<1>1. space \in [Space -> SpaceState] /\ space' = [space EXCEPT ![s].cache[n] = a]
  BY DEF Remember, LibraryInv, LibraryTypeOK
<1>2. a \in Address /\ CacheHolds(s, n, a)
  BY GetSymHolds
<1>3. \A t \in Space : space[t].cache \in Cache
  BY SpaceAt DEF LibraryInv, Cache
<1>4. \A t \in Space : /\ space'[t].st = space[t].st /\ space'[t].object = space[t].object
                       /\ space'[t].held = space[t].held
                       /\ space'[t].cache = IF t = s THEN [space[s].cache EXCEPT ![n] = a] ELSE space[t].cache
  BY <1>1 DEF SpaceState
<1>5. [space[s].cache EXCEPT ![n] = a] \in Cache
  BY <1>2, <1>3 DEF Cache
<1>6. space' \in [Space -> SpaceState]
  BY <1>1, <1>3, <1>5 DEF SpaceState
<1>7. space'[Default].held
  BY <1>4, SpaceAssumption DEF LibraryInv, Spaces
<1>8. \A t \in Space, m \in Symbol : \/ space'[t].cache[m] = space[t].cache[m]
                                     \/ t = s /\ m = n /\ space'[t].cache[m] = a
  BY <1>3, <1>4 DEF Cache
<1>9. \A t \in Space, m \in Symbol : \/ space'[t].cache[m] = space[t].cache[m]
                                     \/ CacheHolds(t, m, space'[t].cache[m])
  BY <1>2, <1>8
<1>. QED  BY <1>4, <1>6, <1>7, <1>9, SpacesKept

LEMMA CloseKeeps ==
  ASSUME LibraryInv, NEW s \in Space, Close(s)
  PROVE  LibraryInv' /\ Steady
<1>. DEFINE o == space[s].object
<1>1. /\ Shut(o) /\ IsOpen(s) /\ ~space[s].held /\ space \in [Space -> SpaceState]
      /\ space' = [space EXCEPT ![s].st = "closed", ![s].cache = EmptyCache]
  BY DEF Close, LibraryInv, LibraryTypeOK, IsOpen
<1>2. \A t \in Space : /\ space'[t].object = space[t].object /\ space'[t].held = space[t].held
                       /\ space'[t].st = IF t = s THEN "closed" ELSE space[t].st
                       /\ space'[t].cache = IF t = s THEN EmptyCache ELSE space[t].cache
  BY <1>1 DEF SpaceState
<1>3. s # Default
  BY <1>1 DEF LibraryInv, Spaces
<1>4. o \in Object /\ object[o].opens > 0
  BY <1>1, <1>3, OpenCounted DEF LibraryInv, Spaces
<1>5. LibraryTypeOK'
  <2>1. space' \in [Space -> SpaceState]
    BY <1>1 DEF SpaceState, EmptyCache, Cache
  <2>2. scope' \subseteq Object /\ object' \in [Object -> ObjectState]
    BY <1>1, <1>4, ShutKeeps DEF LibraryInv, LibraryTypeOK
  <2>. QED  BY <2>1, <2>2 DEF LibraryTypeOK
<1>6. OpensCounted'
  <2>. SUFFICES ASSUME NEW p \in Object PROVE object'[p].opens = Cardinality(OpenOn(p)')
    BY DEF OpensCounted
  <2>1. OpenOn(p)' = IF p = o THEN OpenOn(p) \ {s} ELSE OpenOn(p)
    BY <1>1, <1>2 DEF OpenOn
  <2>2. s \in OpenOn(o)
    BY <1>1 DEF OpenOn, IsOpen
  <2>3. object'[p].opens = object[p].opens - IF p = o THEN 1 ELSE 0
    BY <1>1, <1>4, ShutKeeps
  <2>4. CASE p = o
    BY <2>1, <2>2, <2>3, <2>4, CountOneMore DEF LibraryInv
  <2>5. CASE p # o
    <3>1. object'[p].opens = object[p].opens
      BY <2>3, <2>5, ObjectAt DEF LibraryInv
    <3>. QED  BY <2>1, <2>5, <3>1, CountOneMore DEF LibraryInv
  <2>. QED  BY <2>4, <2>5
<1>7. Linked'
  BY <1>1, <1>4, ShutKeeps
<1>8. Spaces'
  BY <1>1, <1>2, SpaceAssumption DEF Spaces, LibraryInv, IsOpen
<1>9. \A p \in Object : Here(p)' = Here(p)
  BY <1>1, <1>4, ShutKeeps DEF Here
<1>10. \A t \in Space : IsOpen(t)' => t # s /\ IsOpen(t)
  BY <1>2 DEF IsOpen
<1>11. Steady
  BY <1>2, <1>9, <1>10 DEF Steady, IsOpen, LibraryInv, Spaces
<1>12. Caches'
  <2>. SUFFICES ASSUME NEW t \in Space, NEW n \in Symbol, IsOpen(t)', space'[t].cache[n] # NoAddress
       PROVE  CacheHolds(t, n, space[t].cache[n])'
    BY DEF Caches, NoAddress
  <2>. DEFINE a == space[t].cache[n]
  <2>1. space'[t].cache = space[t].cache /\ space'[t].object = space[t].object /\ IsOpen(t) /\ CacheHolds(t, n, a)
    BY <1>2, <1>10 DEF LibraryInv, Caches
  <2>2. CASE t # Default
    <3>1. space[t].object \in Object /\ a = Here(space[t].object) /\ n \in Exports[space[t].object]
      BY <2>1, <2>2 DEF CacheHolds, LibraryInv, Spaces
    <3>2. CacheHolds(t, n, space[t].cache[n])' <=>
            (space'[t].cache[n] = Here(space[t].object)' /\ n \in Exports[space'[t].object])
      BY <2>2 DEF CacheHolds
    <3>. QED  BY <2>1, <3>1, <3>2, <1>9 DEF Here
  <2>3. CASE t = Default
    <3>1. a.object \in Object /\ a.load <= object[a.object].load
          /\ (IsMapped(a) => a.object \in scope /\ n \in Exports[a.object])
      BY <2>1, <2>3 DEF CacheHolds
    <3>2. /\ object'[a.object].load = object[a.object].load
          /\ object'[a.object].opens = object[a.object].opens - IF a.object = o THEN 1 ELSE 0
          /\ a.object \in scope => a.object \in scope' \/ object'[a.object].opens = 0
      BY <3>1, <1>1, <1>4, ShutKeeps
    <3>3. object[a.object].opens \in Nat
      BY <3>1, ObjectAt DEF LibraryInv
    <3>. QED  BY <2>1, <2>3, <3>1, <3>2, <3>3 DEF CacheHolds, IsMapped
  <2>. QED  BY <2>2, <2>3
<1>. QED  BY <1>5, <1>6, <1>7, <1>8, <1>11, <1>12 DEF LibraryInv

-----------------------------------------------------------------------------
(***************************************************************************)
(* Lemmas about cdata and calls in progress                                *)
(***************************************************************************)
LEMMA SigAt ==
  ASSUME NEW n \in Symbol
  PROVE  /\ Signature[n].fixed \in 0..MaxArgs /\ Signature[n].result \in Nat
         /\ Signature[n].variadic \in BOOLEAN
BY SignatureAssumption, StorAssumption DEF Signatures

LEMMA FdataAt ==
  ASSUME TypeOK, NEW h \in Handle
  PROVE  /\ fdata[h] \in FdataState
         /\ fdata[h].live \in BOOLEAN /\ fdata[h].held \in BOOLEAN
         /\ fdata[h].from \in Space /\ fdata[h].sym \in Symbol
         /\ fdata[h].addr \in Address \cup {NoAddress} /\ fdata[h].rarg \in Value \cup {NoValue}
         /\ fdata[h].allocated \in BOOLEAN /\ fdata[h].aux \in 0..MaxArgs /\ fdata[h].intact \in BOOLEAN
<1>1. fdata[h] \in FdataState
  BY DEF TypeOK
<1>. QED  BY <1>1 DEF FdataState

LEMMA NoFdataType ==
  /\ NoFdata \in FdataState /\ ~NoFdata.live /\ ~NoFdata.held /\ NoFdata.intact
  /\ NoFdata.rarg = NoValue
<1>1. (CHOOSE n \in Symbol : TRUE) \in Symbol
  BY SymbolAssumption
<1>2. NoFdata = [live |-> FALSE, held |-> FALSE, from |-> Default, sym |-> CHOOSE n \in Symbol : TRUE,
                 addr |-> NoAddress, rarg |-> NoValue, allocated |-> FALSE, aux |-> 0, intact |-> TRUE]
  BY DEF NoFdata, Fdata
<1>. QED  BY <1>1, <1>2, SpaceAssumption, StorAssumption DEF FdataState

LEMMA FrameAt ==
  ASSUME TypeOK, NEW i \in DOMAIN stack
  PROVE  /\ stack[i] \in Frame
         /\ stack[i].handle \in Handle /\ stack[i].phase \in {"c", "copy"}
<1>1. stack[i] \in Frame
  BY DEF TypeOK
<1>. QED  BY <1>1 DEF Frame

(* The calls in progress after an error are some that were before. *)
LEMMA UnwindShortens ==
  ASSUME stack \in Seq(Frame), Unwind
  PROVE  /\ stack' \in Seq(Frame)
         /\ \A i \in DOMAIN stack' : i \in DOMAIN stack /\ stack'[i] = stack[i]
<1>1. PICK k \in 0..Len(stack) : stack' = SubSeq(stack, 1, k)
  BY DEF Unwind
<1>. QED  BY <1>1

LEMMA LibrarySame ==
  ASSUME LibraryInv, UNCHANGED libraryVars
  PROVE  LibraryInv'
<1>1. \A o : OpenOn(o)' = OpenOn(o)
  BY DEF OpenOn, libraryVars
<1>2. LibraryTypeOK' /\ OpensCounted' /\ Linked' /\ Spaces'
  BY <1>1 DEF LibraryInv, LibraryTypeOK, OpensCounted, Linked, Spaces, IsOpen, libraryVars
<1>3. Caches'
  BY DEF LibraryInv, Caches, CacheHolds, IsMapped, Here, IsOpen, libraryVars
<1>. QED  BY <1>2, <1>3 DEF LibraryInv

(* A steady step leaves the address of a cdata that of its namespace. *)
LEMMA OriginsKept ==
  ASSUME TypeOK, Origins, Steady, UNCHANGED fdata
  PROVE  Origins'
<1>. SUFFICES ASSUME NEW h \in Handle, fdata[h].live, fdata[h].from # Default
     PROVE  /\ space'[fdata[h].from].st # "none"
            /\ space'[fdata[h].from].st = "open" => fdata[h].addr = Here(space[fdata[h].from].object)'
  BY DEF Origins, IsOpen
<1>1. fdata[h].from \in Space
  BY FdataAt
<1>. QED  BY <1>1 DEF Steady, Origins

(* The function of an open namespace that a cdata stands for is mapped. *)
LEMMA OriginMapped ==
  ASSUME LibraryInv, TypeOK, Origins, NEW h \in Handle, fdata[h].live, ~IsMapped(fdata[h].addr)
  PROVE  fdata[h].from = Default \/ space[fdata[h].from].st = "closed"
<1>. SUFFICES ASSUME fdata[h].from # Default, space[fdata[h].from].st # "closed"
     PROVE  FALSE
  OBVIOUS
<1>. DEFINE s == fdata[h].from
<1>1. s \in Space /\ IsOpen(s) /\ fdata[h].addr = Here(space[s].object)
  BY FdataAt, SpaceAt DEF Origins, LibraryInv, IsOpen
<1>2. space[s].object \in Object /\ object[space[s].object].opens > 0
  BY <1>1, OpenCounted DEF LibraryInv, Spaces
<1>. QED  BY <1>1, <1>2 DEF IsMapped, Here

-----------------------------------------------------------------------------
(***************************************************************************)
(* Kinds of steps that preserve the invariant                              *)
(***************************************************************************)
LEMMA FaultKeeps ==
  ASSUME IInv, NEW what \in Faults, NEW from \in Space, Fault(what, from),
         what \in {"unmapped variable", "unmapped function"} =>
           from = Default \/ space[from].st = "closed"
  PROVE  IInv'
<1>1. UNCHANGED <<space, object, scope, fdata, stack>> /\ fault' = [what |-> what, from |-> from]
  BY DEF Fault
<1>2. LibraryInv'
  BY <1>1, LibrarySame DEF IInv, libraryVars
<1>3. TypeOK'
  BY <1>1, <1>2 DEF IInv, TypeOK, LibraryInv
<1>4. Handles' /\ Origins'
  BY <1>1 DEF IInv, Handles, Origins, IsOpen, Here
<1>5. OpenNamespacesServe'
  BY <1>1 DEF OpenNamespacesServe
<1>6. ResultsWait' /\ StorageHolds'
  BY <1>1 DEF IInv, ResultsWait, StorageHolds, Sig
<1>. QED  BY <1>2, <1>3, <1>4, <1>5, <1>6 DEF IInv

(* Steps of calls that change neither what a cdata stands for nor what is  *)
(* in the room for its result, and add no call that waits to be copied.    *)
LEMMA CallsKept ==
  ASSUME IInv, UNCHANGED libraryVars, UNCHANGED fault,
         fdata' \in [Handle -> FdataState], stack' \in Seq(Frame),
         \A h \in Handle : /\ fdata'[h].live = fdata[h].live
                           /\ fdata'[h].held => fdata[h].held
                           /\ fdata'[h].from = fdata[h].from /\ fdata'[h].sym = fdata[h].sym
                           /\ fdata'[h].addr = fdata[h].addr /\ fdata'[h].rarg = fdata[h].rarg
                           /\ fdata'[h].intact = fdata[h].intact,
         \A i \in DOMAIN stack' : \/ i \in DOMAIN stack /\ stack'[i] = stack[i]
                                  \/ fdata[stack'[i].handle].live /\ stack'[i].phase = "c"
  PROVE  IInv'
<1>1. LibraryInv'
  BY LibrarySame DEF IInv
<1>2. TypeOK'
  BY <1>1 DEF IInv, TypeOK, LibraryInv
<1>3. ASSUME NEW i \in DOMAIN stack' PROVE stack'[i].handle \in Handle
  <2>1. stack'[i] \in Frame
    OBVIOUS
  <2>. QED  BY <2>1 DEF Frame
<1>4. Handles'
  BY <1>3 DEF IInv, Handles
<1>5. Origins'
  BY DEF IInv, Origins, IsOpen, Here, libraryVars
<1>6. OpenNamespacesServe'
  BY DEF IInv, OpenNamespacesServe, libraryVars
<1>7. ResultsWait'
  BY <1>3 DEF IInv, ResultsWait
<1>8. StorageHolds'
  BY DEF IInv, StorageHolds, Sig
<1>. QED  BY <1>1, <1>2, <1>4, <1>5, <1>6, <1>7, <1>8 DEF IInv

-----------------------------------------------------------------------------
(***************************************************************************)
(* Every action preserves the invariant                                    *)
(***************************************************************************)
LEMMA InitInv == Init => IInv
<1>. SUFFICES ASSUME Init PROVE IInv
  OBVIOUS
<1>1. /\ space = [s \in Space |-> [st |-> IF s = Default THEN "open" ELSE "none", held |-> s = Default,
                                   object |-> Null, cache |-> EmptyCache]]
      /\ object = [o \in Object |-> [opens |-> 0, load |-> 0]] /\ scope = {}
      /\ fdata = [h \in Handle |-> NoFdata] /\ stack = <<>> /\ fault = [what |-> "none", from |-> Default]
  BY DEF Init, LibraryInit, CallsInit
<1>2. LibraryTypeOK
  <2>1. space \in [Space -> SpaceState]
    BY <1>1 DEF SpaceState, EmptyCache, Cache
  <2>2. object \in [Object -> ObjectState]
    BY <1>1, LoadsAssumption DEF ObjectState
  <2>. QED  BY <1>1, <2>1, <2>2 DEF LibraryTypeOK
<1>3. OpensCounted
  <2>1. \A o \in Object : OpenOn(o) = {}
    BY <1>1, NoObjectAssumption DEF OpenOn
  <2>. QED  BY <1>1, <2>1, FS_EmptySet DEF OpensCounted
<1>4. Linked /\ Spaces /\ Caches
  BY <1>1, SpaceAssumption DEF Linked, Spaces, Caches, IsOpen, EmptyCache
<1>5. TypeOK
  BY <1>1, <1>2, NoFdataType, SpaceAssumption DEF TypeOK, Faults
<1>6. Handles /\ Origins /\ ResultsWait /\ StorageHolds /\ OpenNamespacesServe
  BY <1>1, NoFdataType DEF Handles, Origins, ResultsWait, StorageHolds, OpenNamespacesServe
<1>. QED  BY <1>2, <1>3, <1>4, <1>5, <1>6 DEF IInv, LibraryInv

LEMMA StepLibrary ==
  ASSUME IInv, Sound, LibraryStep, UNCHANGED callVars
  PROVE  IInv'
<1>1. LibraryInv' /\ Steady
  BY LoadKeeps, LoseKeeps, CloseKeeps DEF IInv, LibraryStep
<1>2. UNCHANGED <<fdata, stack, fault>>
  BY DEF callVars
<1>3. TypeOK'
  BY <1>1, <1>2 DEF IInv, TypeOK, LibraryInv
<1>4. Origins'
  BY <1>1, <1>2, OriginsKept DEF IInv
<1>5. Handles' /\ ResultsWait' /\ StorageHolds' /\ OpenNamespacesServe'
  BY <1>2 DEF IInv, Handles, ResultsWait, StorageHolds, Sig, OpenNamespacesServe, Sound
<1>. QED  BY <1>1, <1>3, <1>4, <1>5 DEF IInv

LEMMA StepAccessGlobal ==
  ASSUME IInv, NEW s \in Space, NEW n \in Symbol, AccessGlobal(s, n)
  PROVE  IInv'
<1>1. PICK a \in GetSym(s, n) :
        IF IsMapped(a) THEN Remember(s, n, a) /\ UNCHANGED <<object, scope, callVars>>
        ELSE Fault("unmapped variable", s)
  BY DEF AccessGlobal
<1>2. IsOpen(s) /\ Sound
  BY DEF AccessGlobal, IInv, LibraryInv, Spaces
<1>3. CASE IsMapped(a)
  <2>1. LibraryInv' /\ Steady
    BY <1>1, <1>2, <1>3, RememberKeeps DEF IInv
  <2>2. UNCHANGED <<fdata, stack, fault>>
    BY <1>1, <1>3 DEF callVars
  <2>3. TypeOK' /\ Origins'
    BY <2>1, <2>2, OriginsKept DEF IInv, TypeOK, LibraryInv
  <2>4. Handles' /\ ResultsWait' /\ StorageHolds' /\ OpenNamespacesServe'
    BY <1>2, <2>2 DEF IInv, Handles, ResultsWait, StorageHolds, Sig, OpenNamespacesServe, Sound
  <2>. QED  BY <2>1, <2>3, <2>4 DEF IInv
<1>4. CASE ~IsMapped(a)
  <2>1. s = Default
    BY <1>2, <1>4, GetSymHolds DEF IInv
  <2>. QED  BY <1>1, <1>4, <2>1, FaultKeeps DEF Faults
<1>. QED  BY <1>3, <1>4

LEMMA StepGetGlobal ==
  ASSUME IInv, NEW s \in Space, NEW n \in Symbol, NEW h \in Handle, GetGlobal(s, n, h)
  PROVE  IInv'
<1>1. PICK a \in GetSym(s, n) : Remember(s, n, a) /\ fdata' = [fdata EXCEPT ![h] = Fdata(s, n, a)]
  BY DEF GetGlobal
<1>2. IsOpen(s) /\ ~fdata[h].live /\ UNCHANGED <<object, scope, stack, fault>>
  BY DEF GetGlobal, IInv, LibraryInv, Spaces
<1>3. LibraryInv' /\ Steady
  BY <1>1, <1>2, RememberKeeps DEF IInv
<1>4. a \in Address /\ a # NoAddress /\ CacheHolds(s, n, a)
  BY <1>2, GetSymHolds, NoAddressApart DEF IInv
<1>5. Fdata(s, n, a) = [live |-> TRUE, held |-> TRUE, from |-> s, sym |-> n, addr |-> a,
                        rarg |-> NoValue, allocated |-> FALSE, aux |-> 0, intact |-> TRUE]
  BY <1>4 DEF Fdata
<1>6. Fdata(s, n, a) \in FdataState
  BY <1>4, <1>5, StorAssumption DEF FdataState
<1>7. fdata \in [Handle -> FdataState]
  BY DEF IInv, TypeOK
<1>8. \A g \in Handle : fdata'[g] = IF g = h THEN Fdata(s, n, a) ELSE fdata[g]
  BY <1>1, <1>7
<1>9. TypeOK'
  <2>1. fdata' \in [Handle -> FdataState]
    BY <1>1, <1>6, <1>7
  <2>. QED  BY <1>2, <1>3, <2>1 DEF IInv, TypeOK, LibraryInv
<1>10. ~OnStack(h)
  BY <1>2 DEF IInv, Handles, OnStack
<1>11. Handles' /\ ResultsWait'
  BY <1>2, <1>5, <1>8, <1>10, FrameAt DEF IInv, Handles, ResultsWait, OnStack
<1>12. Origins'
  <2>. SUFFICES ASSUME NEW g \in Handle, fdata'[g].live, fdata'[g].from # Default
       PROVE  /\ space'[fdata'[g].from].st # "none"
              /\ space'[fdata'[g].from].st = "open" => fdata'[g].addr = Here(space[fdata[g].from].object)'
    BY DEF Origins, IsOpen
  <2>1. CASE g = h
    <3>1. fdata'[g].from = s /\ fdata'[g].addr = a
      BY <2>1, <1>5, <1>8
    <3>2. /\ space'[s].st # "none"
          /\ space'[s].st = "open" => /\ Here(space[s].object)' = Here(space[s].object)
      BY <3>1, <1>2, <1>3 DEF Steady, IsOpen
    <3>3. a = Here(space[s].object)
      BY <3>1, <1>4 DEF CacheHolds
    <3>. QED  BY <3>1, <3>2, <3>3 DEF Here
  <2>2. CASE g # h
    <3>1. fdata'[g] = fdata[g] /\ fdata[g].from \in Space
      BY <2>2, <1>8, FdataAt DEF IInv
    <3>2. space[fdata[g].from].st # "none"
          /\ (IsOpen(fdata[g].from) => fdata[g].addr = Here(space[fdata[g].from].object))
      BY <2>2, <3>1 DEF IInv, Origins
    <3>. DEFINE t == fdata[g].from
    <3>3. /\ space'[t].st # "none"
          /\ space'[t].st = "open" => /\ IsOpen(t) /\ space'[t].object = space[t].object
                                      /\ object'[space[t].object].load = object[space[t].object].load
      BY <3>1, <3>2, <1>3 DEF Steady, Here
    <3>. QED  BY <3>1, <3>2, <3>3 DEF Here
  <2>. QED  BY <2>1, <2>2
<1>13. StorageHolds'
  BY <1>5, <1>8 DEF IInv, StorageHolds, Sig
<1>14. OpenNamespacesServe'
  BY <1>2 DEF GetGlobal, Sound, OpenNamespacesServe
<1>. QED  BY <1>3, <1>9, <1>11, <1>12, <1>13, <1>14 DEF IInv

LEMMA StepDrop ==
  ASSUME IInv, NEW h \in Handle, Drop(h)
  PROVE  IInv'
<1>1. /\ fdata \in [Handle -> FdataState] /\ stack \in Seq(Frame)
      /\ fdata' = [fdata EXCEPT ![h].held = FALSE] /\ UNCHANGED <<libraryVars, stack, fault>>
  BY DEF IInv, TypeOK, Drop
<1>2. fdata' \in [Handle -> FdataState]
  BY <1>1 DEF FdataState
<1>3. \A g \in Handle : /\ fdata'[g].live = fdata[g].live
                        /\ fdata'[g].held => fdata[g].held
                        /\ fdata'[g].from = fdata[g].from /\ fdata'[g].sym = fdata[g].sym
                        /\ fdata'[g].addr = fdata[g].addr /\ fdata'[g].rarg = fdata[g].rarg
                        /\ fdata'[g].intact = fdata[g].intact
  BY <1>1 DEF FdataState
<1>. QED  BY <1>1, <1>2, <1>3, CallsKept

LEMMA StepCollect ==
  ASSUME IInv, NEW h \in Handle, Collect(h)
  PROVE  IInv'
<1>1. CASE fdata[h].allocated /\ ~fdata[h].intact
  <2>1. Fault("overwritten buffer", fdata[h].from)
    BY <1>1 DEF Collect
  <2>2. fdata[h].from \in Space
    BY FdataAt DEF IInv
  <2>. QED  BY <2>1, <2>2, FaultKeeps DEF Faults
<1>2. CASE ~(fdata[h].allocated /\ ~fdata[h].intact)
  <2>1. /\ fdata \in [Handle -> FdataState] /\ fdata' = [fdata EXCEPT ![h] = NoFdata]
        /\ UNCHANGED <<libraryVars, stack, fault>> /\ ~OnStack(h)
    BY <1>2 DEF IInv, TypeOK, Collect
  <2>2. \A g \in Handle : fdata'[g] = IF g = h THEN NoFdata ELSE fdata[g]
    BY <2>1
  <2>3. LibraryInv'
    BY <2>1, LibrarySame DEF IInv
  <2>4. TypeOK'
    BY <2>1, <2>3, NoFdataType DEF IInv, TypeOK, LibraryInv
  <2>5. Handles' /\ ResultsWait'
    BY <2>1, <2>2, NoFdataType, FrameAt DEF IInv, Handles, ResultsWait, OnStack
  <2>6. Origins'
    BY <2>1, <2>2, NoFdataType DEF IInv, Origins, IsOpen, Here, libraryVars
  <2>7. StorageHolds'
    BY <2>2, NoFdataType DEF IInv, StorageHolds, Sig
  <2>8. OpenNamespacesServe'
    BY <2>1 DEF Collect, Sound, OpenNamespacesServe
  <2>. QED  BY <2>3, <2>4, <2>5, <2>6, <2>7, <2>8 DEF IInv
<1>. QED  BY <1>1, <1>2

LEMMA PreparedType ==
  ASSUME TypeOK, NEW h \in Handle, NEW given \in 0..MaxArgs, fdata' = Prepared(h, given)
  PROVE  /\ fdata' \in [Handle -> FdataState]
         /\ \A g \in Handle : /\ fdata'[g].live = fdata[g].live
                              /\ fdata'[g].held => fdata[g].held
                              /\ fdata'[g].from = fdata[g].from /\ fdata'[g].sym = fdata[g].sym
                              /\ fdata'[g].addr = fdata[g].addr /\ fdata'[g].rarg = fdata[g].rarg
                              /\ fdata'[g].intact = fdata[g].intact
<1>. DEFINE aux == IF Sig(h).variadic THEN Capacity(h, given) ELSE fdata[h].aux
<1>1. fdata \in [Handle -> FdataState] /\ fdata[h].aux \in 0..MaxArgs
  BY FdataAt DEF TypeOK
<1>2. Sig(h).fixed \in 0..MaxArgs /\ Sig(h).variadic \in BOOLEAN
  BY FdataAt, SigAt DEF Sig
<1>3. aux \in 0..MaxArgs
  BY <1>1, <1>2, StorAssumption DEF Capacity, Count, Max2
<1>4. fdata' = [fdata EXCEPT ![h] = [fdata[h] EXCEPT !.aux = aux, !.allocated = Sig(h).variadic]]
  BY <1>1 DEF Prepared, FdataState
<1>5. [fdata[h] EXCEPT !.aux = aux, !.allocated = Sig(h).variadic] \in FdataState
  BY <1>1, <1>2, <1>3 DEF FdataState
<1>. QED  BY <1>1, <1>4, <1>5 DEF FdataState

LEMMA StepInvoke ==
  ASSUME IInv, NEW h \in Handle, NEW given \in 0..MaxArgs, Invoke(h, given)
  PROVE  IInv'
<1>1. fdata[h].live /\ fdata[h].from \in Space /\ TypeOK
  BY FdataAt DEF IInv, Invoke, CanCall, Usable, Handles
<1>2. CASE ~fdata[h].intact
  BY <1>1, <1>2, FaultKeeps DEF Invoke, Faults
<1>3. CASE fdata[h].intact /\ ~IsMapped(fdata[h].addr)
  <2>1. Fault("unmapped function", fdata[h].from)
    BY <1>3 DEF Invoke
  <2>2. fdata[h].from = Default \/ space[fdata[h].from].st = "closed"
    BY <1>1, <1>3, OriginMapped DEF IInv
  <2>. QED  BY <1>1, <2>1, <2>2, FaultKeeps DEF Faults
<1>4. CASE fdata[h].intact /\ IsMapped(fdata[h].addr)
  <2>. DEFINE e == [handle |-> h, phase |-> "c", own |-> NoValue, again |-> FALSE]
  <2>1. /\ fdata' = Prepared(h, given) /\ UNCHANGED libraryVars /\ UNCHANGED fault
        /\ stack' = Append(stack, e)
    BY <1>4 DEF Invoke
  <2>2. stack \in Seq(Frame) /\ e \in Frame
    BY DEF IInv, TypeOK, Frame
  <2>3. stack' \in Seq(Frame)
        /\ \A i \in DOMAIN stack' : (i \in DOMAIN stack /\ stack'[i] = stack[i]) \/ stack'[i] = e
    BY <2>1, <2>2
  <2>. QED  BY <1>1, <2>1, <2>3, PreparedType, CallsKept
<1>. QED  BY <1>2, <1>3, <1>4

LEMMA StepInvokeFails ==
  ASSUME IInv, NEW h \in Handle, NEW given \in 0..MaxArgs, InvokeFails(h, given)
  PROVE  IInv'
<1>1. fdata[h].from \in Space /\ TypeOK
  BY FdataAt DEF IInv
<1>2. CASE ~fdata[h].intact
  BY <1>1, <1>2, FaultKeeps DEF InvokeFails, Faults
<1>3. CASE fdata[h].intact
  <2>1. fdata' = Prepared(h, given) /\ Unwind /\ UNCHANGED libraryVars /\ UNCHANGED fault
    BY <1>3 DEF InvokeFails
  <2>. QED  BY <1>1, <2>1, PreparedType, UnwindShortens, CallsKept DEF TypeOK
<1>. QED  BY <1>2, <1>3

LEMMA StepRaise ==
  ASSUME IInv, Raise
  PROVE  IInv'
<1>1. Unwind /\ UNCHANGED libraryVars /\ UNCHANGED fdata /\ UNCHANGED fault
  BY DEF Raise
<1>2. fdata \in [Handle -> FdataState] /\ stack \in Seq(Frame)
  BY DEF IInv, TypeOK
<1>. QED  BY <1>1, <1>2, UnwindShortens, CallsKept

LEMMA StepCopy ==
  ASSUME IInv, Copy
  PROVE  IInv'
<1>1. /\ stack' = SubSeq(stack, 1, Len(stack) - 1) /\ stack # <<>>
      /\ UNCHANGED libraryVars /\ UNCHANGED fdata /\ UNCHANGED fault
  BY DEF Copy
<1>2. fdata \in [Handle -> FdataState] /\ stack \in Seq(Frame)
  BY DEF IInv, TypeOK
<1>3. /\ stack' \in Seq(Frame)
      /\ \A i \in DOMAIN stack' : i \in DOMAIN stack /\ stack'[i] = stack[i]
  BY <1>1, <1>2
<1>. QED  BY <1>1, <1>2, <1>3, CallsKept

(* A result leaves the types and the buffer alone if there is room for it. *)
LEMMA WithResultKeeps ==
  ASSUME TypeOK, StorageHolds, NEW h \in Handle, NEW v \in Value, fdata' = WithResult(h, v)
  PROVE  /\ fdata' \in [Handle -> FdataState]
         /\ \A g \in Handle : /\ fdata'[g].live = fdata[g].live /\ fdata'[g].held = fdata[g].held
                              /\ fdata'[g].from = fdata[g].from /\ fdata'[g].sym = fdata[g].sym
                              /\ fdata'[g].addr = fdata[g].addr
                              /\ fdata'[g].rarg = IF g = h THEN v ELSE fdata[g].rarg
         /\ StorageHolds'
<1>. DEFINE n == Sig(h).fixed
            needed == IF Sig(h).variadic THEN {0} ELSE {TypeAt(n, i) : i \in 0..(n - 1)} \cup {Size(n)}
            intact == fdata[h].intact /\ \A w \in needed : Sig(h).result <= StorWords + w
<1>1. fdata \in [Handle -> FdataState] /\ fdata[h].intact \in BOOLEAN /\ intact \in BOOLEAN
  BY FdataAt DEF TypeOK
<1>2. n \in Nat /\ Sig(h).result \in Nat /\ Sig(h).variadic \in BOOLEAN /\ StorWords \in Nat
  BY FdataAt, SigAt, StorAssumption DEF Sig
<1>3. fdata' = [fdata EXCEPT ![h] = [fdata[h] EXCEPT !.rarg = v, !.intact = intact]]
  BY <1>1 DEF WithResult, FdataState
<1>4. [fdata[h] EXCEPT !.rarg = v, !.intact = intact] \in FdataState
  BY <1>1 DEF FdataState
<1>. HIDE DEF intact
<1>5. \A g \in Handle : fdata'[g] = IF g = h THEN [fdata[h] EXCEPT !.rarg = v, !.intact = intact] ELSE fdata[g]
  BY <1>1, <1>3
<1>6. fdata' \in [Handle -> FdataState]
  BY <1>1, <1>3, <1>4
<1>7. \A g \in Handle : /\ fdata'[g].live = fdata[g].live /\ fdata'[g].held = fdata[g].held
                        /\ fdata'[g].from = fdata[g].from /\ fdata'[g].sym = fdata[g].sym
                        /\ fdata'[g].addr = fdata[g].addr
                        /\ fdata'[g].rarg = IF g = h THEN v ELSE fdata[g].rarg
                        /\ fdata'[g].intact = IF g = h THEN intact ELSE fdata[g].intact
  <2>1. fdata'[h] = [fdata[h] EXCEPT !.rarg = v, !.intact = intact] /\ fdata[h] \in FdataState
    BY <1>1, <1>5
  <2>2. /\ fdata'[h].live = fdata[h].live /\ fdata'[h].held = fdata[h].held
        /\ fdata'[h].from = fdata[h].from /\ fdata'[h].sym = fdata[h].sym
        /\ fdata'[h].addr = fdata[h].addr /\ fdata'[h].rarg = v /\ fdata'[h].intact = intact
    BY <2>1 DEF FdataState
  <2>3. \A g \in Handle : g # h => fdata'[g] = fdata[g]
    BY <1>5
  <2>. QED  BY <2>2, <2>3
<1>. USE DEF intact
<1>8. ASSUME fdata[h].intact, ~intact
      PROVE  Sig(h).result > StorWords * (IF Sig(h).variadic THEN 1 ELSE 1 + n)
  <2>1. PICK w \in needed : ~(Sig(h).result <= StorWords + w)
    BY <1>8
  <2>2. CASE Sig(h).variadic
    <3>1. w = 0 /\ StorWords * 1 = StorWords
      BY <2>1, <2>2, <1>2
    <3>. QED  BY <2>1, <2>2, <3>1, <1>2
  <2>3. CASE ~Sig(h).variadic
    <3>1. n * StorWords \in Nat /\ StorWords * (1 + n) = StorWords + n * StorWords
      BY <1>2
    <3>2. w \in Nat /\ w >= n * StorWords
      BY <2>1, <2>3, <3>1, <1>2 DEF TypeAt, Size
    <3>. QED  BY <2>1, <2>3, <3>1, <3>2, <1>2
  <2>. QED  BY <2>2, <2>3
<1>. HIDE DEF intact
<1>9. StorageHolds'
  BY <1>7, <1>8 DEF StorageHolds, Sig
<1>. QED  BY <1>6, <1>7, <1>9

LEMMA OvertakenType ==
  ASSUME TypeOK, NEW h \in Handle
  PROVE  /\ Overtaken(h) \in Seq(Frame) /\ Len(Overtaken(h)) = Len(stack) /\ DOMAIN Overtaken(h) = DOMAIN stack
         /\ \A i \in DOMAIN stack :
              /\ Overtaken(h)[i].handle = stack[i].handle /\ Overtaken(h)[i].phase = stack[i].phase
              /\ Overtaken(h)[i].own = stack[i].own
              /\ stack[i].handle = h /\ stack[i].phase = "copy" => Overtaken(h)[i].again
              /\ stack[i].again => Overtaken(h)[i].again
<1>. DEFINE f(i) == IF stack[i].handle = h /\ stack[i].phase = "copy"
                    THEN [stack[i] EXCEPT !.again = TRUE] ELSE stack[i]
<1>1. stack \in Seq(Frame) /\ Len(stack) \in Nat /\ DOMAIN stack = 1..Len(stack)
  BY DEF TypeOK
<1>2. \A i \in DOMAIN stack : stack[i] \in Frame
  BY <1>1
<1>3. \A i \in DOMAIN stack : f(i) \in Frame
  BY <1>2 DEF Frame
<1>4. Overtaken(h) = [i \in 1..Len(stack) |-> f(i)]
  BY <1>1 DEF Overtaken
<1>. HIDE DEF f
<1>5. Overtaken(h) \in Seq(Frame) /\ Len(Overtaken(h)) = Len(stack)
  BY <1>1, <1>3, <1>4
<1>. USE DEF f
<1>6. \A i \in DOMAIN stack : Overtaken(h)[i] = f(i)
  BY <1>1, <1>4
<1>. QED  BY <1>1, <1>2, <1>4, <1>5, <1>6 DEF Frame

LEMMA ReplaceLast ==
  ASSUME NEW s \in Seq(Frame), NEW k \in DOMAIN s, NEW e \in Frame
  PROVE  LET t == [s EXCEPT ![k] = e]
         IN  t \in Seq(Frame) /\ DOMAIN t = DOMAIN s /\ \A i \in DOMAIN t : (t[i] = s[i] \/ (i = k /\ t[i] = e))
<1>1. k \in 1..Len(s) /\ DOMAIN s = 1..Len(s)
  OBVIOUS
<1>2. /\ [s EXCEPT ![k] = e] \in Seq(Frame) /\ Len([s EXCEPT ![k] = e]) = Len(s)
      /\ \A j \in 1..Len(s) : [s EXCEPT ![k] = e][j] = IF j = k THEN e ELSE s[j]
  BY <1>1, ExceptSeq
<1>3. DOMAIN [s EXCEPT ![k] = e] = 1..Len(s)
  BY <1>1
<1>. QED  BY <1>1, <1>2, <1>3

LEMMA CutLast ==
  ASSUME NEW s \in Seq(Frame)
  PROVE  LET t == SubSeq(s, 1, Len(s) - 1)
         IN  t \in Seq(Frame) /\ \A i \in DOMAIN t : i \in DOMAIN s /\ t[i] = s[i]
OBVIOUS

LEMMA StepCReturns ==
  ASSUME IInv, NEW v \in Value, CReturns(v)
  PROVE  IInv'
<1>. DEFINE h == Top.handle
            k == Len(stack)
<1>1. /\ stack \in Seq(Frame) /\ TypeOK /\ k \in DOMAIN stack /\ k \in Nat /\ DOMAIN stack = 1..k
      /\ Sound /\ Top.phase = "c" /\ Top = stack[k]
  <2>1. stack \in Seq(Frame) /\ TypeOK /\ Sound /\ Top.phase = "c" /\ stack # <<>> /\ Top = stack[k]
    BY DEF IInv, TypeOK, CReturns, Top
  <2>2. k \in Nat /\ DOMAIN stack = 1..k /\ k # 0
    BY <2>1
  <2>. QED  BY <2>1, <2>2
<1>2. h \in Handle /\ fdata[h].live /\ fdata[h].from \in Space
  BY <1>1, FrameAt, FdataAt DEF IInv, Handles
<1>3. CASE ~IsMapped(fdata[h].addr)
  <2>1. Fault("unmapped function", fdata[h].from)
    BY <1>3 DEF CReturns
  <2>2. fdata[h].from = Default \/ space[fdata[h].from].st = "closed"
    BY <1>2, <1>3, OriginMapped DEF IInv
  <2>. QED  BY <1>2, <2>1, <2>2, FaultKeeps DEF Faults
<1>4. CASE IsMapped(fdata[h].addr)
  <2>. DEFINE late == [Overtaken(h)[k] EXCEPT !.phase = "copy", !.own = v]
  <2>1. /\ fdata' = WithResult(h, v) /\ UNCHANGED libraryVars /\ UNCHANGED fault
        /\ \/ stack' = [Overtaken(h) EXCEPT ![k] = late]
           \/ stack' = SubSeq(Overtaken(h), 1, k - 1)
    BY <1>4 DEF CReturns
  <2>2. /\ fdata' \in [Handle -> FdataState]
        /\ \A g \in Handle : /\ fdata'[g].live = fdata[g].live /\ fdata'[g].held = fdata[g].held
                             /\ fdata'[g].from = fdata[g].from /\ fdata'[g].sym = fdata[g].sym
                             /\ fdata'[g].addr = fdata[g].addr
                             /\ fdata'[g].rarg = IF g = h THEN v ELSE fdata[g].rarg
        /\ StorageHolds'
    BY <2>1, <1>1, <1>2, WithResultKeeps DEF IInv
  <2>3. /\ Overtaken(h) \in Seq(Frame) /\ Len(Overtaken(h)) = k /\ DOMAIN Overtaken(h) = 1..k
        /\ Overtaken(h)[k].handle = h
    BY <1>1, <1>2, OvertakenType
  <2>4. late \in Frame /\ late.handle = h /\ late.own = v
    <3>1. Overtaken(h)[k] \in Frame
      BY <1>1, <2>3
    <3>. QED  BY <2>3, <3>1 DEF Frame
  <2>. HIDE DEF late
  <2>5. /\ stack' \in Seq(Frame)
        /\ \A i \in DOMAIN stack' : /\ i \in DOMAIN stack
                                    /\ (stack'[i] = Overtaken(h)[i] \/ (i = k /\ stack'[i] = late))
    <3>1. CASE stack' = [Overtaken(h) EXCEPT ![k] = late]
      BY <1>1, <2>3, <2>4, <3>1, ReplaceLast
    <3>2. CASE stack' = SubSeq(Overtaken(h), 1, k - 1)
      <4>1. stack' = SubSeq(Overtaken(h), 1, Len(Overtaken(h)) - 1)
        BY <2>3, <3>2
      <4>2. stack' \in Seq(Frame)
            /\ \A i \in DOMAIN stack' : i \in DOMAIN Overtaken(h) /\ stack'[i] = Overtaken(h)[i]
        BY <2>3, <4>1, CutLast
      <4>3. DOMAIN stack = DOMAIN Overtaken(h)
        BY <1>1, <2>3
      <4>. QED  BY <4>2, <4>3
    <3>. QED  BY <2>1, <3>1, <3>2
  <2>6. LibraryInv'
    BY <2>1, LibrarySame DEF IInv
  <2>7. TypeOK'
    BY <2>1, <2>2, <2>5, <2>6 DEF IInv, TypeOK, LibraryInv
  <2>8. \A i \in DOMAIN stack' : stack'[i].handle = stack[i].handle /\ stack[i].handle \in Handle
    BY <1>1, <1>2, <2>4, <2>5, OvertakenType, FrameAt
  <2>9. Handles'
    BY <2>2, <2>5, <2>8 DEF IInv, Handles
  <2>10. Origins'
    BY <2>1, <2>2 DEF IInv, Origins, IsOpen, Here, libraryVars
  <2>11. ResultsWait'
    <3>. SUFFICES ASSUME NEW i \in DOMAIN stack', stack'[i].phase = "copy"
         PROVE  fdata'[stack'[i].handle].rarg = stack'[i].own \/ stack'[i].again
      BY DEF ResultsWait
    <3>1. CASE i = k /\ stack'[i] = late
      BY <1>2, <2>2, <2>4, <3>1
    <3>2. CASE stack'[i] = Overtaken(h)[i]
      <4>1. /\ i \in DOMAIN stack /\ stack[i].phase = "copy" /\ stack[i].handle \in Handle
            /\ stack'[i].handle = stack[i].handle /\ stack'[i].own = stack[i].own
            /\ stack[i].handle = h => stack'[i].again
            /\ stack[i].again => stack'[i].again
        BY <1>1, <1>2, <2>5, <2>8, <3>2, OvertakenType
      <4>. QED  BY <4>1, <2>2 DEF IInv, ResultsWait
    <3>. QED  BY <2>5, <3>1, <3>2
  <2>12. OpenNamespacesServe'
    BY <1>1, <2>1 DEF Sound, OpenNamespacesServe
  <2>. QED  BY <2>2, <2>6, <2>7, <2>9, <2>10, <2>11, <2>12 DEF IInv
<1>. QED  BY <1>3, <1>4

LEMMA Inductive == IInv /\ [Next]_vars => IInv'
<1>. SUFFICES ASSUME IInv, [Next]_vars PROVE IInv'
  OBVIOUS
<1>1. CASE Sound /\ LibraryStep /\ UNCHANGED callVars
  BY <1>1, StepLibrary
<1>2. CASE \E s \in Space, n \in Symbol : AccessGlobal(s, n) \/ \E h \in Handle : GetGlobal(s, n, h)
  BY <1>2, StepAccessGlobal, StepGetGlobal
<1>3. CASE \E h \in Handle : \/ Drop(h) \/ Collect(h)
                             \/ \E given \in 0..MaxArgs : Invoke(h, given) \/ InvokeFails(h, given)
  BY <1>3, StepDrop, StepCollect, StepInvoke, StepInvokeFails
<1>4. CASE Raise
  BY <1>4, StepRaise
<1>5. CASE \E v \in Value : CReturns(v)
  BY <1>5, StepCReturns
<1>6. CASE Copy
  BY <1>6, StepCopy
<1>7. CASE UNCHANGED vars
  <2>1. /\ UNCHANGED libraryVars /\ UNCHANGED fault /\ UNCHANGED fdata /\ UNCHANGED stack
        /\ fdata \in [Handle -> FdataState] /\ stack \in Seq(Frame)
    BY <1>7 DEF vars, libraryVars, IInv, TypeOK
  <2>. QED  BY <2>1, CallsKept
<1>. QED  BY <1>1, <1>2, <1>3, <1>4, <1>5, <1>6, <1>7 DEF Next

(* The table of an open namespace holds what dlsym() may find now. *)
LEMMA CachesInvisible == IInv => CacheInvisible
<1>. SUFFICES ASSUME IInv, NEW s \in Space, NEW n \in Symbol, space[s].st = "open",
                     space[s].cache[n] # NoAddress
     PROVE  \/ space[s].cache[n] \in Found(s, n) /\ IsMapped(space[s].cache[n])
            \/ s = Default /\ ~IsMapped(space[s].cache[n])
  BY DEF CacheInvisible
<1>. DEFINE a == space[s].cache[n]
<1>1. IsOpen(s) /\ CacheHolds(s, n, a) /\ a \in Address
  BY SpaceAt DEF IInv, LibraryInv, Caches, IsOpen
<1>2. CASE s = Default
  <2>1. IsMapped(a) => a = Here(a.object)
    BY <1>1 DEF IsMapped, Here, Address
  <2>2. IsMapped(a) => a \in Found(s, n)
    BY <1>1, <1>2, <2>1 DEF CacheHolds, Found
  <2>. QED  BY <1>2, <2>2
<1>3. CASE s # Default
  <2>1. a = Here(space[s].object) /\ n \in Exports[space[s].object]
    BY <1>1, <1>3 DEF CacheHolds
  <2>2. space[s].object \in Object /\ object[space[s].object].opens > 0
    BY <1>1, <1>3, OpenCounted DEF IInv, LibraryInv, Spaces
  <2>3. a \in Found(s, n)
    BY <1>3, <2>1 DEF Found
  <2>. QED  BY <2>1, <2>2, <2>3 DEF IsMapped, Here
<1>. QED  BY <1>2, <1>3

-----------------------------------------------------------------------------
(***************************************************************************)
(* The theorems                                                            *)
(***************************************************************************)
LEMMA Invariant == Spec => []IInv
BY InitInv, Inductive, PTL DEF Spec

(* Namespaces, the linker, cdata and calls in progress have their types;   *)
(* buffers are never laid out for more arguments than a call may have.     *)
THEOREM TypeCorrect == Spec => []TypeOK
BY Invariant, PTL DEF IInv

(* The linker's count of an object is the number of open namespaces it has *)
(* (lib::load, lib::close).                                                *)
THEOREM Counted == Spec => []OpensCounted
BY Invariant, PTL DEF IInv, LibraryInv

(* The table of addresses of a namespace shows only in that cffi.C may     *)
(* name what has been unmapped (lib::get_sym).                             *)
THEOREM TablesInvisible == Spec => []CacheInvisible
BY Invariant, CachesInvisible, PTL

(* What was found through a namespace is there as long as it is open.      *)
THEOREM Serving == Spec => []OpenNamespacesServe
BY Invariant, PTL DEF IInv

(* Nested calls, finalizers and errors leave a waiting result alone unless *)
(* its own function is called again (call_cif, to_lua).                    *)
THEOREM Waiting == Spec => []ResultsWait
BY Invariant, PTL DEF IInv

(* Only a result too large for the room of a scalar and of the arguments   *)
(* overwrites the types or the buffer of a function (make_cdata_func).     *)
THEOREM Holding == Spec => []StorageHolds
BY Invariant, PTL DEF IInv

(* A call has a buffer with room for its arguments. *)
LEMMA RoomForAll == IInv => ArgumentsArrive
<1>. SUFFICES ASSUME IInv, NEW h \in Handle, CanCall(h), NEW given \in Sig(h).fixed..MaxArgs
              PROVE  Delivers[Count(h, given)][Capacity(h, given)][Sig(h).fixed]
  BY DEF ArgumentsArrive
<1>1. Sig(h).fixed \in 0..MaxArgs /\ Sig(h).variadic \in BOOLEAN /\ MaxArgs \in Nat
  <2>1. fdata[h].sym \in Symbol
    BY FdataAt DEF IInv
  <2>. QED  BY <2>1, SigAt, StorAssumption DEF Sig
<1>2. fdata[h].aux \in 0..MaxArgs
  BY FdataAt DEF IInv
<1>3. Count(h, given) \in 0..MaxArgs
  BY <1>1 DEF Count, Max2
<1>4. Capacity(h, given) \in 0..MaxArgs /\ Count(h, given) <= Capacity(h, given)
  BY <1>1, <1>2, <1>3 DEF Capacity, Max2
<1>. QED  BY <1>1, <1>3, <1>4, RoomDelivers

(* C gets the arguments a call is made with, whatever calls were made with *)
(* the same cdata, failed, or are in progress. (call_cif)                  *)
THEOREM Arriving == Spec => []ArgumentsArrive
BY Invariant, RoomForAll, PTL
=============================================================================
