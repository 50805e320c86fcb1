------------------------------ MODULE Library ------------------------------
(***************************************************************************)
(* Namespaces of shared libraries (src/lib.cc; src/ffilib.cc, lib_meta;    *)
(* src/ffi.cc, get_global and set_global).                                 *)
(*                                                                         *)
(* A namespace is a userdata with the handle of a shared object and a      *)
(* table, in the Lua registry, of the addresses found so far.  The         *)
(* collector closes a namespace the program has lost.  cffi.C searches     *)
(* the objects that were loaded for everyone.  The dynamic linker maps an  *)
(* object once, counts how often it was opened, and unmaps it when each of *)
(* these was closed; loaded again it may be anywhere.                      *)
(***************************************************************************)
EXTENDS Naturals, FiniteSets

CONSTANTS
  Space,      \* the namespaces (bound: those of a behaviour)
  Default,    \* cffi.C
  Object,     \* shared objects
  Symbol,     \* names of functions and variables, all of them declared
  Exports,    \* the symbols each object defines
  Null,       \* no object, no address
  MaxLoads    \* bound: times an object is mapped

ASSUME SpaceAssumption == Default \in Space /\ IsFiniteSet(Space)
ASSUME ExportsAssumption == Exports \in [Object -> SUBSET Symbol]
ASSUME SymbolAssumption == Symbol # {}
ASSUME NoObjectAssumption == Null \notin Object
ASSUME LoadsAssumption == MaxLoads \in Nat

VARIABLES
  space,    \* the namespaces
  object,   \* the linker: how often an object is open, and which mapping it is
  scope     \* the linker: the objects loaded for everyone

libraryVars == <<space, object, scope>>

(* Where an object was mapped; with the symbol, an address. *)
Address == [object : Object, load : 1..MaxLoads]
NoAddress == [object |-> Null, load |-> 0]
Cache == [Symbol -> Address \cup {NoAddress}]
EmptyCache == [n \in Symbol |-> NoAddress]

SpaceState == [st : {"none", "open", "closed"}, held : BOOLEAN, object : Object \cup {Null}, cache : Cache]
ObjectState == [opens : Nat, load : 0..MaxLoads]

LibraryInit ==
  /\ space = [s \in Space |-> [st |-> IF s = Default THEN "open" ELSE "none", held |-> s = Default,
                               object |-> Null, cache |-> EmptyCache]]
  /\ object = [o \in Object |-> [opens |-> 0, load |-> 0]]
  /\ scope = {}

IsMapped(a) == a.object \in Object /\ object[a.object].opens > 0 /\ object[a.object].load = a.load
Here(o) == [object |-> o, load |-> object[o].load]

(* dlsym(): in the object of the namespace, or in one that was loaded for  *)
(* everyone; which, if there are several, depends on their order, which is *)
(* left open.                                                              *)
Found(s, n) ==
  LET searched == IF s = Default THEN scope ELSE {space[s].object}
  IN  {Here(o) : o \in {p \in searched : n \in Exports[p]}}

(* lib::get_sym(): the address in the table, or else what dlsym() finds.   *)
GetSym(s, n) == IF space[s].cache[n] # NoAddress THEN {space[s].cache[n]} ELSE Found(s, n)

(* mutant: one table of addresses for all namespaces *)
RememberEverywhere(s, n, a) == space' = [t \in Space |-> [space[t] EXCEPT !.cache[n] = a]]

Remember(s, n, a) == space' = [space EXCEPT ![s].cache[n] = a]

-----------------------------------------------------------------------------
(* mutant: an object that is mapped is not counted again *)
OpenOnce(o, global) ==
  /\ IF object[o].opens = 0
     THEN /\ object[o].load < MaxLoads
          /\ object' = [object EXCEPT ![o] = [opens |-> 1, load |-> @.load + 1]]
     ELSE UNCHANGED object
  /\ scope' = IF global THEN scope \cup {o} ELSE scope

(* dlopen(o, global or not) *)
Open(o, global) ==
  /\ IF object[o].opens = 0
     THEN /\ object[o].load < MaxLoads
          /\ object' = [object EXCEPT ![o] = [opens |-> 1, load |-> @.load + 1]]
     ELSE object' = [object EXCEPT ![o].opens = @ + 1]
  /\ scope' = IF global THEN scope \cup {o} ELSE scope

(* dlclose(o) *)
Shut(o) ==
  /\ object' = [object EXCEPT ![o].opens = @ - 1]
  /\ scope' = IF object[o].opens = 1 THEN scope \ {o} ELSE scope

(* cffi.load(): lib::load().  One that fails leaves nothing behind. *)
Load(s, o, global) ==
  /\ space[s].st = "none"
  /\ Open(o, global)
  /\ space' = [space EXCEPT ![s] = [st |-> "open", held |-> TRUE, object |-> o, cache |-> EmptyCache]]

(* The program loses a namespace; cffi.C is kept by the module. *)
Lose(s) ==
  /\ space[s].held /\ s # Default
  /\ space' = [space EXCEPT ![s].held = FALSE]
  /\ UNCHANGED <<object, scope>>

(* mutant: unmaps the object even when another namespace has it *)
CloseLast(s) ==
  /\ space[s].st = "open" /\ ~space[s].held
  /\ space' = [space EXCEPT ![s].st = "closed", ![s].cache = EmptyCache]
  /\ object' = [object EXCEPT ![space[s].object].opens = 0]
  /\ scope' = scope \ {space[s].object}

(* lib_meta::gc(): lib::close(). *)
Close(s) ==
  /\ space[s].st = "open" /\ ~space[s].held
  /\ space' = [space EXCEPT ![s].st = "closed", ![s].cache = EmptyCache]
  /\ Shut(space[s].object)

LibraryStep ==
  \E s \in Space : \/ \E o \in Object, global \in BOOLEAN : Load(s, o, global)
                   \/ Lose(s)
                   \/ Close(s)

-----------------------------------------------------------------------------
LibraryTypeOK ==
  /\ space \in [Space -> SpaceState]
  /\ object \in [Object -> ObjectState]
  /\ scope \subseteq Object

OpenOn(o) == {s \in Space : space[s].st = "open" /\ space[s].object = o}

(***************************************************************************)
(* The linker's count is the number of namespaces that were not closed, so *)
(* that the first of two namespaces of an object that is closed takes      *)
(* nothing away from the other.  (lib::load, lib::close)                   *)
(***************************************************************************)
OpensCounted == \A o \in Object : object[o].opens = Cardinality(OpenOn(o))

(***************************************************************************)
(* The table of a namespace is invisible: an address in it is one dlsym()  *)
(* may find now.  Only that of cffi.C may hold an address in an object   *)
(* that has been unmapped since.  (lib::get_sym)                           *)
(***************************************************************************)
CacheInvisible ==
  \A s \in Space, n \in Symbol :
    (space[s].st = "open" /\ space[s].cache[n] # NoAddress) =>
      \/ space[s].cache[n] \in Found(s, n) /\ IsMapped(space[s].cache[n])
      \/ s = Default /\ ~IsMapped(space[s].cache[n])
=============================================================================
