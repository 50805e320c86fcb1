----------------------------- MODULE ArgBuffer -----------------------------
(***************************************************************************)
(* The buffer a call passes its arguments in (src/ffi.cc, fargs_types,     *)
(* fargs_values, prepare_cif_var, call_cif).  For n arguments it has n     *)
(* places for values, then n pointers to libffi types, then n pointers to  *)
(* values.  One made for more arguments is laid out anew and reused.       *)
(***************************************************************************)
EXTENDS Naturals

CONSTANTS
  StorWords,   \* words of a ffi::scalar_stor_t, which holds any scalar
  MaxArgs      \* bound: arguments of a call

ASSUME StorAssumption == StorWords \in Nat \ {0} /\ MaxArgs \in Nat

(* A word: left over from an earlier call, a type, a value, or the address *)
(* of a word of the buffer or of a value outside it.                       *)
Word(k, v) == [k |-> k, v |-> v]
Junk == Word("junk", 0)
Type == Word("type", 0)

(* The words a buffer for n arguments has, from 0. *)
Size(n) == n * StorWords + 2 * n
ValueAt(n, i) == i * StorWords
(* mutant: the pointers to types follow half of the places for values *)
TypeAtHalf(n, i) == n * (StorWords \div 2) + i
TypeAt(n, i) == n * StorWords + i
PointerAt(n, i) == n * StorWords + n + i

(***************************************************************************)
(* Kinds of arguments; the value that C shall get for argument i is i:     *)
(*   number  a Lua value that is converted in its place in the buffer      *)
(*   cdata   a cdata of the right type, passed where it is                 *)
(*   record  a struct or union, for which C gets its address where it      *)
(*           stands in the variable part                                   *)
(***************************************************************************)
Kinds == {"number", "cdata", "record"}

(* One write to the buffer, and when it is made. *)
Store(time, at, word) == [time |-> time, at |-> at, word |-> word]

(* from_lua() with the place of argument i, from 0.  What is in the record *)
(* and not its address is stored for one in the variable part, and its     *)
(* pointer is left as it was.                                              *)
Convert(n, i, arg, fixed) ==
  CASE arg = "number" -> {Store(2 * i + 1, ValueAt(n, i), Word("value", i)),
                          Store(2 * i + 2, PointerAt(n, i), Word("word", ValueAt(n, i)))}
    [] arg = "record" /\ i >= fixed -> {Store(2 * i + 1, ValueAt(n, i), Word("contents", i))}
    [] OTHER -> {Store(2 * i + 1, PointerAt(n, i), Word("outside", i))}

(* All that a call with n arguments writes: types first. *)
Stores(n, args, fixed) ==
  {Store(0, TypeAt(n, i), Type) : i \in 0..(n - 1)} \cup UNION {Convert(n, i, args[i + 1], fixed) : i \in 0..(n - 1)}

(* What a word holds then, in a buffer for so many arguments. *)
Content(stores, capacity, at) ==
  LET here == {s \in stores : s.at = at}
  IN  IF at >= Size(capacity) \/ here = {} THEN Junk
      ELSE (CHOOSE s \in here : \A r \in here : r.time <= s.time).word

(* What ffi_call() passes on for argument i: nothing sensible if its type, *)
(* or the address of its value, is not what was stored for it.             *)
Passed(stores, capacity, n, i) ==
  LET pointer == Content(stores, capacity, PointerAt(n, i))
  IN  IF Content(stores, capacity, TypeAt(n, i)) # Type THEN Junk
      ELSE CASE pointer.k = "word" -> Content(stores, capacity, pointer.v)
             [] pointer.k = "outside" -> Word("value", pointer.v)
             [] OTHER -> Junk

(* Whether C gets what it should for every argument, whatever arguments    *)
(* there are, a record in the variable part aside.                         *)
Delivers ==
  [n \in 0..MaxArgs |-> [capacity \in 0..MaxArgs |-> [fixed \in 0..MaxArgs |->
     \A args \in [1..n -> Kinds] : \A i \in 0..(n - 1) :
       \/ Passed(Stores(n, args, fixed), capacity, n, i) = Word("value", i)
       \/ args[i + 1] = "record" /\ i >= fixed]]]
=============================================================================
