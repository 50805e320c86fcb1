----------------------------- MODULE MCCallback -----------------------------
(***************************************************************************)
(* Callback for TLC.  Handles, closures, slots, functions and places are   *)
(* interchangeable: the specification names none of them.                  *)
(***************************************************************************)
EXTENDS Callback, TLC

Symmetry ==
  Permutations(Handle) \cup Permutations(Closure) \cup Permutations(Ref)
    \cup Permutations(Function) \cup Permutations(Place)
=============================================================================
