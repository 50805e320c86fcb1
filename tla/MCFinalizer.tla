---------------------------- MODULE MCFinalizer ----------------------------
(***************************************************************************)
(* Finalizer for TLC.  Cdata, slots and functions are interchangeable.     *)
(***************************************************************************)
EXTENDS Finalizer, TLC

Symmetry == Permutations(Object) \cup Permutations(Ref) \cup Permutations(Function)
=============================================================================
