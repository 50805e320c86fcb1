------------------------------- MODULE MCCalls ------------------------------
(***************************************************************************)
(* Calls for TLC: a library with a function that returns a record, a       *)
(* variadic one and a variable.                                            *)
(***************************************************************************)
EXTENDS Calls, TLC

CONSTANTS s1, s2, o1

MCSpace == {Default, s1, s2}
MCObject == {o1}
MCExports == o1 :> {"record", "printf", "scalar"}

Sign(kind, fixed, variadic, result, late) ==
  [kind |-> kind, fixed |-> fixed, variadic |-> variadic, result |-> result, late |-> late]
MCSignature ==
  [record |-> Sign("function", 1, FALSE, 4, TRUE),
   printf |-> Sign("function", 1, TRUE, 1, FALSE),
   scalar |-> Sign("variable", 0, FALSE, 0, FALSE)]
MCSymbol == DOMAIN MCSignature

(* Bound: namespaces made and function cdata at once, taken together. *)
Few ==
  Cardinality({s \in {s1, s2} : space[s].st # "none"}) + Cardinality({h \in Handle : fdata[h].live}) <= 3

Symmetry == Permutations(Handle) \cup Permutations(Value) \cup Permutations({s1, s2})
=============================================================================
