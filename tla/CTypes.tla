------------------------------- MODULE CTypes -------------------------------
(***************************************************************************)
(* Types (src/ast.hh, c_type and c_function): how they are built, and      *)
(* which may be passed by value.                                           *)
(***************************************************************************)
EXTENDS Integers, Sequences

(* The kinds of a c_type.  A type is a record; cv is the set of its        *)
(* qualifiers, ref is its C_TYPE_REF flag.                                 *)
Base(name, cv)   == [k |-> "base", name |-> name, cv |-> cv, ref |-> FALSE]
Ptr(t, cv)       == [k |-> "ptr", to |-> t, cv |-> cv, ref |-> FALSE]
Array(t, cv, n, flag) ==
  [k |-> "array", to |-> t, size |-> n, flag |-> flag, cv |-> cv, ref |-> FALSE]
Func(t, params, variadic, conv) ==
  [k |-> "func", to |-> t, params |-> params, variadic |-> variadic, conv |-> conv,
   cv |-> {}, ref |-> FALSE]

Records == {"struct s", "struct opaque"}
IsVoid(t) == t.k = "base" /\ t.name = "void"
IsRecord(t) == t.k = "base" /\ t.name \in Records
Flex(t) == t.k = "array" /\ t.flag \in {"nosize", "vla"}
(* vla() and unbounded() do not ask what is referred to, nor does this     *)
(* c_type::passable(): a reference to an opaque record is not passable.    *)
Passable(t) == t.k # "base" \/ t.name \notin {"void", "struct opaque"}

AddRef(t) == [t EXCEPT !.ref = TRUE]
Unref(t)  == [t EXCEPT !.ref = FALSE]
AddCv(t, cv) == [t EXCEPT !.cv = @ \cup cv]
=============================================================================
