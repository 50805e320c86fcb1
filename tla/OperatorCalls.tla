---------------------------- MODULE OperatorCalls ----------------------------
(***************************************************************************)
(* A Lua program that computes with cdata (src/ffilib.cc, cdata_meta): it  *)
(* holds a value, and applies an operator to it and another one, on either *)
(* side; what comes of it is the value it holds next.  Lua calls the       *)
(* metamethods of cdata if one of the operands is cdata, for == if both    *)
(* are, and gives the operand of a unary operator twice.                   *)
(*                                                                         *)
(* A metamethod of the program, and the memory that is read, may give it   *)
(* any value.  An error is caught.                                         *)
(***************************************************************************)
EXTENDS OperatorRules

CONSTANT Given   \* the values a program may begin with and be given

(* The metamethod of an operator. *)
MetaOf == [add |-> "__add", sub |-> "__sub", mul |-> "__mul", div |-> "__div", idiv |-> "__idiv",
           mod |-> "__mod", band |-> "__band", bor |-> "__bor", bxor |-> "__bxor", shl |-> "__shl",
           shr |-> "__shr", unm |-> "__unm", bnot |-> "__bnot", pow |-> "__pow", eq |-> "__eq",
           lt |-> "__lt", le |-> "__le", concat |-> "__concat", len |-> "__len", index |-> "__index"]
Operations == DOMAIN MetaOf
OneOperand == {"unm", "bnot", "len"}

(* Only record types have metamethods and members, which have names. *)
IsType(to) ==
  /\ to.size \in Nat /\ to.record \in BOOLEAN
  /\ \A key \in DOMAIN to.members : to.members[key] \in Nat /\ key # ""
  /\ ~to.record => to.has = {} /\ DOMAIN to.members = {}

(* The operands there are. *)
IsOperand(x) ==
  \/ x.k = "scalar" /\ x.v \in Int
       /\ (x.ty = "DOUBLE" \/ (x.ty \in IntegerTypes /\ InRange(x.ty, x.v)))
  \/ x.k = "number" /\ x.v \in Int /\ (x.ty = "DOUBLE" \/ (x.ty = "LONG" /\ InRange("LONG", x.v)))
  \/ x.k \in {"name", "other"}
  \/ /\ x.k \in {"record", "ptr", "array", "func"} /\ IsType(x.to)
     /\ x.a \in 0..(TwoTo[PtrBits] - 1)
     /\ x.k = "record" => x.to.record
     /\ x.k = "func" => x.to.size = 0 /\ ~x.to.record

(* 32 and 64 bits *)
ASSUME OperandAssumption ==
  IntBits < LLongBits /\ \A x \in Given : IsOperand(x)

VARIABLES held,   \* the value the program holds
          call    \* the operator that is applied: <<>>, or it and its operands

callVars == <<held, call>>

CallInit == held \in Given /\ call = <<>>

Callable(op, x, y) ==
  /\ IsCdata(x) \/ (IsCdata(y) /\ op # "index")
  /\ op = "eq" => IsCdata(x) /\ IsCdata(y)

(* The operator is applied to the value and to another one. *)
Apply(op, x, y) ==
  /\ call = <<>> /\ Callable(op, x, y)
  /\ call' = <<op, x, y>> /\ UNCHANGED held
ApplyLeft  == \E op \in Operations \ OneOperand, y \in Given : Apply(op, held, y)
ApplyRight == \E op \in Operations \ OneOperand, x \in Given : Apply(op, x, held)
ApplyAlone == \E op \in OneOperand : Apply(op, held, held)

Applied == call # <<>>
Outcome == Operator(call[1], call[2], call[3])

(* What a program has once an operator returned. *)
Returned(got) ==
  CASE got.k = "boxed"   -> {Scalar(got.x.ty, got.x.v)}
    [] got.k \in {"ptr", "array"} -> {got}
    [] got.k = "integer" -> {LuaInteger(Wrapped("LONG", got.n))}
    [] got.k = "boolean" -> {LuaOther}
    [] got.k \in {"place", "call"} -> Given
    [] got.k = "error"   -> {held}
    [] OTHER             -> {}   \* undefined behaviour: nothing is known

Return ==
  /\ Applied /\ held' \in Returned(Outcome)
  /\ call' = <<>>

CallNext == ApplyLeft \/ ApplyRight \/ ApplyAlone \/ Return

CallSpec == CallInit /\ [][CallNext]_callVars

-----------------------------------------------------------------------------
(***************************************************************************)
(* docs/semantics.md, 64-bit integer arithmetic and comparison: operators  *)
(* on numbers are those of C on unsigned 64 bits if one is an unsigned     *)
(* 64-bit cdata, else on signed 64 bits, and are defined where those are.  *)
(* A shift does not take a float.  (arith_64bit_base, shift_bin, pow)      *)
(***************************************************************************)
SameValue(op, got, rule) ==
  /\ rule # Undefined => got = IF op \in Comparing THEN Boolean(rule.v # 0) ELSE Boxed(rule)
  /\ op \notin {"pow"} \cup DOMAIN Shift2C => (rule = Undefined) = (got = Unspecified)

BoxedArithmetic ==
  Applied =>
    LET op == call[1] x == call[2] y == call[3] IN
    (/\ op \notin {"len", "concat", "index"} /\ Numeric(x) /\ Numeric(y)
     /\ op \in DOMAIN Shift2C => y.ty # "DOUBLE")
      => SameValue(op, Outcome, Rule64(op, x, y))

(* What is known to be otherwise.  A number is also added to a pointer     *)
(* where it is on the left (as in "3 + a" of tests/scalar.lua); the type   *)
(* of a function is read as that of a pointer; where a pointer is taken and no number or pointer from    *)
(* it, the metamethod of + is called; arrays are not compared, nor         *)
(* pointers without asking a metamethod first; and where there is no __le, *)
(* __lt is called with the operands as they are, after a look at one that  *)
(* need not be a cdata.                                                    *)
Otherwise(op, x, y) ==
  \/ op = "add" /\ Numeric(x) /\ Addressed(y) /\ Sized(y)
  \/ op \in {"add", "sub"} /\ "func" \in {x.k, y.k}
  \/ op = "sub" /\ Addressed(x) /\ Sized(x) /\ ~Numeric(y) /\ ~Addressed(y)
  \/ op \in {"lt", "le"} /\ Addressed(x) /\ Predefined(op, x, y)
       /\ ("array" \in {x.k, y.k} \/ Metas(x) \cup Metas(y) # {})
  \/ /\ op = "le" /\ ~Predefined(op, x, y) /\ "__le" \notin Metas(x) \cup Metas(y)
     /\ "__lt" \in Metas(x) \cup Metas(y) \/ ~IsCdata(x) \/ ~IsCdata(y)
  \/ op \in DOMAIN Shift2C /\ Numeric(y) /\ y.ty = "DOUBLE"

(* The operand whose metamethod is called: the left one if it has it. *)
HasOwner(op, x, y) == MetaOf[op] \in Metas(x) \/ (MetaOf[op] \in Metas(y) /\ op # "index")
Owner(op, x) == IF MetaOf[op] \in Metas(x) THEN 1 ELSE 2

(* Only names and numbers of records lead to __index. *)
Indexable(x, y) == y.k = "name" \/ (y.k = "number" /\ x.k # "ptr")

(* Offsets are of a signed type where they are added, of an unsigned one   *)
(* where they are indices: the cast of a floating point cdata is defined   *)
(* for both.                                                               *)
IsOffset(y) == CastDefined(y, DiffRange) /\ CastDefined(y, SizeRange)
PlacesAsAdded(op, x, y, got) ==
  op = "index" => /\ Addressed(x) /\ Numeric(y) /\ IsOffset(y) => got.a = Operator("add", x, y).a
                  /\ y.k = "name" => got.a = Wrap(x.a + x.to.members[y.key])

Dispatches(op, x, y, got) ==
  IF Predefined(op, x, y)
    THEN got.k \notin {"call", "error", "bad access"} /\ PlacesAsAdded(op, x, y, got)
  ELSE IF HasOwner(op, x, y) /\ (op = "index" => Indexable(x, y))
    THEN got = Calls(MetaOf[op], Owner(op, x), FALSE)
  ELSE got.k = (IF op = "eq" THEN "boolean" ELSE "error")

(***************************************************************************)
(* docs/semantics.md, Operations on cdata: "The pre-defined operations are *)
(* always tried first", else the metamethod of this operator is called, of *)
(* the left operand if it has one, else of the right one, with both in     *)
(* their order; and an error is raised if neither has it. Memory is read   *)
(* only where there is a cdata, and pointers are indexed where addition    *)
(* leads, if the cast of the offset is defined. (op_try_mt, cmp_base, add, *)
(* sub, index_common)                                                      *)
(***************************************************************************)
OperatorsDispatch ==
  Applied => \/ Otherwise(call[1], call[2], call[3])
             \/ Dispatches(call[1], call[2], call[3], Outcome)

(***************************************************************************)
(* docs/semantics.md, Pointer arithmetic: a number is "added or            *)
(* subtracted", and the address is "changed the same way as in C"; Pointer *)
(* difference: the difference in addresses divided by the element size.    *)
(* Floats, which need not have a value as an offset, are left out.         *)
(* (add, sub)                                                              *)
(***************************************************************************)
PointersMoveAsInC ==
  (Applied /\ call[1] \in {"add", "sub"} /\ Addressed(call[2])) =>
    LET op == call[1] p == call[2] y == call[3]
    IN  /\ Sized(p) /\ Numeric(y) /\ y.ty # "DOUBLE"
             => Outcome.a = RuleAddress(p, IF op = "add" THEN y.v ELSE -y.v)
        /\ (/\ op = "sub" /\ Sized(p) /\ Addressed(y) /\ Compatible(p, y)
            /\ (p.a - y.a) % p.to.size = 0 /\ Outcome # Unspecified)
           => Outcome = Number((p.a - y.a) \div p.to.size)
=============================================================================
