---------------------------- MODULE OperatorRules ----------------------------
(***************************************************************************)
(* What docs/semantics.md ("Arithmetic on cdata", "Comparisons of cdata",  *)
(* "Operations on cdata") promises of the operators.  Nothing here is      *)
(* translated from the code: Operators is compared with it.                *)
(***************************************************************************)
EXTENDS Operators, CRules

Numeric(x) == x.k \in {"scalar", "number"}
Addressed(x) == x.k \in {"ptr", "array"}
Metas(x) == IF x.k \in {"record", "ptr"} THEN x.to.has ELSE {}

Binary2C == [add |-> "+", sub |-> "-", mul |-> "*", div |-> "/", idiv |-> "/", mod |-> "%",
             band |-> "&", bor |-> "|", bxor |-> "^", lt |-> "<", le |-> "<=", eq |-> "=="]
Unary2C  == [unm |-> "-", bnot |-> "~"]
Shift2C  == [shl |-> "<<", shr |-> ">>"]
Comparing == {"eq", "lt", "le"}

(* "If one of them is an unsigned 64-bit integer, the other is converted   *)
(* to the same type" *)
Unsigned64(x) == x.ty \in Ranked /\ ~IsSigned(x.ty) /\ Bits(x.ty) = LLongBits
Type64(xs) == IF \E i \in DOMAIN xs : Unsigned64(xs[i]) THEN "ULLONG" ELSE "LLONG"
Value64(ty, x) ==
  IF x.ty = "DOUBLE" /\ ~InRange(ty, x.v) THEN Undefined ELSE Value(ty, Wrapped(ty, x.v))

CPower(ty, a, b) ==
  LET power[n \in Nat] ==
        IF n = 0 THEN Value(ty, 1)
        ELSE IF power[n - 1] = Undefined THEN Undefined
        ELSE CArithmetic("*", ty, power[n - 1].v, a)
  IN  power[b]

(* The 64-bit value of an operator applied to two numbers. *)
Rule64(op, x, y) ==
  LET ty == IF op \in DOMAIN Binary2C \cup {"pow"} THEN Type64(<<x, y>>) ELSE Type64(<<x>>)
      a == Value64(ty, x)
      b == Value64(ty, y)
  IN  IF a = Undefined \/ (b = Undefined /\ op \notin DOMAIN Unary2C) THEN Undefined
      ELSE IF op \in DOMAIN Unary2C THEN CUnary(Unary2C[op], a)
      ELSE IF op \in DOMAIN Shift2C THEN CShift(Shift2C[op], a, y)
      ELSE IF op = "pow" THEN IF b.v < 0 THEN Undefined ELSE CPower(ty, a.v, b.v)
      ELSE CArithmetic(Binary2C[op], ty, a.v, b.v)

(* Whether an operator is defined without a metamethod.  A number that is  *)
(* added to a pointer "must be on the right hand side".                    *)
Sized(x) == x.to.size # 0
Compatible(x, y) == x.to.name = y.to.name
Predefined(op, x, y) ==
  CASE op \in {"concat", "len"} -> FALSE
    [] op \in DOMAIN Unary2C -> Numeric(x)
    [] op = "eq" -> (Numeric(x) /\ Numeric(y)) \/ (PtrLike(x) /\ PtrLike(y)) \/ ~IsCdata(x) \/ ~IsCdata(y)
    [] op = "index" -> \/ Addressed(x) /\ Numeric(y) /\ Sized(x)
                       \/ IsRecordPtr(x) /\ y.k = "name" /\ y.key \in DOMAIN x.to.members
    [] OTHER -> \/ Numeric(x) /\ Numeric(y)
                \/ op = "add" /\ Addressed(x) /\ Numeric(y) /\ Sized(x)
                \/ op = "sub" /\ Addressed(x) /\ Numeric(y) /\ Sized(x)
                \/ /\ op \in {"sub", "lt", "le"} /\ Addressed(x) /\ Addressed(y)
                   /\ Compatible(x, y) /\ (op = "sub" => Sized(x))

(* Where a pointer is moved to by a number, as in C. *)
RuleAddress(p, n) == (p.a + n * p.to.size) % TwoTo[PtrBits]
=============================================================================
