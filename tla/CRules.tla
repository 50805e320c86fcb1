------------------------------- MODULE CRules -------------------------------
(***************************************************************************)
(* What C says of the operators of integers: the usual arithmetic          *)
(* conversions, and the value each operator has.  Nothing here is          *)
(* translated from the code: Evaluation and Operators are compared with    *)
(* it.  The bits of &, | and ^ are those of Evaluation, where the code     *)
(* uses C's own operators.                                                 *)
(***************************************************************************)
EXTENDS Evaluation

Order == <<"INT", "UINT", "LONG", "ULONG", "LLONG", "ULLONG">>

(* The usual arithmetic conversions: the first type that has the rank of   *)
(* both and, if it is signed, the values of both.                          *)
Holds(ty, a, b) ==
  \A x \in {a, b} : Rank(x) <= Rank(ty) /\ (IsSigned(ty) => Highest(x) <= Highest(ty))
CommonType(a, b) ==
  Order[CHOOSE i \in DOMAIN Order :
          Holds(Order[i], a, b) /\ \A j \in 1..(i - 1) : ~Holds(Order[j], a, b)]

CInt(b) == Value("INT", IF b THEN 1 ELSE 0)

(* The result of an operation, given what it is exactly. *)
Exactly(ty, n) ==
  IF InRange(ty, n) THEN Value(ty, n)
  ELSE IF IsSigned(ty) THEN Undefined ELSE Value(ty, n % TwoTo[Bits(ty)])

(* Division is towards zero. *)
CQuotient(a, b) == IF (a < 0) = (b < 0) THEN Abs(a) \div Abs(b) ELSE -(Abs(a) \div Abs(b))

CArithmetic(op, ty, a, b) ==
  CASE op = "+" -> Exactly(ty, a + b)
    [] op = "-" -> Exactly(ty, a - b)
    [] op = "*" -> Exactly(ty, a * b)
    [] op = "/" -> IF b = 0 THEN Undefined ELSE Exactly(ty, CQuotient(a, b))
    [] op = "%" -> IF b = 0 \/ Exactly(ty, CQuotient(a, b)) = Undefined THEN Undefined
                   ELSE Exactly(ty, a - CQuotient(a, b) * b)
    [] op \in {"&", "|", "^"} -> Value(ty, Bitwise(op, ty, a, b))
    [] op = "==" -> CInt(a = b)  [] op = "!=" -> CInt(a # b)
    [] op = "<" -> CInt(a < b)   [] op = ">" -> CInt(a > b)
    [] op = "<=" -> CInt(a <= b) [] op = ">=" -> CInt(a >= b)

CConverted(op, ty, x, y) == CArithmetic(op, ty, Wrapped(ty, x.v), Wrapped(ty, y.v))
CBinary(op, x, y) == CConverted(op, CommonType(x.ty, y.ty), x, y)

CShift(op, x, y) ==
  IF y.v < 0 \/ y.v >= Bits(x.ty) THEN Undefined
  ELSE IF op = ">>" THEN Value(x.ty, x.v \div TwoTo[y.v])
  ELSE IF ~IsSigned(x.ty) THEN Value(x.ty, (x.v * TwoTo[y.v]) % TwoTo[Bits(x.ty)])
  ELSE IF x.v >= 0 /\ InRange(x.ty, x.v * TwoTo[y.v]) THEN Value(x.ty, x.v * TwoTo[y.v])
  ELSE Undefined

(* The operators of a promoted operand. *)
CUnary(op, x) ==
  CASE op = "+" -> x
    [] op = "-" -> CBinary("-", Value(x.ty, 0), x)
    [] op = "~" -> CBinary("-", CBinary("-", Value(x.ty, 0), Value(x.ty, 1)), x)

(* The right operand of && and || is evaluated only if the left one does   *)
(* not decide.                                                             *)
CLogical(op, x, y) ==
  IF (op = "&&") = (x.v = 0) THEN CInt(op = "||")
  ELSE IF y = Undefined THEN Undefined ELSE CInt(y.v # 0)

(* The value of an expression, given those of its operands. *)
CUnaryValue(op, x) == IF x = Undefined THEN Undefined ELSE CUnary(op, x)
CBinaryValue(op, x, y) ==
  IF x = Undefined THEN Undefined
  ELSE IF op \in Logical THEN CLogical(op, x, y)
  ELSE IF y = Undefined THEN Undefined
  ELSE IF op \in Shifts THEN CShift(op, x, y) ELSE CBinary(op, x, y)
=============================================================================
