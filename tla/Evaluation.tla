----------------------------- MODULE Evaluation -----------------------------
(***************************************************************************)
(* The operators of constant expressions applied to values (src/ast.cc,    *)
(* convert_bin, eval_unary, eval_binary), which are those of integer cdata *)
(* too.                                                                    *)
(***************************************************************************)
EXTENDS CArith

(* mutant: an unsigned type of lower rank always fits a signed one *)
ConvertLowerUnbounded(l, r) ==
  IF IsSigned(l.ty) = IsSigned(r.ty) \/ IsSigned(r.ty) \/ Rank(r.ty) < Rank(l.ty)
    THEN <<l, Cast(r, l.ty)>>
  ELSE <<Cast(l, UnsignedOf(l.ty)), Cast(r, UnsignedOf(l.ty))>>

(* convert_bin(), of types of which the second has no higher rank *)
ConvertLower(l, r) ==
  IF IsSigned(l.ty) = IsSigned(r.ty) \/ IsSigned(r.ty) THEN <<l, Cast(r, l.ty)>>
  ELSE IF /\ l.ty \in {"LLONG", "LONG"} /\ r.ty \in {"ULONG", "UINT"}
          /\ Bits(r.ty) < Bits(l.ty)
    THEN <<l, Cast(r, l.ty)>>
  ELSE <<Cast(l, UnsignedOf(l.ty)), Cast(r, UnsignedOf(l.ty))>>

(* convert_bin(), which exchanges its operands where it has to *)
ConvertBin(l, r) ==
  IF l.ty = r.ty THEN <<l, r>>
  ELSE IF Rank(r.ty) <= Rank(l.ty) THEN ConvertLower(l, r)
  ELSE LET c == ConvertLower(r, l) IN <<c[2], c[1]>>

(* A signed result that is out of range is undefined, an unsigned one wraps *)
Result(ty, n) ==
  IF ~IsSigned(ty) THEN Value(ty, Wrapped(ty, n))
  ELSE IF InRange(ty, n) THEN Value(ty, n) ELSE Undefined

Truth(b) == Value("BOOL", IF b THEN 1 ELSE 0)

Abs(n) == IF n < 0 THEN -n ELSE n
Sign(n) == IF n < 0 THEN -1 ELSE 1
Quotient(a, b) == Sign(a) * Sign(b) * (Abs(a) \div Abs(b))

(* Bit i of &, | and ^, which the code leaves to C *)
BitOf(op, a, b, i) ==
  LET x == (a \div TwoTo[i]) % 2 = 1
      y == (b \div TwoTo[i]) % 2 = 1
  IN  CASE op = "&" -> x /\ y [] op = "|" -> x \/ y [] op = "^" -> x # y
Bitwise(op, ty, a, b) ==
  LET lowest[n \in Nat] ==
        IF n = 0 THEN 0
        ELSE lowest[n - 1] + (IF BitOf(op, a, b, n - 1) THEN TwoTo[n - 1] ELSE 0)
  IN  Wrapped(ty, lowest[Bits(ty)])

(* The same operator applied to two values of one type (BINOP_CASE). *)
Arith(op, ty, a, b) ==
  CASE op = "+" -> Result(ty, a + b)
    [] op = "-" -> Result(ty, a - b)
    [] op = "*" -> Result(ty, a * b)
    [] op = "/" -> IF b = 0 THEN Undefined ELSE Result(ty, Quotient(a, b))
    [] op = "%" -> IF b = 0 \/ ~InRange(ty, Quotient(a, b)) THEN Undefined
                   ELSE Result(ty, a - b * Quotient(a, b))
    [] op \in {"&", "|", "^"} -> Value(ty, Bitwise(op, ty, a, b))

Compare(op, a, b) ==
  CASE op = "==" -> a = b [] op = "!=" -> a # b
    [] op = "<" -> a < b  [] op = ">" -> a > b
    [] op = "<=" -> a <= b [] op = ">=" -> a >= b

ShiftLeft(ty, a, n) ==
  IF n >= Bits(ty) \/ a < 0 THEN Undefined
  ELSE IF IsSigned(ty) /\ a * TwoTo[n] >= TwoTo[Bits(ty)] THEN Undefined
  ELSE Value(ty, Wrapped(ty, a * TwoTo[n]))
ShiftRight(ty, a, n) ==
  IF n >= Bits(ty) THEN Undefined ELSE Value(ty, a \div TwoTo[n])

(* SHIFT_CASE: the type is that of the left operand; a negative count      *)
(* shifts the other way; an unsigned long count is read as unsigned int.   *)
Shift(op, l, r) ==
  LET n == IF r.ty = "ULONG" THEN Wrapped("UINT", r.v) ELSE r.v
  IN  IF (op = "<<") = (n >= 0) THEN ShiftLeft(l.ty, l.v, Abs(n))
      ELSE ShiftRight(l.ty, l.v, Abs(n))

UnaryOps == {"+", "-", "!", "~"}
Logical == {"&&", "||"}
Shifts == {"<<", ">>"}
Comparisons == {"==", "!=", "<", ">", "<=", ">="}
Arithmetic == {"+", "-", "*", "/", "%", "&", "|", "^"}
BinaryOps == Logical \cup Shifts \cup Comparisons \cup Arithmetic

(* eval_unary(), once the operand is evaluated; ! keeps its type *)
EvalUnary(op, x) ==
  LET p == Promoted(x) IN
  CASE op = "+" -> p
    [] op = "-" -> Result(p.ty, -p.v)
    [] op = "!" -> Value(x.ty, IF x.v = 0 THEN 1 ELSE 0)
    [] op = "~" -> Value(p.ty, Wrapped(p.ty, -p.v - 1))

(* eval_binary(), once both operands are evaluated *)
EvalBinary(op, x, y) ==
  IF op \in Logical THEN
    Truth(IF op = "&&" THEN x.v # 0 /\ y.v # 0 ELSE x.v # 0 \/ y.v # 0)
  ELSE IF op \in Shifts THEN Shift(op, Promoted(x), Promoted(y))
  ELSE LET c == ConvertBin(Promoted(x), Promoted(y)) IN
    IF op \in Comparisons THEN Truth(Compare(op, c[1].v, c[2].v))
    ELSE Arith(op, c[1].ty, c[1].v, c[2].v)
=============================================================================
