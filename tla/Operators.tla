------------------------------ MODULE Operators ------------------------------
(***************************************************************************)
(* The operators of Lua applied to cdata (src/ffilib.cc, cdata_meta): on   *)
(* numbers, on pointers, and by the metamethods of a record type.          *)
(* References are followed first and not told apart here.                  *)
(*                                                                         *)
(* An operand is a Lua number, another Lua value, an arithmetic cdata, or  *)
(* a cdata with an address: of a record, or of what a pointer, an array or *)
(* a function leads to.  Lua floats are whole numbers.                     *)
(***************************************************************************)
EXTENDS Evaluation

(* lua_Integer is a long. *)
LuaInteger(n)    == [k |-> "number", ty |-> "LONG", v |-> n]
LuaFloat(n)      == [k |-> "number", ty |-> "DOUBLE", v |-> n]
LuaName(key)     == [k |-> "name", key |-> key]
LuaOther         == [k |-> "other"]
Scalar(ty, n)    == [k |-> "scalar", ty |-> ty, v |-> n]
(* A type: its name, its size (0 if it is not known), the metamethods its  *)
(* metatype was registered with, the offsets of its members.               *)
Object(k, to, a) == [k |-> k, to |-> to, a |-> a]

IsCdata(x)   == x.k \in {"scalar", "record", "ptr", "array", "func"}
PtrLike(x)   == x.k \in {"ptr", "array", "func"}
IsNumber(x)  == x.k = "number"
IsRecordPtr(x) == x.k \in {"record", "ptr"}

(* What an operator does: it makes a cdata of an integer type, a pointer,  *)
(* a Lua integer or boolean; finds the place that is indexed; calls a      *)
(* metamethod with the operands in the order they are written in; raises   *)
(* an error; or does what C leaves undefined.                              *)
Unspecified         == [k |-> "undefined"]
Boxed(x)            == IF x = Undefined THEN Unspecified ELSE [k |-> "boxed", x |-> x]
Pointer(to, a)      == Object("ptr", to, a)
Number(n)           == [k |-> "integer", n |-> n]
Boolean(b)          == [k |-> "boolean", b |-> b]
PlaceAt(a)          == [k |-> "place", a |-> a]
Calls(m, i, negate) == [k |-> "call", m |-> m, of |-> i, negate |-> negate]
Raises              == [k |-> "error"]
BadAccess           == [k |-> "bad access"]

Wrap(a) == a % TwoTo[PtrBits]

-----------------------------------------------------------------------------
(***************************************************************************)
(* Metamethods                                                             *)
(***************************************************************************)

(* metatype_check(), which takes its operand for a cdata. *)
HasMeta(x, m) == IsRecordPtr(x) /\ m \in x.to.has

(* mutant: only the left operand is asked *)
TryMetaLeft(m, x, y, asksX, asksY, negate, otherwise) ==
  IF asksX /\ ~IsCdata(x) THEN BadAccess
  ELSE IF asksX /\ HasMeta(x, m) THEN Calls(m, 1, negate)
  ELSE otherwise

(* op_try_mt(), which asks those operands it is told to. *)
TryMeta(m, x, y, asksX, asksY, negate, otherwise) ==
  IF asksX /\ ~IsCdata(x) THEN BadAccess
  ELSE IF asksX /\ HasMeta(x, m) THEN Calls(m, 1, negate)
  ELSE IF asksY /\ ~IsCdata(y) THEN BadAccess
  ELSE IF asksY /\ HasMeta(y, m) THEN Calls(m, 2, negate)
  ELSE otherwise

Meta(m, x, y, otherwise) == TryMeta(m, x, y, IsCdata(x), IsCdata(y), FALSE, otherwise)

-----------------------------------------------------------------------------
(***************************************************************************)
(* Numbers                                                                 *)
(***************************************************************************)

IsArith(x) == x.k \in {"scalar", "number"}

(* check_arith_expr(); other operands raise an error. *)
ArithOperand(x) == IF x.ty \in {"BOOL", "CHAR"} THEN Value("INT", x.v) ELSE Value(x.ty, x.v)

(* promote_long(), where long is as wide as long long *)
PromoteLong(x) ==
  IF LongBits # LLongBits THEN x
  ELSE CASE x.ty = "LONG"  -> Value("LLONG", x.v)
         [] x.ty = "ULONG" -> Value("ULLONG", x.v)
         [] OTHER          -> x

(* promote_to_64bit() *)
To64bit(x, ty) ==
  IF x.ty = "DOUBLE" /\ ~InRange(ty, x.v) THEN Undefined ELSE Cast(x, ty)

(* mutant: the right side decides *)
PromotedTypeRight(l, r) == IF r.ty = "ULLONG" THEN "ULLONG" ELSE "LLONG"

(* promote_sides() *)
PromotedType(l, r) == IF "ULLONG" \in {l.ty, r.ty} THEN "ULLONG" ELSE "LLONG"
PromoteSides(l, r) ==
  LET ty == PromotedType(l, r) IN <<To64bit(l, ty), To64bit(r, ty)>>

Sides(x, y) == PromoteSides(PromoteLong(ArithOperand(x)), PromoteLong(ArithOperand(y)))

(* arith_64bit_base(), once both operands are known to be numbers *)
Arith64bit(op, sides) ==
  IF Undefined \in {sides[1], sides[2]} THEN Undefined ELSE EvalBinary(op, sides[1], sides[2])

ArithBin(op, x, y) ==
  IF IsArith(x) /\ IsArith(y) THEN Boxed(Arith64bit(op, Sides(x, y))) ELSE Raises
ArithCmp(op, x, y) ==
  IF ~(IsArith(x) /\ IsArith(y)) THEN Raises
  ELSE LET r == Arith64bit(op, Sides(x, y)) IN IF r = Undefined THEN Unspecified ELSE Boolean(r.v # 0)

(* powimp(), the body of its loop; it ends when exp is zero *)
PowStep(ty, s) ==
  LET next == IF s.exp % 2 = 1 THEN Result(ty, s.ret.v * s.base) ELSE s.ret
      rest == s.exp \div 2
      square == Result(ty, s.base * s.base)
  IN  IF s.exp = 0 THEN s
      ELSE IF next = Undefined \/ rest = 0 THEN [s EXCEPT !.exp = 0, !.ret = next]
      ELSE IF square = Undefined THEN [s EXCEPT !.exp = 0, !.ret = Undefined]
      ELSE [base |-> square.v, exp |-> rest, ret |-> next]

(* powimp(), which runs at most once for each bit of the exponent *)
PowLoop(ty, base, exp) ==
  LET after[i \in Nat] ==
        IF i = 0 THEN [base |-> base, exp |-> exp, ret |-> Value(ty, 1)]
        ELSE PowStep(ty, after[i - 1])
  IN  after[Bits(ty)].ret

Power(sides) ==
  IF Undefined \in {sides[1], sides[2]} THEN Undefined
  ELSE LET ty == sides[1].ty
       IN  IF sides[2].v < 0 THEN Value(ty, 0)
           ELSE PowLoop(ty, sides[1].v, sides[2].v)

Pow(x, y) == Meta("__pow", x, y, IF IsArith(x) /\ IsArith(y) THEN Boxed(Power(Sides(x, y))) ELSE Raises)

(* One operand of a unary operator or a shift. *)
Promoted64(x) ==
  LET p == PromoteLong(ArithOperand(x)) IN IF p.ty = "ULLONG" THEN p ELSE To64bit(p, "LLONG")

(* arith_un(); Lua passes the operand twice *)
ArithUn(m, op, x) ==
  TryMeta(m, x, x, TRUE, FALSE, FALSE,
          IF ~IsArith(x) THEN Raises
          ELSE LET p == Promoted64(x) IN Boxed(IF p = Undefined THEN p ELSE EvalUnary(op, p)))

(* shift_bin(): the right side is not promoted, and may not be a float *)
ShiftSides(op, l, r) ==
  IF r.ty = "DOUBLE" THEN Raises
  ELSE Boxed(IF l = Undefined THEN l ELSE EvalBinary(op, l, r))
ShiftBin(m, op, x, y) ==
  Meta(m, x, y, IF IsArith(x) /\ IsArith(y) THEN ShiftSides(op, Promoted64(x), ArithOperand(y)) ELSE Raises)

-----------------------------------------------------------------------------
(***************************************************************************)
(* Pointers                                                                *)
(***************************************************************************)

(***************************************************************************)
(* test_arith<T>(), for an integer type T of the width of a pointer: a Lua *)
(* float that no lua_Integer can hold is zero to lua_tointeger(), and the  *)
(* cast of a floating point cdata is undefined unless its value is in the  *)
(* range of T.  Other values wrap around, with the address they are added  *)
(* to.                                                                     *)
(***************************************************************************)
DiffRange == -TwoTo[PtrBits - 1]..(TwoTo[PtrBits - 1] - 1)   \* ptrdiff_t
SizeRange == 0..(TwoTo[PtrBits] - 1)                         \* size_t
CastDefined(x, range) == x.k = "scalar" /\ x.ty = "DOUBLE" => x.v \in range
Offset(x) == IF IsNumber(x) /\ ~InRange("LONG", x.v) THEN 0 ELSE x.v

Moved(p, n) ==
  IF CastDefined(n, DiffRange) THEN Pointer(p.to, Wrap(p.a + Offset(n) * p.to.size))
  ELSE Unspecified

(* The base of a function pointer is read from the function. *)
AddTo(p, n, x, y) ==
  IF p.k = "func" THEN BadAccess
  ELSE IF p.to.size = 0 \/ ~IsArith(n) THEN Meta("__add", x, y, Raises)
  ELSE Moved(p, n)

Add(x, y) ==
  IF PtrLike(x) THEN AddTo(x, y, x, y)
  ELSE IF PtrLike(y) THEN AddTo(y, x, x, y)
  ELSE Meta("__add", x, y, ArithBin("+", x, y))

(* The quotient is one of unsigned numbers, whatever the sign. *)
Signed(a) == IF a < TwoTo[PtrBits - 1] THEN a ELSE a - TwoTo[PtrBits]
Difference(x, y) ==
  LET d == Signed(x.a) - Signed(y.a)
  IN  IF Signed(Wrap(d)) # d THEN Unspecified
      ELSE Number(Wrapped("LLONG", Wrap(d) \div x.to.size))

(* sub(): a number that is taken away is added, and in bytes; and where    *)
(* there is no number, it is the metamethod of + that is tried.            *)
Sub(x, y) ==
  IF ~PtrLike(x) THEN Meta("__sub", x, y, ArithBin("-", x, y))
  ELSE IF x.k = "func" THEN BadAccess
  ELSE IF x.to.size = 0 THEN Meta("__sub", x, y, Raises)
  ELSE IF y.k = "func" THEN BadAccess
  ELSE IF PtrLike(y)
    THEN IF x.to.name = y.to.name THEN Difference(x, y) ELSE Meta("__sub", x, y, Raises)
  ELSE IF ~IsArith(y) THEN Meta("__add", x, y, Raises)
  ELSE IF CastDefined(y, DiffRange) THEN Object(x.k, x.to, Wrap(x.a + Offset(y)))
  ELSE Unspecified

-----------------------------------------------------------------------------
(***************************************************************************)
(* Comparisons                                                             *)
(***************************************************************************)

(* cmp_addr(): that of a scalar is that of its own cdata *)
SameAddress(x, y) == x.k # "scalar" /\ y.k # "scalar" /\ x.a = y.a

Eq(x, y) ==
  IF ~IsCdata(x) \/ ~IsCdata(y) THEN Boolean(FALSE)
  ELSE IF PtrLike(x) /\ PtrLike(y) THEN Boolean(x.a = y.a)
  ELSE Meta("__eq", x, y, IF IsArith(x) /\ IsArith(y) THEN ArithCmp("==", x, y)
                          ELSE Boolean(SameAddress(x, y)))

(* cmp_base(): the second metamethod is asked of the operands the other    *)
(* way around, but they are not exchanged.                                 *)
ByMeta(x, y, m1, m2, otherwise) ==
  TryMeta(m1, x, y, IsCdata(x), IsCdata(y), FALSE,
    IF m1 = m2 THEN otherwise
    ELSE TryMeta(m2, x, y, IsCdata(y), IsCdata(x), TRUE, otherwise))

ComparableTo(x, y) == x.k = "ptr" /\ y.k = "ptr" /\ x.to.name = y.to.name

CmpBase(op, x, y, m1, m2) ==
  IF IsArith(x) /\ IsArith(y) THEN ArithCmp(op, x, y)
  ELSE ByMeta(x, y, m1, m2, IF ComparableTo(x, y) THEN Boolean(Compare(op, x.a, y.a)) ELSE Raises)

Lt(x, y) == CmpBase("<", x, y, "__lt", "__lt")
Le(x, y) == CmpBase("<=", x, y, "__le", "__lt")

-----------------------------------------------------------------------------
(***************************************************************************)
(* Indexing                                                                *)
(***************************************************************************)

(* index_common(): a pointer to a record has the members of the record *)
IndexMember(x, key) ==
  IF key \in DOMAIN x.to.members THEN PlaceAt(Wrap(x.a + x.to.members[key]))
  ELSE TryMeta("__index", x, x, TRUE, FALSE, FALSE, Raises)

IndexElement(x, key) ==
  IF x.to.size = 0 \/ ~IsArith(key) THEN Raises
  ELSE IF CastDefined(key, SizeRange) THEN PlaceAt(Wrap(x.a + Offset(key) * x.to.size))
  ELSE Unspecified

(* index(); the members of a callback are in Callback *)
Index(x, key) ==
  CASE x.k = "record" ->
         IF key.k = "name" THEN IndexMember(x, key.key)
         ELSE IF IsNumber(key) THEN IndexMember(x, "") ELSE Raises
    [] x.k = "ptr" /\ key.k = "name" -> IF x.to.record THEN IndexMember(x, key.key) ELSE Raises
    [] x.k \in {"ptr", "array"} /\ key.k # "name" -> IndexElement(x, key)
    [] OTHER -> Raises

-----------------------------------------------------------------------------
(* The metatable of cdata (setup()), as Lua uses it. *)
ArithOps == [mul |-> <<"__mul", "*">>, div |-> <<"__div", "/">>, idiv |-> <<"__idiv", "/">>,
             mod |-> <<"__mod", "%">>, band |-> <<"__band", "&">>, bor |-> <<"__bor", "|">>,
             bxor |-> <<"__bxor", "^">>]
UnaryMetas == [unm |-> <<"__unm", "-">>, bnot |-> <<"__bnot", "~">>]
ShiftOps == [shl |-> <<"__shl", "<<">>, shr |-> <<"__shr", ">>">>]

Operator(op, x, y) ==
  CASE op = "add" -> Add(x, y)
    [] op = "sub" -> Sub(x, y)
    [] op = "pow" -> Pow(x, y)
    [] op = "eq" -> Eq(x, y)
    [] op = "lt" -> Lt(x, y)
    [] op = "le" -> Le(x, y)
    [] op = "index" -> Index(x, y)
    [] op = "concat" -> Meta("__concat", x, y, Raises)
    [] op = "len" -> TryMeta("__len", x, x, TRUE, FALSE, FALSE, Raises)
    [] op \in DOMAIN ArithOps -> Meta(ArithOps[op][1], x, y, ArithBin(ArithOps[op][2], x, y))
    [] op \in DOMAIN UnaryMetas -> ArithUn(UnaryMetas[op][1], UnaryMetas[op][2], x)
    [] op \in DOMAIN ShiftOps -> ShiftBin(ShiftOps[op][1], ShiftOps[op][2], x, y)
=============================================================================
