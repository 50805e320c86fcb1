------------------------------- MODULE CArith -------------------------------
(***************************************************************************)
(* The integer types and values of constant expressions (src/ast.hh,       *)
(* c_expr_type, c_value; src/ast.cc, get_rank, is_signed, promote_int).    *)
(* The widths are parameters, so that a small instance has every overflow  *)
(* and every mix of ranks that 32 and 64 bits have.  Of the types of       *)
(* c_expr_type only the integers are here: the lexer makes no others, and  *)
(* named constants are enumerators, of type int.                           *)
(***************************************************************************)
EXTENDS Integers, Sequences

CONSTANTS
  IntBits, LongBits, LLongBits,   \* widths of the types
  CharBits,
  PtrBits,                        \* width of a pointer
  CharSigned                      \* whether plain char is signed

(* The powers of two, which the provers know nothing of. *)
TwoTo[n \in Nat] == IF n = 0 THEN 1 ELSE 2 * TwoTo[n - 1]

(* The code converts a shift count to unsigned int, which holds every      *)
(* count that is less than the width of a type.                            *)
ASSUME WidthsAssumption ==
  /\ {IntBits, LongBits, LLongBits, CharBits, PtrBits} \subseteq Nat
  /\ 1 < CharBits /\ CharBits < IntBits
  /\ IntBits <= LongBits /\ LongBits <= LLongBits /\ LLongBits <= TwoTo[IntBits]
  /\ 0 < PtrBits /\ PtrBits <= LLongBits
  /\ CharSigned \in BOOLEAN

Ranked == {"INT", "UINT", "LONG", "ULONG", "LLONG", "ULLONG"}
IntegerTypes == Ranked \cup {"CHAR", "BOOL"}

Bits(ty) == CASE ty \in {"INT", "UINT"}     -> IntBits
              [] ty \in {"LONG", "ULONG"}   -> LongBits
              [] ty \in {"LLONG", "ULLONG"} -> LLongBits
              [] ty = "CHAR"                -> CharBits
              [] ty = "BOOL"                -> 1

Rank(ty) == CASE ty \in {"INT", "UINT"}     -> 0
              [] ty \in {"LONG", "ULONG"}   -> 1
              [] ty \in {"LLONG", "ULLONG"} -> 2

IsSigned(ty) == ty \in {"INT", "LONG", "LLONG"} \/ (ty = "CHAR" /\ CharSigned)

Lowest(ty)  == IF IsSigned(ty) THEN -TwoTo[Bits(ty) - 1] ELSE 0
Highest(ty) == IF IsSigned(ty) THEN TwoTo[Bits(ty) - 1] - 1 ELSE TwoTo[Bits(ty)] - 1
InRange(ty, n) == Lowest(ty) <= n /\ n <= Highest(ty)

(* What the compiler's conversion to a type does to an integer. *)
Wrapped(ty, n) == Lowest(ty) + ((n - Lowest(ty)) % TwoTo[Bits(ty)])

Value(ty, n) == [ty |-> ty, v |-> n]
(* The outcome of an operation that C leaves undefined. *)
Undefined == Value("undefined", 0)

Cast(x, ty) == Value(ty, Wrapped(ty, x.v))

UnsignedOf(ty) == CASE ty = "INT" -> "UINT" [] ty = "LONG" -> "ULONG" [] ty = "LLONG" -> "ULLONG"

(* promote_int() *)
Promoted(x) == IF x.ty \in {"BOOL", "CHAR"} THEN Value("INT", x.v) ELSE x
=============================================================================
