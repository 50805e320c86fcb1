------------------------------ MODULE Constants ------------------------------
(***************************************************************************)
(* The constants of a declaration: an expression is evaluated from its     *)
(* operands up (src/ast.cc, c_expr::eval and below), and its value is that *)
(* of an enumerator, or the size of an array (src/parser.cc, parse_enum,   *)
(* get_arrsize).                                                           *)
(*                                                                         *)
(* The parts of an expression that are evaluated and wait for the rest of  *)
(* it are kept in parts, the last one on top, as the calls of eval return. *)
(* Beside its value, each part has the value C gives it and those of its   *)
(* operators that the code treats otherwise than C; the properties compare *)
(* them and no action looks at them.                                       *)
(***************************************************************************)
EXTENDS CRules

CONSTANTS Operands,        \* the operands an expression may have
          MaxTerms,       \* bound: operands and unary operators in a declaration
          MaxEnumerators   \* bound: enumerators in a declaration

ASSUME OperandsAssumption ==
  \A x \in Operands : x.ty \in IntegerTypes /\ x.v \in Int /\ InRange(x.ty, x.v)
                        /\ x = Value(x.ty, x.v)

VARIABLES parts,    \* the parts of the expression that is evaluated
          enums,    \* the enumerators so far
          count     \* the operands and unary operators so far

constVars == <<parts, enums, count>>

ConstInit == parts = <<>> /\ enums = <<>> /\ count = 0

(* Operators that C and the code do not agree on: both operands of && and  *)
(* || are evaluated, a negative count shifts the other way, ! keeps its    *)
(* type and ? does not convert its branches.                               *)
Special == Logical \cup Shifts \cup {"!", "?"}

Part(x, leaf, c, used) == [x |-> x, leaf |-> leaf, c |-> c, used |-> used]

(* What is below the n parts on top. *)
Below(n) == SubSeq(parts, 1, Len(parts) - n)
Top(n) == parts[Len(parts) - n]

(* c_expr_eval() of an operand *)
Operand(x) ==
  /\ count < MaxTerms
  /\ parts' = Append(parts, Part(x, TRUE, Promoted(x), {}))
  /\ count' = count + 1 /\ UNCHANGED enums

Known(x, value) == IF x = Undefined THEN Undefined ELSE value

(* eval_unary() *)
Unary(op) ==
  /\ count < MaxTerms /\ Len(parts) >= 1
  /\ LET e == Top(0)
     IN  parts' = Append(Below(1),
           Part(Known(e.x, EvalUnary(op, e.x)), FALSE,
                IF op = "!" THEN Undefined ELSE CUnaryValue(op, e.c),
                e.used \cup ({op} \cap Special)))
  /\ count' = count + 1 /\ UNCHANGED enums

(* eval_binary(), which evaluates both operands first *)
Binary(op) ==
  /\ Len(parts) >= 2
  /\ LET l == Top(1)
         r == Top(0)
     IN  parts' = Append(Below(2),
           Part(Known(l.x, Known(r.x, EvalBinary(op, l.x, r.x))), FALSE,
                CBinaryValue(op, l.c, r.c), l.used \cup r.used \cup ({op} \cap Special)))
  /\ UNCHANGED <<enums, count>>

(* A constant is promoted, the result of an operator is not. *)
Evaluated(e) == IF e.leaf THEN Promoted(e.x) ELSE e.x

(* eval_ternary(): the branch that is not taken is not evaluated. *)
Conditional ==
  /\ Len(parts) >= 3
  /\ LET branch == IF Top(2).x.v # 0 THEN Top(1) ELSE Top(0)
     IN  parts' = Append(Below(3),
           Part(Known(Top(2).x, Evaluated(branch)), FALSE, Undefined,
                Top(2).used \cup Top(1).used \cup Top(0).used \cup {"?"}))
  /\ UNCHANGED <<enums, count>>

-----------------------------------------------------------------------------
(***************************************************************************)
(* Enumerators.  Undefined stands for an error too: no type is declared    *)
(* then.                                                                   *)
(***************************************************************************)
NoPart == Part(Undefined, FALSE, Undefined, {"none"})
Enumerator(x, from) == [x |-> x, from |-> from]

(* The value of an enumerator that has one. *)
EnumValue(x) == IF x.ty \notin Ranked THEN Undefined ELSE Cast(x, "INT")

(* mutant: counting starts at one *)
FollowingFromOne(prev) ==
  IF prev = <<>> THEN Value("INT", 1)
  ELSE LET x == prev[Len(prev)].x IN Known(x, Result("INT", x.v + 1))

(* The value of an enumerator that has none; prev are those before it. *)
Following(prev) ==
  IF prev = <<>> THEN Value("INT", 0)
  ELSE LET x == prev[Len(prev)].x IN Known(x, Result("INT", x.v + 1))

(* parse_enum(), the body of its loop *)
ValuedEnumerator ==
  /\ Len(enums) < MaxEnumerators /\ Len(parts) = 1
  /\ enums' = Append(enums, Enumerator(EnumValue(Evaluated(Top(0))), Top(0)))
  /\ parts' = <<>> /\ UNCHANGED count
CountedEnumerator ==
  /\ Len(enums) < MaxEnumerators /\ parts = <<>>
  /\ enums' = Append(enums, Enumerator(Following(enums), NoPart))
  /\ UNCHANGED <<parts, count>>

ConstNext ==
  \/ \E x \in Operands : Operand(x)
  \/ \E op \in UnaryOps : Unary(op)
  \/ \E op \in BinaryOps : Binary(op)
  \/ Conditional
  \/ ValuedEnumerator \/ CountedEnumerator

ConstSpec == ConstInit /\ [][ConstNext]_constVars

-----------------------------------------------------------------------------
(* Arrays *)
NoSize == -1

(* get_arrsize() *)
ArraySize(x) ==
  IF x.ty \in Ranked /\ 0 <= x.v /\ x.v < TwoTo[PtrBits] THEN x.v ELSE NoSize

-----------------------------------------------------------------------------
(***************************************************************************)
(* src/ast.cc, the comment on evaluation: promotions and conversions are   *)
(* those of C.  An expression has the type and the value of C whenever     *)
(* both are defined.  The code gives it none where C does only if it has   *)
(* && or ||, of which both operands are evaluated, and one where C does    *)
(* not only if it shifts.  With operands of mixed types ! and ?: are left  *)
(* out: ! keeps its operand's type and ?: does not convert its branches.   *)
(***************************************************************************)
AsInC(e) ==
  /\ e.x # Undefined /\ e.c # Undefined => Promoted(e.x) = e.c
  /\ e.x = Undefined /\ e.c # Undefined => e.used \cap Logical # {}
  /\ e.x # Undefined /\ e.c = Undefined => e.used \cap Shifts # {}

EvaluatesLikeC ==
  \A i \in DOMAIN parts : parts[i].used \cap {"!", "?"} = {} => AsInC(parts[i])

(***************************************************************************)
(* An array never gets a size that is not the value of its expression: a   *)
(* negative one is refused, and no size wraps around (get_arrsize).        *)
(***************************************************************************)
ArraySizesAreValues ==
  \A i \in DOMAIN parts :
    LET e == parts[i]
        n == ArraySize(Evaluated(e))
    IN  e.used \cap {"!", "?"} = {} /\ n # NoSize /\ e.c # Undefined => n = e.c.v

(***************************************************************************)
(* docs/syntax.md, Enums: the members after one with a value "increment    *)
(* their value by one", whatever type the value was written with, as long  *)
(* as all are in the range of int.                                         *)
(***************************************************************************)
Valued(i) == {j \in 1..i : enums[j].from # NoPart}
Latest(S) == CHOOSE j \in S : \A k \in S : k <= j
Wanted(i) ==
  IF Valued(i) = {} THEN i - 1
  ELSE enums[Latest(Valued(i))].from.c.v + i - Latest(Valued(i))

(* What is written for a value has one in C, and in an integer type. *)
PlainPart(e) == e.used \cap Special = {} /\ Evaluated(e).ty \in Ranked /\ e.c # Undefined

EnumeratorsCount ==
  \A i \in DOMAIN enums :
    (\A j \in 1..i : /\ enums[j].from # NoPart => PlainPart(enums[j].from)
                     /\ InRange("INT", Wanted(j))) =>
       enums[i].x = Value("INT", Wanted(i))

(***************************************************************************)
(* Both: what a declaration makes of a constant is its value.              *)
(***************************************************************************)
ConstantsKeepValues == ArraySizesAreValues /\ EnumeratorsCount
=============================================================================
