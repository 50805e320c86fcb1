----------------------------- MODULE CStandard -----------------------------
(***************************************************************************)
(* What C says of comments, integer literals and the grammar of constant   *)
(* expressions, as docs/syntax.md promises it and the comments in          *)
(* src/parser.cc repeat it.  Nothing here is translated from the code:     *)
(* Lexer and ConstExpr are compared with it.                               *)
(***************************************************************************)
EXTENDS ConstExpr, CRules, Lexer

-----------------------------------------------------------------------------
(***************************************************************************)
(* The grammar, by levels: the tree of an expression is found by splitting *)
(* it at the operator that binds least, the last one of its level.         *)
(***************************************************************************)
Levels == << {"||"}, {"&&"}, {"|"}, {"^"}, {"&"}, {"==", "!="}, {"<", ">", "<=", ">="},
             {"<<", ">>"}, {"+", "-"}, {"*", "/", "%"} >>

NoTree == Leaf(Undefined)

Nesting(s, i) ==
  Cardinality({j \in 1..i : s[j].t = "("}) - Cardinality({j \in 1..(i - 1) : s[j].t = ")"})
Balanced(s) ==
  /\ \A i \in DOMAIN s : Nesting(s, i) >= 0 /\ (s[i].t = ")" => Nesting(s, i) > 0)
  /\ s # <<>> => Nesting(s, Len(s)) = IF s[Len(s)].t = ")" THEN 1 ELSE 0

(* Positions outside all brackets. *)
Outer(s) == {i \in DOMAIN s : Nesting(s, i) = 0 /\ s[i].t # "("}
EndsOperand(tok) == tok.t \in OperandTokens \cup {")"}
IsBinary(s, i) == i > 1 /\ EndsOperand(s[i - 1])

(* The colon of the question mark at q. *)
ColonOf(s, q) ==
  LET Colons == {c \in Outer(s) : /\ c > q /\ s[c].t = ":"
                                  /\ Cardinality({j \in Outer(s) : q < j /\ j < c /\ s[j].t = "?"})
                                     = Cardinality({j \in Outer(s) : q < j /\ j < c /\ s[j].t = ":"})}
  IN  IF Colons = {} THEN 0 ELSE Min(Colons)

RECURSIVE CTree(_)
CTree(s) ==
  LET questions == {i \in Outer(s) : s[i].t = "?"}
      ops(l) == {i \in Outer(s) : s[i].t \in Levels[l] /\ IsBinary(s, i)}
      used == {l \in DOMAIN Levels : ops(l) # {}}
      join(tree, parts) == IF NoTree \in parts THEN NoTree ELSE tree
      part(a, b) == CTree(SubSeq(s, a, b))
  IN  IF s = <<>> THEN NoTree
      ELSE IF questions # {} THEN
        LET q == Min(questions) c == ColonOf(s, q) IN
        IF c = 0 THEN NoTree
        ELSE LET x == part(1, q - 1) y == part(q + 1, c - 1) z == part(c + 1, Len(s))
             IN  join(TernExpr(x, y, z), {x, y, z})
      ELSE IF used # {} THEN
        LET i == Max(ops(Min(used)))
            x == part(1, i - 1) y == part(i + 1, Len(s))
        IN  join(BinExpr(s[i].t, x, y), {x, y})
      ELSE IF s[1].t \in UnaryOps THEN
        LET x == part(2, Len(s)) IN join(UnExpr(s[1].t, x), {x})
      ELSE IF Len(s) = 1 /\ s[1].t \in OperandTokens THEN Leaf(OperandOf(s[1]))
      ELSE IF s[1].t = "(" /\ s[Len(s)].t = ")" /\ Outer(s) = {} THEN part(2, Len(s) - 1)
      ELSE NoTree

CExpression(s) == IF Balanced(s) THEN CTree(s) ELSE NoTree

-----------------------------------------------------------------------------
(***************************************************************************)
(* Text                                                                    *)
(***************************************************************************)
RECURSIVE CStripped(_)
(* Every comment replaced by a space; none begins inside a string.         *)
CStripped(s) ==
  LET from(i) == CStripped(SubSeq(s, i, Len(s)))
      two == <<Char(s, 1), Char(s, 2)>>
      closing == {j \in 3..(Len(s) - 1) : s[j] = "*" /\ s[j + 1] = "/"}
      endLine == {j \in DOMAIN s : s[j] \in Newline}
      endQuote == {j \in 2..Len(s) : /\ s[j] = "\""
                                     /\ Cardinality({k \in 2..(j - 1) :
                                          \A m \in k..(j - 1) : s[m] = "\\"}) % 2 = 0}
  IN  CASE two = <<"/", "*">> -> IF closing = {} THEN s ELSE <<" ">> \o from(Min(closing) + 2)
        [] two = <<"/", "/">> -> IF endLine = {} THEN <<" ">> ELSE <<" ">> \o from(Min(endLine))
        [] Char(s, 1) = "\"" -> IF endQuote = {} THEN s
                                ELSE SubSeq(s, 1, Min(endQuote)) \o from(Min(endQuote) + 1)
        [] s = <<>> -> s
        [] OTHER -> <<s[1]>> \o from(2)

USuffixes == {<<>>, <<"u">>}
LSuffixes == {<<>>, <<"l">>, <<"l", "l">>}

(* The parts of a literal: base, digits, suffix. *)
CParts(s) ==
  {p \in {[base |-> b, skip |-> k, len |-> n, us |-> us, ls |-> ls] :
            b \in {2, 8, 10, 16}, k \in {0, 2}, n \in 1..Len(s),
            us \in USuffixes, ls \in LSuffixes} :
     /\ p.skip + p.len <= Len(s)
     /\ SubSeq(s, 1, p.skip) = CASE p.base = 16 -> <<"0", "x">> [] p.base = 2 -> <<"0", "b">>
                                 [] OTHER -> <<>>
     /\ (p.skip = 2) = (p.base \in {2, 16})
     /\ SubSeq(s, p.skip + p.len + 1, Len(s)) \in {p.us \o p.ls, p.ls \o p.us}
     /\ \A i \in (p.skip + 1)..(p.skip + p.len) : s[i] \in Hex /\ DigitValue(s[i]) < p.base
     /\ p.base \in {8, 10} => (p.base = 8) = (s[1] = "0")}

CNumber(s, p) ==
  MapThenSumSet(LAMBDA i : DigitValue(s[p.skip + i]) * p.base ^ (p.len - i), 1..p.len)

(* The types of C11 6.4.4.1, in order. *)
CLiteralTypes(p) ==
  SelectSeq(Order, LAMBDA ty : /\ Rank(ty) >= Len(p.ls)
                               /\ p.us # <<>> => ~IsSigned(ty)
                               /\ p.us = <<>> /\ p.base = 10 => IsSigned(ty))

(* A literal of C, or Undefined. *)
CLiteral(s) ==
  IF CParts(s) = {} THEN Undefined
  ELSE LET p == CHOOSE p \in CParts(s) : TRUE
           types == SelectSeq(CLiteralTypes(p), LAMBDA ty : CNumber(s, p) <= Highest(ty))
       IN  IF types = <<>> THEN Undefined ELSE Value(types[1], CNumber(s, p))
=============================================================================
