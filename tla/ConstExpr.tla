----------------------------- MODULE ConstExpr -----------------------------
(***************************************************************************)
(* Constant expressions: the precedence parser (src/parser.cc, parse_cexpr *)
(* and below).  What the tree is worth is in Constants.                    *)
(*                                                                         *)
(* A token is a record with the field t: the operator or bracket it is, or *)
(* "INTEGER", "CHAR", "NAME", "$", "BOOL", "sizeof" with what the lexer,   *)
(* the declaration, the parameter or the type gives it in ty and v.        *)
(***************************************************************************)
EXTENDS Evaluation

Leaf(x)             == [k |-> "leaf", x |-> x]
UnExpr(op, e)       == [k |-> "unary", op |-> op, e |-> e]
BinExpr(op, l, r)   == [k |-> "binary", op |-> op, l |-> l, r |-> r]
TernExpr(c, t, f)   == [k |-> "ternary", c |-> c, t |-> t, f |-> f]

-----------------------------------------------------------------------------
(***************************************************************************)
(* Parsing.  A parse yields the tree and the token after it; no such token *)
(* means a syntax error.                                                   *)
(***************************************************************************)

(* mutant: | binds tighter than ^ *)
BinPrecSwapped(t) ==
  CASE t \in {"+", "-"}            -> 10
    [] t \in {"*", "/", "%"}       -> 11
    [] t \in {"==", "!="}          -> 7
    [] t \in {">", "<", ">=", "<="} -> 8
    [] t = "&&" -> 3 [] t = "||" -> 2
    [] t = "&"  -> 6 [] t = "^"  -> 4 [] t = "|" -> 5
    [] t \in {"<<", ">>"}          -> 9
    [] t = "?"                     -> 1
    [] OTHER                       -> -1

(* binprec, ifprec; -1 where there is no operator *)
BinPrec(t) ==
  CASE t \in {"+", "-"}            -> 10
    [] t \in {"*", "/", "%"}       -> 11
    [] t \in {"==", "!="}          -> 7
    [] t \in {">", "<", ">=", "<="} -> 8
    [] t = "&&" -> 3 [] t = "||" -> 2
    [] t = "&"  -> 6 [] t = "^"  -> 5 [] t = "|" -> 4
    [] t \in {"<<", ">>"}          -> 9
    [] t = "?"                     -> 1
    [] OTHER                       -> -1

UnPrec == 11
IfPrec == 1

(* The type sizeof and alignof have. *)
SizeType == IF LLongBits > PtrBits THEN "ULONG" ELSE "ULLONG"

(* The operand that a token is; a parameter has the type its sign asks for *)
OperandOf(tok) ==
  CASE tok.t \in {"INTEGER", "CHAR"} -> Value(tok.ty, tok.v)
    [] tok.t = "NAME"   -> Value("INT", tok.v)
    [] tok.t = "$"      -> Cast(tok, IF tok.v < 0 THEN "LLONG" ELSE "ULLONG")
    [] tok.t = "BOOL"   -> Value("BOOL", tok.v)
    [] tok.t = "sizeof" -> Value(SizeType, tok.v)

OperandTokens == {"INTEGER", "CHAR", "NAME", "$", "BOOL", "sizeof"}

At(toks, i) == IF i \in DOMAIN toks THEN toks[i].t ELSE "eof"

SyntaxError == [next |-> 0, e |-> Leaf(Undefined)]
Parsed(e, i) == [next |-> i, e |-> e]
Failed(p) == p.next = 0

RECURSIVE ParseSimple(_, _), ParseBin(_, _, _), ParseRest(_, _, _)

(* parse_cexpr() *)
ParseExpr(toks, i) == ParseBin(toks, i, 1)

(* parse_cexpr_simple() *)
ParseSimple(toks, i) ==
  LET t == At(toks, i) IN
  CASE t \in UnaryOps ->
         LET p == ParseBin(toks, i + 1, UnPrec)
         IN  IF Failed(p) THEN SyntaxError ELSE Parsed(UnExpr(t, p.e), p.next)
    [] t \in OperandTokens -> Parsed(Leaf(OperandOf(toks[i])), i + 1)
    [] t = "(" ->
         LET p == ParseExpr(toks, i + 1)
         IN  IF Failed(p) \/ At(toks, p.next) # ")" THEN SyntaxError
             ELSE Parsed(p.e, p.next + 1)
    [] OTHER -> SyntaxError

(* parse_cexpr_bin() *)
ParseBin(toks, i, minPrec) ==
  LET p == ParseSimple(toks, i)
  IN  IF Failed(p) THEN SyntaxError ELSE ParseRest(toks, p, minPrec)

(* The loop of parse_cexpr_bin(): what follows the left operand. *)
ParseRest(toks, lhs, minPrec) ==
  LET t == At(toks, lhs.next)
      prec == BinPrec(t)
  IN  IF prec < minPrec THEN lhs
      ELSE IF t = "?" THEN
        LET p == ParseExpr(toks, lhs.next + 1)
            q == IF Failed(p) \/ At(toks, p.next) # ":" THEN SyntaxError
                 ELSE ParseBin(toks, p.next + 1, IfPrec)
        IN  IF Failed(q) THEN SyntaxError
            ELSE ParseRest(toks, Parsed(TernExpr(lhs.e, p.e, q.e), q.next), minPrec)
      ELSE
        LET p == ParseBin(toks, lhs.next + 1, prec + 1)
        IN  IF Failed(p) THEN SyntaxError
            ELSE ParseRest(toks, Parsed(BinExpr(t, lhs.e, p.e), p.next), minPrec)
=============================================================================
