------------------------------- MODULE MCCdef -------------------------------
(***************************************************************************)
(* The text of a cdef and what its numbers become, for TLC.  A sample of   *)
(* input is read piece by piece, so that every sample up to a length is a  *)
(* state; its kind says which part of the code reads it, and every         *)
(* property is about samples of one kind.  Two kinds have no input: the    *)
(* constants of a declaration, and a program that computes.                *)
(***************************************************************************)
EXTENDS CStandard, MCConstants, MCOperators

CONSTANTS MaxText, MaxTokens   \* bounds: the lengths of samples

VARIABLES kind, input

sampleVars == <<kind, input>>

Text == [comments |-> {"/", "*", "a", "\n", "\""},
         numbers  |-> {"0", "1", "8", "a", "x", "b", "u", "l"},
         marks    |-> {"=", "<", ">", "-", ".", "(", ")", "&"},
         attribs  |-> {"(", ")", "a", " "},
         strings  |-> {"\"", "\\", "'", "0", "7", "x", "a", "80"}]
TextKinds == DOMAIN Text

Op(t) == [t |-> t, ty |-> "none", v |-> 0]
Num(ty, n) == [t |-> "INTEGER", ty |-> ty, v |-> n]

Tokens2 ==
  [operators |-> {Num("INT", 1), Num("INT", 2)} \cup {Op(t) : t \in BinaryOps},
   nesting   |-> {Num("INT", 1), Num("INT", 2)}
                   \cup {Op(t) : t \in {"+", "*", "<", "?", ":", "(", ")", "~", "!"}},
   constants |-> {Num("INT", 1), Num("UINT", 2), [t |-> "CHAR", ty |-> "CHAR", v |-> -1],
                  [t |-> "BOOL", ty |-> "BOOL", v |-> 1], [t |-> "sizeof", ty |-> "none", v |-> 4],
                  [t |-> "NAME", ty |-> "none", v |-> -2], [t |-> "$", ty |-> "none", v |-> -1],
                  [t |-> "$", ty |-> "none", v |-> 3]}
                   \cup {Op(t) : t \in {"-", "+", "<<", ">>", "<", "~"}}]
TokenKinds == DOMAIN Tokens2

Init ==
  /\ kind \in TextKinds \cup TokenKinds \cup {"declaration", "program"} /\ input = <<>>
  /\ ConstInit /\ CallInit
  /\ kind # "program" => held = LuaOther

HasToken(s, ts) == \E i \in DOMAIN s : s[i].t \in ts

(* An expression alternates between operands and what follows them. *)
Follows(tok) ==
  (input # <<>> /\ EndsOperand(input[Len(input)]))
     = (tok.t \in BinaryOps \cup {"?", ":", ")"} /\
        ~(tok.t \in UnaryOps /\ (input = <<>> \/ ~EndsOperand(input[Len(input)]))))

ReadChars ==
  /\ kind \in TextKinds /\ Len(input) < IF kind = "marks" THEN MaxText - 1 ELSE MaxText
  /\ \E c \in Text[kind] : input' = Append(input, c)

ReadToken ==
  /\ kind \in TokenKinds
  /\ Len(input) < IF kind = "nesting" THEN MaxTokens + 2 ELSE MaxTokens
  /\ \E tok \in Tokens2[kind] :
       /\ Follows(tok)
       /\ kind = "nesting" /\ tok.t = "INTEGER" => tok.v = IF HasToken(input, {"INTEGER"}) THEN 2 ELSE 1
       /\ input' = Append(input, tok)

Next ==
  \/ (ReadChars \/ ReadToken) /\ UNCHANGED <<kind, constVars, callVars>>
  \/ kind = "declaration" /\ ConstNext /\ UNCHANGED <<sampleVars, callVars>>
  \/ kind = "program" /\ CallNext /\ UNCHANGED <<sampleVars, constVars>>

Spec == Init /\ [][Next]_<<sampleVars, constVars, callVars>>

-----------------------------------------------------------------------------
(* A sample, as an expression, where there is one. *)
Read == ParseExpr(input, 1)
IsExpression == kind \in TokenKinds /\ ~Failed(Read) /\ Read.next = Len(input) + 1

PrefixOps(s) == {i \in DOMAIN s : s[i].t \in UnaryOps /\ ~IsBinary(s, i)}

(***************************************************************************)
(* The parser accepts what the grammar of C accepts, and builds the same   *)
(* tree: levels, associativity, brackets, nested conditionals.  Expressions*)
(* with both a prefix operator and * / % are left out: the operand of a    *)
(* unary operator is read with the precedence of multiplication, so that   *)
(* ~1*2 is ~(1*2) (parse_cexpr_bin).                                       *)
(***************************************************************************)
ParsesLikeC ==
  (kind \in TokenKinds /\ (PrefixOps(input) = {} \/ ~HasToken(input, {"*", "/", "%"}))) =>
     LET tree == CExpression(input)
     IN  /\ IsExpression <=> tree # NoTree
         /\ IsExpression => Read.e = tree

(***************************************************************************)
(* A comment is a space, and begins and ends where it does in C, as long   *)
(* as no two stars meet (lex).                                             *)
(***************************************************************************)
Meet(s, c, n) == \E i \in 1..(Len(s) - n + 1) : \A j \in i..(i + n - 1) : s[j] = c

CommentsLikeC ==
  (kind = "comments" /\ ~Meet(input, "*", 2) /\ ~Meet(input, "\"", 3)) =>
     Tokens(input, FALSE) = Tokens(CStripped(input), FALSE)

(***************************************************************************)
(* docs/syntax.md: integer literals have the value and the type of C, in   *)
(* every base and with every suffix, as long as an unsuffixed or l literal *)
(* fits the first type it may have, a zero has no suffix and u comes first *)
(* (read_integer, get_int_type).                                           *)
(***************************************************************************)
LiteralsLikeC ==
  (kind = "numbers" /\ CLiteral(input) # Undefined) =>
     LET x == CLiteral(input)
         p == CHOOSE p \in CParts(input) : TRUE
         plain == /\ ~(p.base = 8 /\ p.len = 1 /\ p.us \o p.ls # <<>>)
                  /\ p.us # <<>> /\ p.ls # <<>> => input[Len(input)] # "u"
                  /\ p.us = <<>> => x.ty = CLiteralTypes(p)[1]
     IN  plain => Tokens(input, FALSE) = <<Lexed("integer", x.ty, x.v, <<>>, 0).tok, EndOfInput(0).tok>>
=============================================================================
