------------------------------- MODULE Lexer -------------------------------
(***************************************************************************)
(* The lexer (src/parser.cc, lex_state): from the characters of a          *)
(* declaration string to tokens.                                           *)
(*                                                                         *)
(* A text is a sequence of characters; a letter stands for both its cases, *)
(* which the lexer does not distinguish outside names.  A byte that is not *)
(* ASCII is written as its hexadecimal number.  A NUL in the text, which   *)
(* the lexer takes for the end, is left out.                               *)
(***************************************************************************)
EXTENDS CArith, SequencesExt

CONSTANT Keyword   \* the reserved words, as sequences of characters

Octal   == {"0", "1", "2", "3", "4", "5", "6", "7"}
Digit   == Octal \cup {"8", "9"}
Hex     == Digit \cup {"a", "b", "c", "d", "e", "f"}
Letter  == {"a", "b", "c", "d", "e", "f", "g", "h", "i", "j", "k", "l", "m", "n", "o", "p",
            "q", "r", "s", "t", "u", "v", "w", "x", "y", "z"}
Newline == {"\n", "\r"}
Space   == {" ", "\t", "\f"} \cup Newline
Word    == Letter \cup Digit \cup {"_"}
(* Bytes above 127: the byte order mark, and the rest as one. *)
HighByte == {"EF", "BB", "BF", "80"}

DigitValue(c) ==
  CASE c \in Digit -> (CHOOSE n \in 0..9 : ToString(n) = c)
    [] c = "a" -> 10 [] c = "b" -> 11 [] c = "c" -> 12
    [] c = "d" -> 13 [] c = "e" -> 14 [] c = "f" -> 15

End == "end"
(* current, when i characters less one were read *)
Char(s, i) == IF i \in DOMAIN s THEN s[i] ELSE End

(* The first position from i on that is not in S. *)
Past(s, i, S) ==
  CHOOSE j \in i..(Len(s) + 1) : Char(s, j) \notin S /\ \A k \in i..(j - 1) : s[k] \in S

(* A token and the position after it. *)
Lexed(kind, ty, v, cs, i) == [tok |-> [kind |-> kind, ty |-> ty, v |-> v, cs |-> cs], next |-> i]
Plain(kind, cs, i) == Lexed(kind, "none", 0, cs, i)
LexError == Plain("error", <<>>, 0)
EndOfInput(i) == Plain("end", <<>>, i)

-----------------------------------------------------------------------------
(***************************************************************************)
(* Spaces and comments                                                     *)
(***************************************************************************)

RECURSIVE BlockEnd(_, _)

(* mutant: the slash that ends a comment is not read *)
BlockEndShort(s, i) ==
  IF i > Len(s) THEN 0
  ELSE IF s[i] # "*" THEN BlockEnd(s, i + 1)
  ELSE IF Char(s, i + 1) = "/" THEN i + 1 ELSE BlockEnd(s, i + 2)

(* Past the end of a comment whose text starts at i, 0 if it has none.     *)
(* After a star, the next character is read and skipped.                   *)
BlockEnd(s, i) ==
  IF i > Len(s) THEN 0
  ELSE IF s[i] # "*" THEN BlockEnd(s, i + 1)
  ELSE IF Char(s, i + 1) = "/" THEN i + 2 ELSE BlockEnd(s, i + 2)

RECURSIVE SkipSpace(_, _)
SkipComment(s, i) == IF i = 0 THEN 0 ELSE SkipSpace(s, i)

(* The position of the next token, 0 in an unterminated comment. *)
SkipSpace(s, i) ==
  IF Char(s, i) \in Space THEN SkipSpace(s, i + 1)
  ELSE IF Char(s, i) = "/" /\ Char(s, i + 1) = "*" THEN SkipComment(s, BlockEnd(s, i + 2))
  ELSE IF Char(s, i) = "/" /\ Char(s, i + 1) = "/" THEN
    SkipSpace(s, CHOOSE j \in (i + 2)..(Len(s) + 1) :
                   /\ Char(s, j) \in Newline \cup {End}
                   /\ \A k \in (i + 2)..(j - 1) : s[k] \notin Newline)
  ELSE i

-----------------------------------------------------------------------------
(***************************************************************************)
(* Integers                                                                *)
(***************************************************************************)

(* check_int_fits(): the bound of a signed type is all ones, converted to  *)
(* unsigned long long                                                      *)
Fits(ty, n) == IsSigned(ty) \/ n <= Highest(ty)

(* The l's at i, at most two. *)
Longs(s, i) == CASE Char(s, i) # "l" -> 0 [] Char(s, i + 1) # "l" -> 1 [] OTHER -> 2

(* The suffix at i; a u that comes last counts but is not read. *)
Suffix(s, i) ==
  IF Char(s, i) = "u"
  THEN [unsigned |-> TRUE, longs |-> Longs(s, i + 1), next |-> i + 1 + Longs(s, i + 1)]
  ELSE LET j == i + Longs(s, i)
       IN  [unsigned |-> j > i /\ Char(s, j) = "u", longs |-> j - i, next |-> j]

(* mutant: a decimal literal may be unsigned without saying so *)
LiteralTypesAnySign(suffix, decimal) ==
  SelectSeq(CASE suffix.longs = 0 -> <<"INT", "UINT", "LONG", "ULONG", "LLONG", "ULLONG">>
              [] suffix.longs = 1 -> <<"LONG", "ULONG">>
              [] suffix.longs = 2 -> <<"LLONG", "ULLONG">>,
            LAMBDA ty : TRUE)

(* The types a literal may have, in the order they are tried. *)
LiteralTypes(suffix, decimal) ==
  SelectSeq(CASE suffix.longs = 0 -> <<"INT", "UINT", "LONG", "ULONG", "LLONG", "ULLONG">>
              [] suffix.longs = 1 -> <<"LONG", "ULONG">>
              [] suffix.longs = 2 -> <<"LLONG", "ULLONG">>,
            LAMBDA ty : IF IsSigned(ty) THEN ~suffix.unsigned ELSE suffix.unsigned \/ ~decimal)

(* get_int_type(): the first type that the value fits, of those that the   *)
(* suffix leaves                                                           *)
Typed(n, types, next) ==
  IF types = <<>> THEN LexError
  ELSE Lexed("integer", types[1], Wrapped(types[1], n), <<>>, next)

(* read_int_core(), in unsigned long long *)
ReadNumber(digits, base, suffix) ==
  LET n == FoldLeft(LAMBDA acc, c : (acc * base + DigitValue(c)) % TwoTo[LLongBits], 0, digits)
  IN  Typed(n, SelectSeq(LiteralTypes(suffix, base = 10), LAMBDA ty : Fits(ty, n)), suffix.next)

ReadDigits(s, i, base, digits) ==
  LET j == Past(s, i, digits) IN ReadNumber(SubSeq(s, i, j - 1), base, Suffix(s, j))

(* read_integer() *)
ReadInteger(s, i) ==
  LET c == Char(s, i + 1) IN
  CASE s[i] # "0" -> ReadDigits(s, i, 10, Digit)
    [] s[i] = "0" /\ c \in Octal -> ReadDigits(s, i + 1, 8, Octal)
    [] s[i] = "0" /\ c = "x" -> IF Char(s, i + 2) \notin Hex THEN LexError
                                ELSE ReadDigits(s, i + 2, 16, Hex)
    [] s[i] = "0" /\ c = "b" -> IF Char(s, i + 2) \notin {"0", "1"} THEN LexError
                                ELSE ReadDigits(s, i + 2, 2, {"0", "1"})
    [] OTHER -> Lexed("integer", "INT", 0, <<>>, i + 1)

-----------------------------------------------------------------------------
(***************************************************************************)
(* Characters and strings: a character in a literal is its name, or the    *)
(* number an escape gives it.                                              *)
(***************************************************************************)
Named(c)  == [c |-> c, n |-> -1]
Coded(n)  == [c |-> "", n |-> n]

NamedEscapes == {"e", "a", "b", "f", "n", "r", "t", "v"}

(* read_escape(): the character after the backslash at i, and what follows *)
Escape(s, i) ==
  LET c == Char(s, i + 1)
      j == Past(s, i + 1, Octal)
      k == IF j > i + 4 THEN i + 4 ELSE j
      octal == FoldLeft(LAMBDA acc, d : acc * 8 + DigitValue(d), 0, SubSeq(s, i + 1, k - 1))
  IN  CASE c \in {"'", "\"", "\\", "?"} -> [ch |-> Named(c), next |-> i + 2]
        [] c \in NamedEscapes -> [ch |-> [c |-> c, n |-> 0], next |-> i + 2]
        [] c = "x" /\ {Char(s, i + 2), Char(s, i + 3)} \subseteq Hex ->
             [ch |-> Coded(16 * DigitValue(s[i + 2]) + DigitValue(s[i + 3])), next |-> i + 4]
        [] c \in Octal /\ octal <= 255 -> [ch |-> Coded(octal), next |-> k]
        [] OTHER -> [ch |-> Named(""), next |-> 0]

(* One character of a literal. *)
LiteralChar(s, i) ==
  IF Char(s, i) = "\\" THEN Escape(s, i) ELSE [ch |-> Named(s[i]), next |-> i + 1]

(* A character literal that ends after the character read. *)
CloseChar(s, read) ==
  IF read.next = 0 \/ Char(s, read.next) # "'" THEN LexError
  ELSE Plain("char", <<read.ch>>, read.next + 1)

(* A character literal whose quote is at i. *)
ReadChar(s, i) ==
  IF Char(s, i + 1) = End THEN LexError ELSE CloseChar(s, LiteralChar(s, i + 1))

RECURSIVE ReadString(_, _, _)
(* A string literal after one more character. *)
ExtendString(s, c, read) ==
  IF c.next = 0 THEN LexError ELSE ReadString(s, c.next, Append(read, c.ch))

(* A string literal, at i, with what was read of it; a quote followed by a *)
(* quote continues it.                                                     *)
ReadString(s, i, read) ==
  LET j == IF Char(s, i) = "\"" /\ Char(s, i + 1) = "\"" THEN i + 2 ELSE i
  IN  IF Char(s, i) = "\"" /\ j = i THEN Plain("string", read, i + 1)
      ELSE IF Char(s, j) = End THEN LexError
      ELSE ExtendString(s, LiteralChar(s, j), read)

-----------------------------------------------------------------------------
TwoChars == {<<"=", "=">>, <<"!", "=">>, <<">", ">">>, <<">", "=">>, <<"<", "<">>, <<"<", "=">>,
             <<"&", "&">>, <<"|", "|">>, <<"-", ">">>}

(* (( and )) are tokens after __attribute__ only (PARSE_MODE_ATTRIB). *)
Punctuation(s, i, attrib) ==
  LET two == <<Char(s, i), Char(s, i + 1)>>
  IN  IF two \in TwoChars \/ (attrib /\ two \in {<<"(", "(">>, <<")", ")">>})
        THEN Plain("punctuation", two, i + 2)
      ELSE IF two = <<".", ".">> /\ Char(s, i + 2) = "."
        THEN Plain("punctuation", <<".", ".", ".">>, i + 3)
      ELSE Plain("punctuation", <<s[i]>>, i + 1)

ReadWord(s, i, j) ==
  LET cs == SubSeq(s, i, j - 1)
  IN  Plain(IF cs \in Keyword THEN "keyword" ELSE "name", cs, j)

(* lex(), after spaces: the token at i, which is 0 in an unterminated      *)
(* comment.  A byte that is negative as a char is a negative token, which  *)
(* parse_decls() takes for the end.                                        *)
LexAt(s, i, attrib) ==
  LET c == Char(s, i)
  IN  CASE i = 0 -> LexError
        [] c = End -> EndOfInput(i)
        [] c \in Digit -> ReadInteger(s, i)
        [] c \in Letter \cup {"_"} -> ReadWord(s, i, Past(s, i, Word))
        [] c = "'" -> ReadChar(s, i)
        [] c = "\"" -> ReadString(s, i + 1, <<>>)
        [] c \in HighByte /\ CharSigned -> Plain("end", <<c>>, i + 1)
        [] OTHER -> Punctuation(s, i, attrib)

Lex(s, i, attrib) == LexAt(s, SkipSpace(s, i), attrib)

(* lex_state(): where reading starts; a byte order mark is skipped where   *)
(* its bytes are not negative                                              *)
Start(s) ==
  IF CharSigned \/ Char(s, 1) # "EF" THEN 1
  ELSE IF Char(s, 2) # "BB" THEN 2
  ELSE IF Char(s, 3) # "BF" THEN 3 ELSE 4

RECURSIVE TokensFrom(_, _, _)
TokensAfter(s, l, attrib) ==
  IF l.tok.kind \in {"end", "error"} THEN <<l.tok>>
  ELSE <<l.tok>> \o TokensFrom(s, l.next, attrib)

TokensFrom(s, i, attrib) == TokensAfter(s, Lex(s, i, attrib), attrib)

(* All tokens up to the end or the first error, which comes last. *)
Tokens(s, attrib) == TokensFrom(s, Start(s), attrib)

Accepted(s, attrib) == Last(Tokens(s, attrib)) = EndOfInput(1).tok
=============================================================================
