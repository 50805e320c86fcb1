------------------------------ MODULE TypeNames ------------------------------
(***************************************************************************)
(* The text that names a type (src/ast.cc, do_serialize).  A text is a     *)
(* sequence of pieces, each a word or a single character; only characters  *)
(* are ever taken back from its end.  A type writes what it is made of and *)
(* leaves the rest to a continuation, here the list of types whose part is *)
(* still to be written, the innermost first.                               *)
(***************************************************************************)
EXTENDS CTypes, SequencesExt

Marks == {"&", "*", "[", "]", "(", ")"}
CvWords == <<"const", "volatile">>

Spaced(out, marks) == IF Last(out) \in marks THEN out ELSE Append(out, " ")
Shorten(out, n) == SubSeq(out, 1, Len(out) - n)

(* add_cv(), after a type *)
WithCv(out, cv) ==
  FoldLeft(LAMBDA o, w : IF w \in cv THEN o \o <<" ", w>> ELSE o, out, CvWords)
(* add_cv(), before it *)
CvPrefix(out, cv) ==
  FoldLeft(LAMBDA o, w : IF w \in cv THEN o \o <<w, " ">> ELSE o, out, CvWords)

(* mutant: a size given later is not marked *)
BoundUnmarked(t) == IF t.flag # "none" THEN <<"[", "]">> ELSE <<"[", ToString(t.size), "]">>

Bound(t) == CASE t.flag = "vla" -> <<"[", "?", "]">>
              [] t.flag = "nosize" -> <<"[", "]">>
              [] OTHER -> <<"[", ToString(t.size), "]">>

(* strbuf::remove() does not change the length of the text. *)
Removed(out, i) == Append(RemoveAt(out, i), "NUL")

RECURSIVE Continue(_, _)
Continue(out, conts) ==
  IF conts = <<>> THEN out ELSE
  LET t == Head(conts)
      rest == Tail(conts)
      open == Append(Spaced(out, Marks), "(")
      i == WithCv(Continue(open, rest), t.cv)
      before == Spaced(out, Marks \ {"["})
      f == Continue(Append(before, "("), rest)
  IN CASE t.ref       -> Continue(Append(Spaced(out, Marks), "&"), rest)
       [] ~t.ref /\ t.k = "ptr" -> Continue(WithCv(Append(Spaced(out, Marks), "*"), t.cv), rest)
       [] ~t.ref /\ t.k = "func" ->
            IF rest = <<>> \/ f = Append(before, "(") THEN before ELSE Append(f, ")")
       [] ~t.ref /\ t.k = "array" ->
            LET closed == IF i = open THEN Shorten(open, 2)
                          ELSE IF Last(i) # "]" THEN Append(i, ")")
                          ELSE Removed(i, Len(open))
            IN closed \o Bound(t)

RECURSIVE Write(_, _, _)
Write(out, t, conts) ==
  IF t.ref THEN Write(out, Unref(t), <<t>> \o conts)
  ELSE IF t.k \in {"ptr", "array"} THEN Write(out, t.to, <<t>> \o conts)
  ELSE IF t.k = "func" THEN Write(out, t.to, <<t>> \o conts) \o <<"(", ")">>
  ELSE Continue(Append(IF IsRecord(t) THEN out ELSE CvPrefix(out, t.cv), t.name), conts)

Serialize(t) == Write(<<>>, t, <<>>)
(* The words of it, as the lexer sees them. *)
Words(out) == SelectSeq(out, LAMBDA w : w # " ")
=============================================================================
