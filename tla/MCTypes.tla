------------------------------- MODULE MCTypes ------------------------------
(***************************************************************************)
(* Types for TLC.  A sample grows by one derivation at a time, so that     *)
(* every type up to a depth is a state, with each way to write it in C;    *)
(* or it is a type to convert to, or a record to initialize.  One kind has *)
(* no sample: a program that declares records.                             *)
(***************************************************************************)
EXTENDS Declarator, TypeNames, MCRecords

CONSTANTS MaxDepth,     \* bound: derivations of a type
          MaxMembers,   \* bound: steps that build a record
          ParamLists    \* bound: which of the lists below functions have

VARIABLES kind, type, depth

sampleVars == <<kind, type, depth>>

IntType == Base("int", {})
Params == <<<<>>, <<IntType>>, <<Ptr(IntType, {"const"}), Array(IntType, {}, 0, "nosize")>>,
            <<Ptr(Func(Base("void", {}), <<IntType>>, FALSE, "default"), {})>>,
            <<AddRef(Base("struct s", {}))>>, <<Base("struct opaque", {})>>>>

Bases == {IntType, Base("void", {}), Base("struct s", {"const", "volatile"}),
          Base("struct opaque", {}), Base("F", {})}
ValueBases == {Base(n, {}) : n \in {"int", "char", "bool", "double", "ullong", "void", "struct s", "struct opaque"}}
                \cup {Base(n, {"const"}) : n \in {"int", "char", "void", "struct s"}}
Typedefs == [F |-> Func(IntType, <<IntType>>, FALSE, "default")]

(* Ways to write a declaration: with brackets that are not needed, with a  *)
(* name, after declarations that failed, and where a calling convention    *)
(* stands, if there is one.                                                *)
Declarators == {d \in [parens : BOOLEAN, named : BOOLEAN, stale : BOOLEAN,
                        conv : {"none", "first", "inside", "after"}] :
                  d.stale => d.named /\ d.conv \in {"none", "after"}}
Values == [parens |-> FALSE, named |-> FALSE, stale |-> FALSE, conv |-> "value"]
Layouts == [parens |-> FALSE, named |-> FALSE, stale |-> FALSE, conv |-> "layout"]
Program == [parens |-> FALSE, named |-> FALSE, stale |-> FALSE, conv |-> "program"]

ScalarOf(n) == Scalar(Ffi(n, n))

(* Records: a member more, or a record around what there is *)
Extended(r) ==
  {Record(r.uni, Append(r.fields, Field(FALSE, t))) :
     t \in {ScalarOf(n) : n \in {1, 2, 4}} \cup {ArrayOf(ScalarOf(1), 3, FALSE), ArrayOf(ScalarOf(2), 2, FALSE)}}
  \cup {Record(FALSE, Append(r.fields, Field(FALSE, ArrayOf(ScalarOf(n), 0, TRUE)))) : n \in IF r.uni THEN {} ELSE {1, 4}}
  \cup {Record(uni, <<Field(FALSE, ScalarOf(1)), Field(unnamed, r)>>) : unnamed, uni \in BOOLEAN}
LayoutTypes ==
  LET upto[n \in 0..MaxMembers] ==
        IF n = 0 THEN {Record(u, <<Field(FALSE, ScalarOf(m))>>) : m \in {1, 2}, u \in BOOLEAN}
        ELSE upto[n - 1] \cup UNION {Extended(r) : r \in {t \in upto[n - 1] : ~EndsFlex(t.fields)}}
  IN  upto[MaxMembers]

(* And arrays, also of arrays and of the first of these records *)
ArrayTypes ==
  {ArrayOf(t, n, FALSE) : n \in {2, 3}, t \in {ScalarOf(1), ArrayOf(ScalarOf(1), 3, FALSE),
                                              ArrayOf(ScalarOf(2), 2, FALSE),
                                              Record(FALSE, <<Field(FALSE, ScalarOf(1)), Field(FALSE, ScalarOf(2))>>)}}
  \cup {ArrayOf(ScalarOf(n), 0, TRUE) : n \in {1, 2}}

(* What C allows.  References are beyond it: nothing points or refers to   *)
(* one, and one to an array is not returned (an array of them is accepted, *)
(* and left out here).                                                     *)
RECURSIVE Legal(_)
Legal(t) ==
  IF t.k = "base" THEN TRUE
  ELSE /\ Legal(t.to)
       /\ t.k = "ptr" => ~t.to.ref
       /\ t.k = "array" => t.to.k # "func" /\ ~Flex(t.to)
       /\ t.k = "func" => /\ t.to.k # "array" /\ (t.to.k = "func" => t.to.ref)
                          /\ Passable(t.to) \/ IsVoid(t.to)
                          /\ \A i \in DOMAIN t.params : Passable(t.params[i])

(* Where there are calling conventions, types are made of less else. *)
Derived(t, plain) ==
  {Ptr(t, cv) : cv \in IF plain THEN {{}, {"const"}} ELSE {{}}}
  \cup (IF t.ref THEN {} ELSE
          {AddRef(t)} \cup {Array(t, {}, b[1], b[2]) :
             b \in {<<2, "none">>} \cup (IF plain THEN {<<3, "none">>, <<0, "nosize">>, <<0, "vla">>} ELSE {})})
  \cup (IF plain
          THEN {Func(t, Params[i], FALSE, "default") : i \in ParamLists} \cup {Func(t, <<>>, TRUE, "default")}
          ELSE {Func(t, <<>>, FALSE, conv) : conv \in {"default", "fastcall"}})

(* Types that a cdata, a parameter or a place can have.  An array of       *)
(* references is accepted, but comparing what its elements and another     *)
(* reference refer to does not end if both refer to pointers; functions    *)
(* are not qualified.                                                      *)
RECURSIVE Comparable(_)
Comparable(t) ==
  \/ t.k = "base"
  \/ Comparable(t.to) /\ (t.k = "array" => ~t.to.ref) /\ (t.k = "func" => t.cv = {})
Object(t) == Legal(t) /\ Comparable(t) /\ ~IsVoid(t) /\ (t.ref \/ Passable(t))

ValueTypes ==
  LET upto[n \in 0..(MaxDepth - 1)] ==
        IF n = 0 THEN ValueBases
        ELSE LET shallower == upto[n - 1] IN shallower \cup UNION {Derived(t, TRUE) : t \in shallower}
  IN  {t \in upto[MaxDepth - 1] : Object(t)}

SampleInit ==
  /\ depth = 0
  /\ \/ kind \in Declarators /\ type \in Bases
     \/ kind = Values /\ type \in ValueTypes
     \/ kind = Layouts /\ type \in LayoutTypes \cup ArrayTypes
     \/ kind = Program /\ type = IntType
  /\ RecordInit

Derive ==
  /\ kind \in Declarators /\ depth < MaxDepth
  /\ type' \in Derived(type, kind.conv = "none")
  /\ depth' = depth + 1 /\ UNCHANGED kind

SampleNext ==
  \/ Derive /\ UNCHANGED recordVars
  \/ kind = Program /\ RecordNext /\ UNCHANGED sampleVars

-----------------------------------------------------------------------------
(* C: how a declaration of a type is written, from the inside out.         *)
CvText(cv) == SelectSeq(<<"const", "volatile">>, LAMBDA w : w \in cv)
Mark(conv, style, word) == IF conv = "fastcall" /\ kind.conv = style THEN <<word>> ELSE <<>>

RECURSIVE CText(_, _), CParams(_, _)
CParams(ps, dots) ==
  LET texts == [i \in DOMAIN ps |-> CText(ps[i], <<>>)] \o (IF dots THEN <<<<"...">>>> ELSE <<>>)
  IN  FoldLeft(LAMBDA a, b : IF a = <<>> THEN b ELSE a \o <<",">> \o b, <<>>, texts)

(* A calling convention stands after the parameters of its function, or    *)
(* before the pointer to it; see Text for the other places.                *)
CText(t, inner) ==
  LET pointee == IF t.ref THEN Unref(t) ELSE t.to
      function == pointee.k = "func" /\ ~pointee.ref
      mark(m) == IF function \/ kind.parens \/ (pointee.k = "array" /\ ~pointee.ref)
                 THEN <<"(">> \o (IF function THEN Mark(pointee.conv, "inside", "__fastcall") ELSE <<>>)
                        \o m \o inner \o <<")">>
                 ELSE m \o inner
  IN CASE t.ref -> CText(Unref(t), mark(<<"&">>))
       [] ~t.ref /\ t.k = "ptr" -> CText(t.to, mark(<<"*">> \o CvText(t.cv)))
       [] ~t.ref /\ t.k = "array" ->
            CText(t.to, inner \o (CASE t.flag = "vla" -> <<"[", "?", "]">>
                                    [] t.flag = "nosize" -> <<"[", "]">>
                                    [] OTHER -> <<"[", ToString(t.size), "]">>))
       [] ~t.ref /\ t.k = "func" ->
            CText(t.to, inner \o <<"(">> \o CParams(t.params, t.variadic) \o <<")">>
                          \o Mark(t.conv, "after", "__attribute__((fastcall))"))
       [] OTHER -> CvText(t.cv) \o <<t.name>> \o inner

Name == IF kind.named THEN <<"x">> ELSE <<>>
(* A function may also have it before everything, which is where a         *)
(* declaration with the typedef F has it.                                  *)
RECURSIVE FromTypedef(_)
FromTypedef(t) == IF t.k = "base" THEN t.name = "F" ELSE FromTypedef(t.to)

Text ==
  LET conv == IF FromTypedef(type) THEN "fastcall"
              ELSE IF type.k = "func" /\ ~type.ref THEN type.conv ELSE "default"
  IN  Mark(conv, "first", "__attribute__((fastcall))") \o CText(type, Name)

(* Whether the text says which functions have a calling convention other   *)
(* than the default, in a way that the parser keeps to the function: it    *)
(* passes the one of a function inside brackets on to the level outside    *)
(* them, which is the function it returns a pointer to, and drops the one  *)
(* inside brackets that also hold parameters.  above is the kind of what   *)
(* the type is the element or result of, pointers and references aside.    *)
RECURSIVE ConvSound(_, _), Plain(_)
Plain(t) == (t.ref => ~kind.parens) /\ (t.k = "base" \/ (t.k = "ptr" /\ ~kind.parens /\ Plain(t.to)))
ConvSound(t, above) ==
  \/ t.k = "base"
  \/ /\ t.k = "func" /\ t.conv = "fastcall" =>
          /\ Plain(t.to)
          /\ kind.conv = "first" => t = type /\ ~t.ref
          /\ kind.conv = "inside" => (t # type \/ t.ref) /\ above # "func"
     /\ ConvSound(t.to, IF t.k = "ptr" THEN above ELSE t.k)

Queue == IF kind.stale THEN <<Level(TRUE, FALSE, {}), Level(FALSE, TRUE, {})>> ELSE <<>>
Dims == IF kind.stale THEN <<[size |-> 3, cv |-> {"const"}]>> ELSE <<>>
Mode == IF kind.named THEN "cdef" ELSE "typedef"
Result == ReadDecl(Text, Parser(Queue, Dims, Mode, Typedefs))
Declares == Result.ok /\ Tok(Text, Result.at) = "end"

(***************************************************************************)
(* What C allows is accepted and declares the type that was written,       *)
(* however it is written and whatever earlier declarations that failed     *)
(* left in the queue and the stack, which are as before when it is done;   *)
(* what C forbids is refused.  (parse_type_ptr)                            *)
(***************************************************************************)
DeclaresAsWritten ==
  (kind \in Declarators /\ ~FromTypedef(type) /\ ConvSound(type, "none")) =>
     /\ Declares <=> Legal(type) /\ (kind.named => ~IsVoid(type))
     /\ Declares => /\ Result.type = type /\ Result.name = (IF kind.named THEN "x" ELSE "?")
                    /\ Result.queue = Queue /\ Result.dims = Dims

(***************************************************************************)
(* A declaration that is accepted leaves the types of earlier ones as they *)
(* are, unless a calling convention comes first and it declares, with a    *)
(* typedef, the function itself.  (parse_decl)                             *)
(***************************************************************************)
TypedefsStay ==
  (kind \in Declarators /\ Declares) =>
     Result.typedefs = Typedefs \/ (kind.conv = "first" /\ type.k = "base" /\ Result.type.k = "func")

(***************************************************************************)
(* The text that names a type is read back as that type, for types with at *)
(* most one array or function, without parameters, unless it is a plain    *)
(* array of pointers.  (do_serialize)                                      *)
(***************************************************************************)
RECURSIVE Simple(_), Nameable(_)
Simple(t) == IF t.k = "base" THEN ~IsRecord(t) \/ t.cv = {} ELSE t.k = "ptr" /\ Simple(t.to)
Nameable(t) ==
  \/ Simple(t)
  \/ t.k = "ptr" /\ Nameable(t.to)
  \/ t.k = "array" /\ Simple(t.to)
  \/ t.k = "func" /\ Simple(t.to) /\ t.params = <<>> /\ ~t.variadic /\ t.conv = "default"

NamesReadBack ==
  (/\ kind \in Declarators /\ ~FromTypedef(type)
   /\ Legal(type) /\ Nameable(type) /\ (type.k = "array" /\ ~type.ref => type.to.k = "base" /\ ~type.to.ref)) =>
     LET q == ReadType(Words(Serialize(type)), Parser(<<>>, <<>>, "type", <<>>))
     IN  q.ok /\ q.type = type

=============================================================================
