------------------------------- MODULE MCValues ------------------------------
(***************************************************************************)
(* Values for TLC: every type of a sample is converted to and from, and    *)
(* every record of one is initialized.                                     *)
(***************************************************************************)
EXTENDS MCTypes, Conversion, Initializer

-----------------------------------------------------------------------------
(* Values to convert to a type: of each kind, and of each type that is     *)
(* like it or nearly so                                                    *)
Similar(t) == {t, Ptr(t, {}), AddRef(t), Unref(t), Array(t, {}, 2, "none"), AddCv(t, {"const"})}
               \cup (IF t.k = "base" THEN {} ELSE {t.to, [t EXCEPT !.to = Ptr(@, {})], [t EXCEPT !.to = AddCv(@, {"const"})]})
Sources(t) == {s \in Similar(t) \cup {Unref(b) : b \in ValueBases} : Object(s)}
Inputs(t) == {Cdata(s) : s \in Sources(t)} \cup {Lua(kd) : kd \in LuaKinds}

(* These types, what they are made of and what is made of them *)
MadeFrom(t, what) ==
  CASE what = "unref" -> Unref(t)
    [] what = "to" -> IF t.k = "base" THEN t ELSE t.to
    [] what = "decayed" -> CASE t.k = "func" -> Ptr(Unref(t), {}) [] t.k = "array" -> AsPtr(t) [] OTHER -> t
    [] what = "ref" -> IF t.k = "array" \/ IsRecord(t) THEN AddRef(t) ELSE t
    [] OTHER -> t
ParamTypes == UNION {{Params[i][j] : j \in DOMAIN Params[i]} : i \in ParamLists}
Converted ==
  LET upto[n \in 0..(MaxDepth + 3)] ==
        IF n = 0 THEN UNION {Sources(t) : t \in ValueTypes} \cup ValueTypes \cup ParamTypes \cup {ConstChar}
        ELSE {MadeFrom(p[1], p[2]) : p \in upto[n - 1] \X {"self", "unref", "to", "decayed", "ref"}}
  IN  upto[MaxDepth + 3]
MCConverted == Converted
RECURSIVE LayersOf(_)
LayersOf(t) == IF t.k = "base" THEN 0 ELSE 1 + Max({LayersOf(s) : s \in MadeOf(t)})
MCNesting == [t \in Converted |-> LayersOf(t)]

-----------------------------------------------------------------------------
(* Initializers of a type: a number, a string for bytes, or a table with   *)
(* some of its elements, or with one too many.  Numbers tell apart where   *)
(* they came from.                                                         *)
Numbers(n, from) == [k \in 1..n |-> Num(from + k)]
InitsOf(t, from) ==
  {Num(from)} \cup
  (CASE t.k = "scalar" -> {Table(<<>>, <<>>)}
     [] t.k = "array"  -> {Table(Numbers(n, from), <<>>) : n \in 0..(t.n + 2)}
                            \cup {Str(from, len) : len \in IF IsBytes(t) THEN {1, 3} ELSE {1}}
     [] t.k = "record" -> {Table(Numbers(n, from), <<>>) : n \in 0..2})

(* Every list for some of the members, or one too many, and every table of *)
(* two of them by name.                                                    *)
Lists(members) ==
  LET choices(k) == IF k <= Len(members) THEN InitsOf(members[k].type, 10 * k) ELSE {Num(10 * k)}
      longer(lists, k) == {Append(l, x) : l \in {m \in lists : Len(m) = k - 1}, x \in choices(k)}
  IN  FoldLeft(LAMBDA lists, k : lists \cup longer(lists, k), {<<>>}, [k \in 1..(Len(members) + 1) |-> k])
ByTwoNames(members) ==
  UNION {{members[k].name :> x @@ members[j].name :> y :
            x \in InitsOf(members[k].type, 10), y \in InitsOf(members[j].type, 20)} : j, k \in DOMAIN members}
Pairs(t) == {<<x, y>> : x \in InitsOf(t, 10), y \in InitsOf(t, 20)}

(* The arguments of cffi.new(): a table, or a list of up to two *)
Arguments(t) ==
  IF t.k = "record"
    THEN {<<Table(l, <<>>)>> : l \in Lists(t.members)} \cup {<<Table(<<>>, f)>> : f \in ByTwoNames(t.members)}
           \cup {l \in Lists(t.members) : Len(l) <= 2}
  ELSE {<<x>> : x \in InitsOf(t, 10)} \cup {<<x>> : x \in InitsOf(t.of, 10)}
         \cup Pairs(t.of) \cup {<<Table(l, <<>>)>> : l \in Pairs(t.of)} \cup {<<>>}

(* All of these, and what is in them *)
EntriesOf(x) ==
  IF x.k = "table" THEN {x.list[i] : i \in DOMAIN x.list} \cup {x.named[e] : e \in DOMAIN x.named} ELSE {}
AllArguments == UNION {Arguments(t) : t \in LayoutTypes \cup ArrayTypes}
Outermost == UNION {{l[i] : i \in DOMAIN l} : l \in AllArguments}
Entries == UNION {EntriesOf(x) : x \in Outermost}
Innermost == UNION {EntriesOf(x) : x \in Entries}
MCInitializers == Outermost \cup Entries \cup Innermost
MCContents == 0..100

(* The initialization of a sample: of a new object, with room for some     *)
(* elements of the member whose size is left open; or the assignment to one *)
(* that is there, whose bytes are something else                           *)
VARIABLE given
Nothing == [how |-> "not", inits |-> <<>>, size |-> 0]

Init == SampleInit /\ ConversionInit /\ object = Memory(0, Zero) /\ stack = <<>> /\ given = Nothing
Begin ==
  /\ kind = Layouts /\ given = Nothing
  /\ \E inits \in Arguments(type) :
       \/ \E room \in IF OpenElements(type) = {} THEN {0} ELSE 0..2 :
            /\ New(type, room, inits)
            /\ given' = [how |-> "new", inits |-> inits, size |-> NewSize(type, room)]
       \/ /\ Len(inits) = 1 /\ Assign(type, 99, inits[1])
          /\ given' = [how |-> "assigned", inits |-> inits, size |-> Size(type)]

(* A sample has one value, which is converted once. *)
ConvertNext ==
  /\ kind = Values /\ place = Nowhere
  /\ \/ value = Lua("nil") /\ origin = Unread /\ \E v \in Inputs(type) : Make(v)
     \/ value = Lua("nil") /\ origin = Unread /\ \E rule \in {"conv", "pass"} : Read(type, rule)
     \/ \E rule \in {"conv", "pass", "cast"} : Convert(type, rule)
     \/ AssignTo(type)

Next ==
  \/ SampleNext /\ UNCHANGED <<conversionVars, initVars, given>>
  \/ ConvertNext /\ UNCHANGED <<sampleVars, recordVars, initVars, given>>
  \/ (Begin \/ (InitNext /\ UNCHANGED given)) /\ UNCHANGED <<sampleVars, recordVars, conversionVars>>
Spec == Init /\ [][Next]_<<sampleVars, recordVars, conversionVars, initVars, given>>

(* The members that get an initializer, and which. *)
Taken(rec, members, list, named) ==
  LET all == {k \in DOMAIN members : IF list = <<>> THEN members[k].name \in DOMAIN named ELSE k <= Len(list)}
  IN  IF rec.uni /\ all # {} THEN {Min(all)} ELSE all
GivenTo(members, list, named, k) == IF list = <<>> THEN named[members[k].name] ELSE list[k]

(***************************************************************************)
(* docs/semantics.md, Initializers and Table initializers, byte by byte:   *)
(* what byte b of a new object of a size shows.  What no initializer is    *)
(* for is zero; under is Zero, or what another member that is in the same  *)
(* place was initialized with before.                                      *)
(***************************************************************************)
RECURSIVE Shows(_, _, _, _, _, _)
ShowsOne(t, b, init, under) ==
  CASE init.k = "number" -> init.n
    [] init.k = "string" -> IF b < init.len THEN init.n ELSE IF b = init.len THEN Zero ELSE under
    [] init.k = "table"  -> Shows(t, b, Size(t), init.list, init.named, under)

ShowsElement(t, b, size, list, under) ==
  LET k == IF Len(list) = 1 /\ ~IsFlex(t) THEN 1 ELSE b \div size + 1
  IN  IF k > Len(list) THEN Zero ELSE ShowsOne(t.of, b % size, list[k], under)

ShowsMember(rec, f, b, end, size, list, init, under) ==
  LET open == IsFlex(f.type) /\ ~rec.uni
  IN  IF b < f.offset \/ b >= (IF open THEN size ELSE f.offset + end) THEN under
      ELSE IF open THEN ShowsElement(f.type, b - f.offset, Size(f.type.of),
                                     IF init.k = "table" THEN init.list ELSE list, under)
      ELSE ShowsOne(f.type, b - f.offset, init, under)

ShowsRecord(rec, members, b, size, list, named, under) ==
  LET taken == Taken(rec, members, list, named)
      over(below, k) ==
        ShowsMember(rec, members[k], b, Size(members[k].type), size,
                    SubSeq(list, k, Len(list)), GivenTo(members, list, named, k), below)
  IN  IF rec.uni /\ taken = {} THEN Zero
      ELSE FoldLeft(over, under, SelectSeq([k \in DOMAIN members |-> k], LAMBDA k : k \in taken))

Shows(t, b, size, list, named, under) ==
  IF t.k = "array" THEN ShowsElement(t, b, Size(t.of), list, under)
  ELSE ShowsRecord(t, t.members, b, size, list, named, under)

(* What is an error: a number for an aggregate, a table for what is none,  *)
(* and more initializers than elements.                                    *)
RECURSIVE Wrong(_, _, _)
WrongOne(t, init) == ~Takes(t, init) \/ (init.k = "table" /\ Wrong(t, init.list, init.named))
WrongMember(rec, t, list, init) ==
  IF IsFlex(t) /\ ~rec.uni /\ init.k # "table" THEN \E j \in DOMAIN list : ~Takes(t.of, list[j])
  ELSE WrongOne(t, init)
WrongRecord(rec, members, list, named) ==
  \E k \in Taken(rec, members, list, named) :
    WrongMember(rec, members[k].type, SubSeq(list, k, Len(list)), GivenTo(members, list, named, k))
Wrong(t, list, named) ==
  IF t.k = "array" THEN (~IsFlex(t) /\ Len(list) > t.n) \/ \E k \in DOMAIN list : WrongOne(t.of, list[k])
  ELSE WrongRecord(t, t.members, list, named)

(* A single table is looked into, and a string is for all the bytes of an *)
(* array.                                                                  *)
Aggregated(t, inits) == Len(inits) = 1 /\ (inits[1].k = "table" \/ (inits[1].k = "string" /\ IsBytes(t)))
List(t, inits) == IF Aggregated(t, inits) THEN inits[1].list ELSE inits
ByNames(t, inits) == IF Aggregated(t, inits) THEN inits[1].named ELSE <<>>
Right(t, g) ==
  IF g.inits = <<>> THEN \A b \in DOMAIN object.bytes : object.bytes[b] = Zero
  ELSE IF Aggregated(t, g.inits) /\ g.inits[1].k = "string"
    THEN \A b \in DOMAIN object.bytes : object.bytes[b] = ShowsOne(t, b, g.inits[1], Zero)
  ELSE /\ object.ok = ~Wrong(t, List(t, g.inits), ByNames(t, g.inits))
       /\ object.ok => \A b \in DOMAIN object.bytes :
            object.bytes[b] = Shows(t, b, g.size, List(t, g.inits), ByNames(t, g.inits), Zero)

(* No transparent record stands in another one: see TransparentMembers.    *)
(* And in C no record inside another one has a member whose size is left   *)
(* open.                                                                   *)
Usual(t) ==
  t.k = "record" =>
    /\ \A k \in DOMAIN t.members : Len(t.members[k].name) <= 2
    /\ \A k \in DOMAIN t.fields : t.fields[k].type.k = "record" => t.fields[k].type.flexible = {}

(***************************************************************************)
(* A new object shows, in every byte, what docs/semantics.md, Initializers *)
(* and Table initializers, says of its initializers, and zero where they   *)
(* set nothing; wrong initializers are an error.                           *)
(*                                                                         *)
(* Known to be otherwise: a record takes a list of more than it has        *)
(* members, which the document says only of tables.  Left out is a table   *)
(* that is assigned to an object that is there: the document allows tables *)
(* "in cffi.new but nowhere else", the code takes them, and keeps the      *)
(* bytes of members the table does not name.                               *)
(* (make_cdata, from_lua_aggreg, from_lua_table)                           *)
(***************************************************************************)
InitializersShow ==
  kind = Layouts /\ given.how = "new" /\ stack = <<>> /\ Usual(type) => Right(type, given)
=============================================================================
