---------------------------- MODULE RecordLayout ----------------------------
(***************************************************************************)
(* Sizes and offsets of structs and unions (src/ast.cc, libffi_base to     *)
(* set_fields; src/ast.hh, c_record), and the program that declares them   *)
(* (src/parser.cc, parse_record): bodies are parsed inside one another,    *)
(* and a record is laid out when its body is closed.                       *)
(*                                                                         *)
(* A type is a scalar, an array of n (0 and flexible when open), or a      *)
(* record.  A field without a name is a transparent record; the name of a  *)
(* member is its path, the positions of the fields that lead to it.  Left  *)
(* out are records of size zero, which libffi refuses (an assertion in     *)
(* set_fields).                                                            *)
(***************************************************************************)
EXTENDS Integers, Sequences, FiniteSets

CONSTANTS
  Scalars,      \* the ffi_types of builtin types
  Pointer,      \* that of pointers, which arrays have too
  Counts,       \* how many elements an array may have
  MaxTypes,     \* bound: types
  MaxFields     \* bound: fields

(* An ffi_type *)
Ffi(size, align) == [size |-> size, align |-> align]

(* Sizes are multiples of alignments, and of two alignments one divides    *)
(* the other, as powers of two do.                                         *)
ASSUME ScalarsAssumption ==
  /\ Pointer \in Scalars /\ Counts \subseteq Nat
  /\ \A s \in Scalars : /\ s.size \in Nat \ {0} /\ s.align \in Nat \ {0}
                        /\ s.size % s.align = 0 /\ s = Ffi(s.size, s.align)
  /\ \A a, b \in Scalars : a.align % b.align = 0 \/ b.align % a.align = 0

(***************************************************************************)
(* Types, with what libffi_base() finds in them: the ffi_type of the       *)
(* innermost element, and how often it is repeated.                        *)
(***************************************************************************)
Repeated(ffi, n) == [ffi |-> ffi, n |-> n]

Scalar(ffi) == [k |-> "scalar", base |-> Repeated(ffi, 1)]
ArrayOf(t, n, flex) ==
  [k |-> "array", of |-> t, n |-> n, flex |-> flex, base |-> Repeated(t.base.ffi, n * t.base.n)]
Field(unnamed, t) == [unnamed |-> unnamed, type |-> t]

Size(t) == t.base.ffi.size * t.base.n
Align(t) == t.base.ffi.align
(* c_type::libffi_type() *)
LibffiType(t) == IF t.k = "array" THEN Pointer ELSE t.base.ffi

IsFlex(t) == t.k = "array" /\ t.flex
EndsFlex(fields) == fields # <<>> /\ IsFlex(fields[Len(fields)].type)

(* Whether a record has a member that is not part of it. *)
Open(uni, fields) == ~uni /\ EndsFlex(fields)
FixedLen(uni, fields) == IF Open(uni, fields) THEN Len(fields) - 1 ELSE Len(fields)

-----------------------------------------------------------------------------
(* The size of a record *)

Larger(a, b) == IF a < b THEN b ELSE a
RoundUp(n, align) == ((n + align - 1) \div align) * align
Rounded(s) == Ffi(RoundUp(s.size, s.align), s.align)

(* libffi lays a structure out element by element; set_fields() gives it   *)
(* every element of a member.                                              *)
AddElement(s, ffi) == Ffi(RoundUp(s.size, ffi.align) + ffi.size, Larger(s.align, ffi.align))
AddElements(s, b) ==
  LET after[j \in 0..b.n] == IF j = 0 THEN s ELSE AddElement(after[j - 1], b.ffi)
  IN  after[b.n]

(* resolve_union(), where no homogeneous aggregates are passed by value:   *)
(* the largest member, and the strictest alignment                         *)
Cover(s, b) == Ffi(Larger(s.size, b.ffi.size * b.n), Larger(s.align, b.ffi.align))

(* What there is of a record after i members *)
Grown(uni, fields, i) ==
  LET after[k \in 0..Len(fields)] ==
        IF k = 0 THEN Ffi(0, 0)
        ELSE IF uni THEN Cover(after[k - 1], fields[k].type.base)
        ELSE AddElements(after[k - 1], fields[k].type.base)
  IN  after[i]

(* mutant: the padding before a flexible member is forgotten *)
Unpadded(ffi, align) == ffi

(* set_fields(): padded so that a flexible member can follow *)
Padded(ffi, align) ==
  IF ffi.size % align = 0 THEN ffi ELSE Ffi(ffi.size + align - (ffi.size % align), ffi.align)

(* set_fields() *)
SetFields(uni, fields) ==
  LET body == Rounded(Grown(uni, fields, FixedLen(uni, fields)))
  IN  IF Open(uni, fields) THEN Padded(body, LibffiType(fields[Len(fields)].type.of).align) ELSE body

-----------------------------------------------------------------------------
(* The offsets of its members *)

(* iter_fields(): where it is after i fields, and the offset of field i; a *)
(* member whose size is left open follows the whole record.                *)
BaseAfter(uni, fields, i) ==
  LET after[k \in 0..Len(fields)] ==
        IF k = 0 THEN 0
        ELSE LET b == fields[k].type.base
                 base == RoundUp(after[k - 1], b.ffi.align)
             IN  IF uni THEN base ELSE base + b.ffi.size * b.n
  IN  after[i]
FieldBase(uni, fields, i) ==
  IF Open(uni, fields) /\ i = Len(fields) THEN SetFields(uni, fields).size
  ELSE RoundUp(BaseAfter(uni, fields, i - 1), fields[i].type.base.ffi.align)

(* A transparent record hands on its own offset alone, not the one it is   *)
(* given.                                                                  *)
Inner(m, i, base) ==
  [name |-> <<i>> \o m.name, type |-> m.type, offset |-> IF Len(m.name) = 1 THEN base + m.offset ELSE m.offset]
FieldMembers(f, i, base) ==
  IF f.unnamed THEN [j \in DOMAIN f.type.members |-> Inner(f.type.members[j], i, base)]
  ELSE <<[name |-> <<i>>, type |-> f.type, offset |-> base]>>

Members(uni, fields) ==
  LET upto[i \in 0..Len(fields)] ==
        IF i = 0 THEN <<>> ELSE upto[i - 1] \o FieldMembers(fields[i], i, FieldBase(uni, fields, i))
  IN  upto[Len(fields)]

(* c_record::flexible(): the element of the array at the end that has no   *)
(* size, also where it ends the record that is the last field              *)
Flexible(fields) ==
  IF fields = <<>> THEN {}
  ELSE LET last == fields[Len(fields)].type
       IN  IF last.k = "record" THEN last.flexible ELSE IF IsFlex(last) THEN {last.of} ELSE {}

Record(uni, fields) ==
  [k |-> "record", uni |-> uni, fields |-> fields, base |-> Repeated(SetFields(uni, fields), 1),
   members |-> Members(uni, fields), flexible |-> Flexible(fields)]

-----------------------------------------------------------------------------
(* Declarations *)

VARIABLES types,    \* the types that are complete
          bodies,   \* the bodies that are open, the innermost last
          count     \* the fields so far

recordVars == <<types, bodies, count>>

RecordInit == types = {Scalar(s) : s \in Scalars} /\ bodies = <<>> /\ count = 0

(* Every body that is open will be a type. *)
RoomForType == Cardinality(types) + Len(bodies) < MaxTypes

(* parse_array(); the elements of an array have a size. *)
DeclareArray(t, n, flex) ==
  /\ RoomForType /\ ~IsFlex(t)
  /\ types' = types \cup {ArrayOf(t, n, flex)} /\ UNCHANGED <<bodies, count>>

(* parse_record(), up to the brace *)
OpenBody(uni) ==
  /\ RoomForType
  /\ bodies' = Append(bodies, [uni |-> uni, fields |-> <<>>]) /\ UNCHANGED <<types, count>>

(* A member more in a body; nothing follows a flexible one. *)
WithField(body, f) == [body EXCEPT !.fields = Append(@, f)]
HasSize(body) == \E i \in 1..FixedLen(body.uni, body.fields) : Size(body.fields[i].type) > 0
AddField(t) ==
  /\ bodies # <<>> /\ ~EndsFlex(bodies[Len(bodies)].fields)
  /\ count < MaxFields /\ count' = count + 1
  /\ bodies' = [bodies EXCEPT ![Len(bodies)] = WithField(@, Field(FALSE, t))] /\ UNCHANGED types

(* The end of a body.  Without a declarator the record is a transparent    *)
(* field of the body around it.                                            *)
Outer == SubSeq(bodies, 1, Len(bodies) - 1)
CloseBody(transparent) ==
  /\ bodies # <<>>
  /\ LET body == bodies[Len(bodies)]
         r == Record(body.uni, body.fields)
     IN  /\ HasSize(body)
         /\ types' = types \cup {r}
         /\ IF transparent
              THEN /\ Outer # <<>> /\ ~EndsFlex(Outer[Len(Outer)].fields)
                   /\ bodies' = [Outer EXCEPT ![Len(Outer)] = WithField(@, Field(TRUE, r))]
              ELSE bodies' = Outer
  /\ UNCHANGED count

RecordNext ==
  \/ \E t \in types : DeclareArray(t, 0, TRUE) \/ \E n \in Counts : DeclareArray(t, n, FALSE)
  \/ \E uni \in BOOLEAN : OpenBody(uni)
  \/ \E t \in types : AddField(t)
  \/ \E transparent \in BOOLEAN : CloseBody(transparent)

RecordSpec == RecordInit /\ [][RecordNext]_recordVars
-----------------------------------------------------------------------------
(***************************************************************************)
(* C: members follow one another, each at the next multiple of its         *)
(* alignment, and those of a union are all at its beginning; a record is   *)
(* aligned like the strictest of its members, and its size is the next     *)
(* multiple of that.  A member whose size is left open is placed and       *)
(* aligned like the others, and has no size.  The types of the fields are  *)
(* taken as they are: each is compared itself.                             *)
(***************************************************************************)
NextMultiple(from, align) == CHOOSE n \in from..(from + align - 1) : n % align = 0
Greatest(S) == CHOOSE n \in S : \A m \in S : m <= n
Fixed(r) == 1..FixedLen(r.uni, r.fields)

CEnd(r, i) ==
  LET end[k \in 0..Len(r.fields)] ==
        IF k = 0 THEN 0 ELSE NextMultiple(end[k - 1], Align(r.fields[k].type)) + Size(r.fields[k].type)
  IN  end[i]
CAlign(r) == Greatest({Align(r.fields[i].type) : i \in DOMAIN r.fields})
CSize(r) ==
  NextMultiple(IF r.uni THEN Greatest({Size(r.fields[i].type) : i \in DOMAIN r.fields})
               ELSE CEnd(r, FixedLen(r.uni, r.fields)),
               CAlign(r))
CPlace(r, i) == IF r.uni THEN 0 ELSE NextMultiple(CEnd(r, i - 1), Align(r.fields[i].type))

CFieldMembers(f, i, at) ==
  IF f.unnamed
    THEN {[name |-> <<i>> \o f.type.members[j].name, type |-> f.type.members[j].type,
           offset |-> at + f.type.members[j].offset] : j \in DOMAIN f.type.members}
    ELSE {[name |-> <<i>>, type |-> f.type, offset |-> at]}
CMembers(r) == UNION {CFieldMembers(r.fields[i], i, CPlace(r, i)) : i \in DOMAIN r.fields}

Found(r) == {r.members[j] : j \in DOMAIN r.members}

(* What is compared: in C no array has no elements; and the alignment of   *)
(* an array of arrays whose size is left open is taken for that of a       *)
(* pointer.                                                                *)
Regular(r) ==
  /\ \A i \in Fixed(r) : Size(r.fields[i].type) # 0
  /\ Open(r.uni, r.fields) => r.fields[Len(r.fields)].type.of.k # "array"

(* The last member is left open, and is aligned stricter than the others.  *)
StrictEnd(r) ==
  Open(r.uni, r.fields) /\ \A i \in Fixed(r) : Align(r.fields[i].type) < Align(r.fields[Len(r.fields)].type)

(* The members of fields that have a size, and those that are not below a  *)
(* transparent record in another one that does not come first.             *)
WithSize(r, ms) == {m \in ms : m.name[1] \in Fixed(r)}
Shallow(r, ms) == {m \in ms : Len(m.name) <= 2 \/ CPlace(r, m.name[1]) = 0}

(***************************************************************************)
(* docs/semantics.md, Indexing a cdata: "The field address is computed     *)
(* like in C". An array has the size of its elements together; a record    *)
(* has the size and the alignment of C for the types of its fields, and    *)
(* its members are those of C, at the offsets of C.                        *)
(*                                                                         *)
(* Known to be otherwise: a member whose size is left open follows the     *)
(* whole record, at the place of C or behind it (in struct {int a; char b; *)
(* char c[];} it is at 8, in C at 5), and does not count in the alignment  *)
(* of the record, where it would be the strictest (as in struct {char a;   *)
(* int b[];}); a transparent record below another one that does not come   *)
(* first has the offset it has in the inner one. Left out: records with    *)
(* arrays without elements, which C does not have, and with open arrays of *)
(* arrays. (set_fields, resolve_union, iter_fields)                        *)
(***************************************************************************)
LayoutAsInC ==
  \A t \in types :
    /\ t.k = "array" => Size(t) = t.n * Size(t.of) /\ Align(t) = Align(t.of)
    /\ t.k = "record" /\ Regular(t) =>
         /\ Size(t) = CSize(t)
         /\ Align(t) = CAlign(t) \/ StrictEnd(t)
         /\ Shallow(t, WithSize(t, Found(t))) = Shallow(t, WithSize(t, CMembers(t)))
         /\ \A i \in DOMAIN t.fields \ Fixed(t) :
              \E m \in Found(t) : m.name = <<i>> /\ m.offset >= CPlace(t, i)

(***************************************************************************)
(* docs/syntax.md, Structs and unions: the members of a transparent struct *)
(* "will be accessible the same as other members".                         *)
(***************************************************************************)
TransparentMembers ==
  \A t \in types : t.k = "record" /\ Regular(t) => WithSize(t, Found(t)) = WithSize(t, CMembers(t))

(***************************************************************************)
(* A member that has a size is inside its record, at a multiple of its     *)
(* alignment: where no arrays without elements are, wherever a transparent *)
(* record stands.  (iter_fields)                                           *)
(***************************************************************************)
MembersInside ==
  \A r \in types : r.k = "record" =>
    \A j \in DOMAIN r.members :
      LET m == r.members[j]
      IN  ~IsFlex(m.type) => /\ m.offset + Size(m.type) <= Size(r)
                             /\ m.offset % Align(m.type) = 0
=============================================================================
