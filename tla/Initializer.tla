---------------------------- MODULE Initializer ----------------------------
(***************************************************************************)
(* How the memory of an array or a record is initialized (src/ffi.cc,      *)
(* make_cdata, from_lua_aggreg, from_lua_table, from_lua_table_record).    *)
(* Tables are inside one another, and so are the calls that read them:     *)
(* each reads one element or member after the other.                       *)
(***************************************************************************)
EXTENDS RecordLayout

CONSTANTS
  Initializers,   \* what a program initializes with
  Contents        \* what a byte may hold

(* A number, which is what each byte of a scalar that holds it shows; a    *)
(* string of a length, all of one character; or a table, with the list of  *)
(* its elements and its entries by name.                                   *)
Num(n) == [k |-> "number", n |-> n]
Str(n, len) == [k |-> "string", n |-> n, len |-> len]
Table(list, named) == [k |-> "table", list |-> list, named |-> named]
Zero == 0

ASSUME InitializersAssumption ==
  /\ Zero \in Contents
  /\ \A x \in Initializers :
       \/ x.k \in {"number", "string"} /\ x.n \in Contents /\ (x.k = "string" => x.len \in Nat)
       \/ x.k = "table" /\ x.list \in Seq(Initializers) /\ \A e \in DOMAIN x.named : x.named[e] \in Initializers

VARIABLES object,   \* the memory that is initialized
          stack     \* the calls of from_lua_table() in progress, the innermost last
initVars == <<object, stack>>

(* What each byte holds, whether something was written behind the last     *)
(* one, whether a list was longer than the memory there is for it, and     *)
(* whether no error was raised.                                            *)
Memory(size, byte) ==
  [bytes |-> [i \in 0..(size - 1) |-> byte], size |-> size, beyond |-> FALSE, overfull |-> FALSE, ok |-> TRUE]

(* n bytes written from i on *)
Put(o, i, n, content) ==
  [o EXCEPT !.bytes = [j \in DOMAIN @ |-> IF i <= j /\ j < i + n THEN content[j - i] ELSE @[j]],
            !.beyond = @ \/ (n > 0 /\ i + n > o.size)]
Fill(o, i, n, byte) == Put(o, i, n, [j \in 0..(n - 1) |-> byte])
(* The bytes from i on copied so that there are n times size of them. *)
Replicate(o, i, size, n) == Put(o, i, n * size, [j \in 0..(n * size - 1) |-> o.bytes[i + (j % size)]])

(* from_lua_str(): with the terminator, but not more than there is room    *)
(* for                                                                     *)
IsBytes(t) == t.k = "array" /\ t.of.k = "scalar" /\ Size(t.of) = 1
Shortest(a, b) == IF a < b THEN a ELSE b
Chars(init) == [j \in 0..init.len |-> IF j < init.len THEN init.n ELSE Zero]
Copy(o, i, room, init) == Put(o, i, Shortest(init.len + 1, room), Chars(init))

-----------------------------------------------------------------------------
(* A call: in rsz bytes from at on, what is of type t gets the entries of  *)
(* list or, if there is none, those of named; next is the element or       *)
(* member whose turn it is.                                                *)
Call(t, at, rsz, list, named) ==
  [t |-> t, at |-> at, rsz |-> rsz, list |-> list, named |-> named, next |-> 1, filled |-> FALSE]
Top == stack[Len(stack)]
Below == SubSeq(stack, 1, Len(stack) - 1)

(* mutant: one initializer too many is let through *)
FitsOneMore(t, n, list) == IsFlex(t) \/ Len(list) <= n + 1

(* Whether an array of n takes a list; one whose size is left open always  *)
(* does, whatever memory it has.                                           *)
Fits(t, n, list) == IsFlex(t) \/ Len(list) <= n

Fails(o) == object' = [o EXCEPT !.ok = FALSE] /\ stack' = <<>>

(* from_lua_table(), up to the first element or member: an array without   *)
(* initializers is zeroed.                                                 *)
Room(t, rsz) == rsz \div Size(t.of)
EnterArray(o, callers, t, at, rsz, list) ==
  \/ list = <<>> /\ object' = Fill(o, at, rsz, Zero) /\ stack' = callers
  \/ /\ list # <<>>
     /\ object' = [o EXCEPT !.overfull = @ \/ (IsFlex(t) /\ Len(list) > Room(t, rsz))]
     /\ stack' = Append(callers, Call(t, at, rsz, list, <<>>))
Enter(o, callers, t, at, rsz, list, named) ==
  \/ t.k = "array" /\ ~Fits(t, Room(t, rsz), list) /\ Fails(o)
  \/ t.k = "array" /\ Fits(t, Room(t, rsz), list) /\ EnterArray(o, callers, t, at, rsz, list)
  \/ /\ t.k = "record"
     /\ object' = o /\ stack' = Append(callers, Call(t, at, rsz, list, named))

(* What every element or member does with its initializer *)
Takes(t, init) ==
  CASE init.k = "number" -> t.k = "scalar"
    [] init.k = "string" -> IsBytes(t)
    [] init.k = "table"  -> t.k # "scalar"
Give(callers, t, at, init) ==
  \/ ~Takes(t, init) /\ Fails(object)
  \/ /\ Takes(t, init) /\ init.k = "number"
     /\ object' = Fill(object, at, Size(t), init.n) /\ stack' = callers
  \/ /\ Takes(t, init) /\ init.k = "string"
     /\ object' = Copy(object, at, Size(t), init) /\ stack' = callers
  \/ Takes(t, init) /\ init.k = "table" /\ Enter(object, callers, t, at, Size(t), init.list, init.named)

(* from_lua_table(): an element *)
NextElement ==
  /\ stack # <<>> /\ Top.t.k = "array" /\ Top.next <= Len(Top.list)
  /\ Give(Append(Below, [Top EXCEPT !.next = @ + 1]), Top.t.of,
          Top.at + (Top.next - 1) * Size(Top.t.of), Top.list[Top.next])

(* mutant: a single one is repeated once too few *)
FillRestShort(o, c) ==
  IF ~IsFlex(c.t) /\ Len(c.list) = 1 THEN Replicate(o, c.at, Size(c.t.of), Room(c.t, c.rsz) - 1)
  ELSE IF Len(c.list) < Room(c.t, c.rsz)
    THEN Fill(o, c.at + Len(c.list) * Size(c.t.of), (Room(c.t, c.rsz) - Len(c.list)) * Size(c.t.of), Zero)
  ELSE o

(* The elements after those with an initializer: a single one is repeated. *)
FillRest(o, c) ==
  LET size == Size(c.t.of)
      n == Room(c.t, c.rsz)
  IN  IF ~IsFlex(c.t) /\ Len(c.list) = 1 THEN Replicate(o, c.at, size, n)
      ELSE IF Len(c.list) < n THEN Fill(o, c.at + Len(c.list) * size, (n - Len(c.list)) * size, Zero)
      ELSE o
EndElements ==
  /\ stack # <<>> /\ Top.t.k = "array" /\ Top.next > Len(Top.list)
  /\ object' = FillRest(object, Top) /\ stack' = Below

-----------------------------------------------------------------------------
(* from_lua_table_record(): members by name, if there is no list, or in    *)
(* order; of a union, only the first of them.                              *)
ByName(c) == c.list = <<>>
IsGiven(c, name) == IF ByName(c) THEN name \in DOMAIN c.named ELSE c.next <= Len(c.list)
Given(c, name) == IF ByName(c) THEN c.named[name] ELSE c.list[c.next]
Ended(c) == [c EXCEPT !.next = Len(c.t.members) + 1]
After(c) == IF c.t.uni THEN [Ended(c) EXCEPT !.filled = TRUE] ELSE [c EXCEPT !.next = @ + 1, !.filled = TRUE]
PassedBy(c, m) == IF ByName(c) /\ ~IsFlex(m.type) THEN [c EXCEPT !.next = @ + 1] ELSE Ended(c)

(* The initializers that are left for a member whose size is left open: a  *)
(* table is for its elements; with names, what is no table is for none.    *)
Left(c, name) ==
  IF Given(c, name).k = "table" THEN Given(c, name).list ELSE SubSeq(c.list, c.next, Len(c.list))

(* A member whose size is left open is not where its offset says, but      *)
(* behind the record, and is the last.                                     *)
IsOpen(c, m) == ~c.t.uni /\ IsFlex(m.type)
OpenMember(c, m) ==
  EnterArray(object, Append(Below, Ended(c)), m.type, c.at + Size(c.t), c.rsz - Size(c.t), Left(c, m.name))
FixedMember(c, m) == Give(Append(Below, After(c)), m.type, c.at + m.offset, Given(c, m.name))

NextMember ==
  /\ stack # <<>> /\ Top.t.k = "record" /\ Top.next <= Len(Top.t.members)
  /\ LET m == Top.t.members[Top.next]
     IN  \/ /\ ~IsGiven(Top, m.name)
            /\ stack' = Append(Below, PassedBy(Top, m)) /\ UNCHANGED object
         \/ IsGiven(Top, m.name) /\ IsOpen(Top, m) /\ OpenMember(Top, m)
         \/ IsGiven(Top, m.name) /\ ~IsOpen(Top, m) /\ FixedMember(Top, m)

EndMembers ==
  /\ stack # <<>> /\ Top.t.k = "record" /\ Top.next > Len(Top.t.members)
  /\ object' = IF Top.t.uni /\ ~Top.filled /\ Top.t.members # <<>>
                 THEN Fill(object, Top.at, Top.rsz, Zero) ELSE object
  /\ stack' = Below

-----------------------------------------------------------------------------
(* from_lua_aggreg(), where nothing is copied: a single table is looked    *)
(* into.                                                                   *)
Initialize(o, t, inits) ==
  LET single == Len(inits) = 1
      table == single /\ inits[1].k = "table"
      string == single /\ inits[1].k = "string" /\ IsBytes(t)
  IN  \/ string /\ object' = Copy(o, 0, o.size, inits[1]) /\ stack' = <<>>
      \/ ~string /\ Enter(o, <<>>, t, 0, o.size, IF table THEN inits[1].list ELSE inits,
                                                IF table THEN inits[1].named ELSE <<>>)

(* make_cdata(): n is what is given for the size that is left open, of the *)
(* type or of its last member.                                             *)
OpenElements(t) == IF IsFlex(t) THEN {t.of} ELSE IF t.k = "record" THEN t.flexible ELSE {}
NewSize(t, n) == IF OpenElements(t) = {} THEN Size(t) ELSE Size(t) + n * Size(CHOOSE of \in OpenElements(t) : TRUE)

Idle == stack = <<>>
New(t, n, inits) ==
  /\ Idle /\ t.k # "scalar"
  /\ \/ inits = <<>> /\ object' = Memory(NewSize(t, n), Zero) /\ UNCHANGED stack
     \/ inits # <<>> /\ Initialize(Memory(NewSize(t, n), Zero), t, inits)

(* from_lua() to a place that is there, with other contents *)
Assign(t, byte, init) == Idle /\ t.k # "scalar" /\ Initialize(Memory(Size(t), byte), t, <<init>>)

InitNext == NextElement \/ EndElements \/ NextMember \/ EndMembers

(* A program that declares records and initializes objects of any type. *)
ObjectInit == RecordInit /\ object = Memory(0, Zero) /\ stack = <<>>
ObjectNext ==
  \/ RecordNext /\ UNCHANGED initVars
  \/ InitNext /\ UNCHANGED recordVars
  \/ /\ \/ \E t \in types, n \in Nat, inits \in Seq(Initializers) : New(t, n, inits)
        \/ \E t \in types, byte \in Contents, init \in Initializers : Assign(t, byte, init)
     /\ UNCHANGED recordVars
ObjectSpec == ObjectInit /\ [][ObjectNext]_<<recordVars, initVars>>

-----------------------------------------------------------------------------
(***************************************************************************)
(* Nothing is written outside an object, unless a member whose size is     *)
(* left open gets more elements than the memory for it has, which no check *)
(* refuses.  (from_lua_table)                                              *)
(***************************************************************************)
InitializersStayInside == object.beyond => object.overfull
=============================================================================
