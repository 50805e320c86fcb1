----------------------------- MODULE Conversion -----------------------------
(***************************************************************************)
(* Conversion of values (src/ffi.cc, to_lua, from_lua and what they call): *)
(* which are refused, and what is stored for the others.  A conversion     *)
(* follows a rule, which is that of a store or a result ("conv"), of an    *)
(* argument ("pass") or of a cast ("cast").                                *)
(***************************************************************************)
EXTENDS CTypes

CONSTANTS
  Types,     \* the types that values and places have, and those they are made of
  Nesting    \* how many layers each type has

Integral == {"bool", "char", "int", "ullong"}
Numeric == Integral \cup {"double"}
ScalarNames == Numeric \cup Records \cup {"void"}

(* as_type(C_BUILTIN_PTR) of an array *)
AsPtr(t) == [Ptr(t.to, t.cv) EXCEPT !.ref = t.ref]

(* A type as C has it: nothing points to a reference or consists of        *)
(* references, and functions are not qualified.                            *)
OrReference(t) == {t, AddRef(t)}
IsType(t) ==
  \/ t.k = "base" /\ t.name \in ScalarNames /\ t \in OrReference(Base(t.name, t.cv))
  \/ t.k = "ptr" /\ ~t.to.ref /\ t \in OrReference(Ptr(t.to, t.cv))
  \/ t.k = "array" /\ ~t.to.ref /\ t \in OrReference(Array(t.to, t.cv, t.size, t.flag))
  \/ t.k = "func" /\ t.params \in Seq(Types) /\ t \in OrReference(Func(t.to, t.params, t.variadic, t.conv))

(* What a type is made of is nested less deeply, and what a conversion     *)
(* makes of a type is a type.                                              *)
MadeOf(t) ==
  IF t.k = "base" THEN {} ELSE {t.to} \cup (IF t.k = "func" THEN {t.params[i] : i \in DOMAIN t.params} ELSE {})
ConstChar == Base("char", {"const"})

ASSUME TypesAssumption ==
  /\ Nesting \in [Types -> Nat]
  /\ ConstChar \in Types
  /\ \A t \in Types :
       /\ IsType(t) /\ Unref(t) \in Types
       /\ \A u \in MadeOf(t) : u \in Types /\ Nesting[u] < Nesting[t]
       /\ t.k = "func" => Ptr(Unref(t), {}) \in Types
       /\ t.k = "array" => AsPtr(t) \in Types
       /\ t.k = "array" \/ IsRecord(t) => AddRef(t) \in Types

-----------------------------------------------------------------------------
(***************************************************************************)
(* c_type::is_same().  c_function has a member p_variadic that is compared *)
(* and never set: what is read there is the environment's choice, so the   *)
(* answer is a set.                                                        *)
(***************************************************************************)
Unlike(a, b, ignoreCv, ignoreRef) ==
  (~ignoreCv /\ a.cv # b.cv) \/ (~ignoreRef /\ a.ref # b.ref)

SameOf[x \in Types \X Types \X BOOLEAN \X BOOLEAN] ==
  LET a == x[1]
      b == x[2]
      ignoreRef == x[4]
      same(f, g) == SameOf[<<f, g, FALSE, FALSE>>]
  IN  IF Unlike(a, b, x[3], ignoreRef) THEN {FALSE}
      ELSE IF a.k = "base" THEN {b.k = "base" /\ a.name = b.name}
      ELSE IF a.k = "func" /\ b.k = "ptr"
        THEN IF b.to.k = "func" THEN SameOf[<<a, b.to, FALSE, ignoreRef>>] ELSE {FALSE}
      ELSE IF a.k = "ptr" /\ b.k = "func"
        THEN IF a.to.k = "func" THEN same(a.to, b) ELSE {FALSE}
      ELSE IF a.k # b.k \/ (a.k = "array" /\ a.size # b.size) THEN {FALSE}
      ELSE IF a.k # "func" THEN same(a.to, b.to)
      ELSE IF Len(a.params) # Len(b.params) THEN {FALSE}
      ELSE {FALSE} \cup {result \in same(a.to, b.to) :
                            \A i \in DOMAIN a.params : TRUE \in same(a.params[i], b.params[i])}
Same(a, b, ignoreCv, ignoreRef) == SameOf[<<a, b, ignoreCv, ignoreRef>>]

-----------------------------------------------------------------------------
(* A value in Lua: one of Lua's own types, or a cdata and its C type.      *)
LuaKinds == {"nil", "number", "boolean", "string", "function", "table",
             "lightuserdata", "userdata", "file"}
Lua(kd) == [lua |-> kd, type |-> Base("void", {})]
Cdata(t) == [lua |-> "cdata", type |-> t]
LuaValues == {Lua(kd) : kd \in LuaKinds} \cup {Cdata(t) : t \in Types}

(* What a conversion stores: an error; the address of an object of a type, *)
(* of nothing, or of no one knows what; a number of a type, or a record;   *)
(* or a reference to a Lua function, from which a callback is made.        *)
Error == [gives |-> "error"]
Address(t) == [gives |-> "address", of |-> t]
Null == Address(Base("nothing", {}))
Unknown == Address(Base("unknown", {}))
BitsOf(name) == [gives |-> "bits", of |-> name]
Closure == [gives |-> "closure"]

Accept(answers, result) == {IF yes THEN result ELSE Error : yes \in answers}

IsInteger(t) == t.k = "base" /\ t.name \in Integral
IsNumeric(t) == t.k = "base" /\ t.name \in Numeric
IsByte(t) == t.k = "base" /\ t.name = "char"

(* ptr_ref_base(): a reference stands for itself. *)
Target(t) == IF t.ref THEN t ELSE t.to
Callable(t) == t.k = "func" \/ (t.k = "ptr" /\ t.to.k = "func")

(* mutant: the qualifiers that are lost are looked for in the wrong type *)
CvConvertibleSwapped(from, to) == to.cv \subseteq from.cv
CvConvertible(from, to) == from.cv \subseteq to.cv

FuncConvertible(from, to) == from.variadic = to.variadic /\ Len(from.params) = Len(to.params)

(* The answer is a set, as that of Same is.  A pointer, which is no        *)
(* reference, is converted to a pointer, a reference or an array.          *)
Pointers == {t \in Types : t.k = "ptr" /\ ~t.ref}
PointerLike == {t \in Types : t.ref \/ t.k \in {"ptr", "array"}}
Converts[x \in Pointers \X PointerLike] ==
  LET f == Target(x[1])
      t == Target(x[2])
  IN  IF ~CvConvertible(f, t) THEN {FALSE}
      ELSE IF IsVoid(f) \/ IsVoid(t) THEN {TRUE}
      ELSE IF f.k = "ptr" /\ t.k = "ptr" THEN Converts[<<f, t>>]
      ELSE Same(f, t, TRUE, TRUE)
PtrConvertible(from, to) == Converts[<<from, to>>]

(* from_lua_cdata_ptr(): the pointer that the cdata holds *)
FromPtr(cd, tp, rule) ==
  LET pointer == tp.ref \/ tp.k = "ptr" \/ (tp.k = "array" /\ rule = "pass")
      converts == IF ~pointer THEN {rule = "cast" /\ IsInteger(tp)}
                  ELSE IF rule = "cast" THEN {TRUE}
                  ELSE IF Target(tp).k = "func"
                    THEN {cd.to.k = "func" /\ FuncConvertible(cd.to, Target(tp))}
                  ELSE PtrConvertible(cd, tp)
  IN  Accept(converts, Address(cd.to))

(* from_lua_cdata() of a function: its address *)
FromFunc(cd, tp, rule) ==
  Accept({/\ tp.k = "ptr" \/ tp.ref
          /\ rule = "cast" \/ (Target(tp).k = "func" /\ FuncConvertible(cd, Target(tp)))},
         Address(cd))

(* from_lua_cdata() of a record: a copy, or its address, whatever type the *)
(* pointer is to                                                           *)
FromRecord(cd, tp, rule) ==
  IF tp.k # "ptr" /\ ~tp.ref
    THEN IF rule = "cast" THEN {Error} ELSE Accept(Same(cd, tp, TRUE, FALSE), BitsOf(cd.name))
  ELSE Accept({rule = "cast" \/ CvConvertible(cd, Target(tp))}, Address(cd))

(* from_lua_cnumber() *)
FromNumber(cd, tp, rule) ==
  IF tp.ref \/ tp.k = "ptr" THEN Accept({rule = "cast" /\ IsInteger(cd)}, Unknown)
  ELSE Accept({IsNumeric(tp)}, BitsOf(tp.name))

(* mutant: a value is not the same as a reference to it *)
FromReferentStrict(cd, tp) == IF CvConvertible(cd, tp) THEN Accept(Same(cd, tp, TRUE, FALSE), Address(cd)) ELSE {Error}

(* from_lua_cdata() of what a reference is to be passed for: its address *)
FromReferent(cd, tp) == IF CvConvertible(cd, tp) THEN Accept(Same(cd, tp, TRUE, TRUE), Address(cd)) ELSE {Error}

(* An array is taken for a pointer first, and a reference is followed. *)
Decayed(t) == Unref(IF t.k = "array" THEN AsPtr(t) ELSE t)
FromCdata(t, tp, rule) ==
  LET cd == Decayed(t)
  IN  IF rule = "pass" /\ tp.ref THEN FromReferent(cd, tp)
      ELSE CASE cd.k = "ptr"  -> FromPtr(cd, tp, rule)
             [] cd.k = "func" -> FromFunc(cd, tp, rule)
             [] IsRecord(cd)  -> FromRecord(cd, tp, rule)
             [] IsNumeric(cd) -> FromNumber(cd, tp, rule)
             [] OTHER         -> {Error}

(* from_lua_num(): a reference is taken for what it refers to. *)
FromLuaNumber(tp, rule) ==
  IF rule = "cast" /\ (tp.ref \/ tp.k = "ptr") THEN Unknown
  ELSE IF IsNumeric(tp) THEN BitsOf(tp.name) ELSE Error

(* from_lua() of the other values of Lua; a file is a FILE pointer *)
FromLuaPointer(kd, tp, rule) ==
  LET cast == rule = "cast"
      to(names) == tp.k = "ptr" /\ tp.to.k = "base" /\ tp.to.name \in names
      takes == CASE kd = "nil" -> tp.ref \/ tp.k = "ptr"
                 [] kd = "string" -> cast \/ (to({"char", "void"}) /\ "const" \in tp.to.cv)
                 [] kd = "file" -> tp.k = "ptr" \/ (tp.ref /\ cast)
                 [] kd = "userdata" -> to({"void"}) \/ (cast /\ (tp.k = "ptr" \/ tp.ref))
                 [] kd = "lightuserdata" -> tp.k = "ptr"
  IN  IF ~takes THEN Error
      ELSE CASE kd = "nil" -> Null
             [] kd = "string" -> Address(ConstChar)
             [] OTHER -> Unknown

(* Types that nothing converts to: arrays can only be passed, and records  *)
(* are not cast to.                                                        *)
Refused(tp, rule) ==
  \/ tp.k = "func" \/ IsVoid(tp)
  \/ tp.k = "array" /\ rule # "pass"
  \/ IsRecord(tp) /\ rule = "cast"

(* from_lua(), which returns what is to be stored *)
FromLua(v, tp, rule) ==
  IF Refused(tp, rule) THEN {Error}
  ELSE CASE v.lua = "cdata" -> FromCdata(v.type, tp, rule)
         [] v.lua \in {"number", "boolean"} -> {FromLuaNumber(tp, rule)}
         [] v.lua = "function" -> {IF Callable(tp) THEN Closure ELSE Error}
         [] v.lua = "table" -> {Error}
         [] OTHER -> {FromLuaPointer(v.lua, tp, rule)}

(* How one value initializes a place: as any other value, as a copy, as a  *)
(* string, or by its elements or members, which is what Initializer is     *)
(* about.  A number cannot be asked what it is an array of.                *)
Aggregate(decl, v) ==
  LET same == IF v.lua = "cdata" THEN Same(v.type, decl, TRUE, TRUE) ELSE {FALSE}
      bytes == decl.k = "array" /\ IsByte(decl.to)
      alike == /\ v.lua = "cdata" /\ bytes /\ v.type.k \in {"ptr", "array"} /\ IsByte(v.type.to)
               /\ (IF v.type.k = "array" THEN v.type.size ELSE 0) = decl.size
      outcome(s) == IF s \/ alike THEN "copy"
                    ELSE IF v.lua = "cdata" /\ bytes /\ v.type.k \notin {"ptr", "array"} THEN "undefined"
                    ELSE "elements"
  IN  IF decl.ref \/ ~(IsRecord(decl) \/ decl.k = "array") THEN {"plain"}
      ELSE IF IsRecord(decl) THEN {IF s THEN "copy" ELSE "elements" : s \in same}
      ELSE IF bytes /\ v.lua = "string" THEN {"string"}
      ELSE IF decl.flag = "vla" THEN {"elements"}
      ELSE {outcome(s) : s \in same}

(* from_lua() to a place of a type: a variable, an element or a member *)
Store(decl, v) ==
  IF "const" \in decl.cv THEN {Error}
  ELSE UNION {IF how = "plain" THEN FromLua(v, decl, "conv") ELSE {[gives |-> how, of |-> v.type]} :
                how \in Aggregate(decl, v)}

(***************************************************************************)
(* to_lua() of a value of a type.  What does not fit a number of Lua, and  *)
(* pointers, become a cdata; an array, and a record that is read where it  *)
(* is, become a reference.                                                 *)
(***************************************************************************)
ReadValue(tp, rule) ==
  CASE tp.k = "func" -> Cdata(Ptr(tp, {}))
    [] tp.k = "ptr" -> Cdata(IF tp.to.k = "func" THEN Ptr(tp.to, {}) ELSE tp)
    [] tp.k = "array" -> Cdata(IF rule = "pass" THEN AsPtr(tp) ELSE AddRef(tp))
    [] IsRecord(tp) -> Cdata(IF rule = "conv" THEN AddRef(tp) ELSE tp)
    [] OTHER -> CASE tp.name = "bool" -> Lua("boolean")
                  [] tp.name = "ullong" -> Cdata(tp)
                  [] OTHER -> Lua("number")
ToLua(tp, rule) ==
  IF ~tp.ref THEN ReadValue(tp, rule)
  ELSE IF tp.k = "func" THEN Cdata(IF rule = "conv" THEN Unref(tp) ELSE Ptr(Unref(tp), {}))
  ELSE IF rule = "conv" THEN ReadValue(Unref(tp), rule)
  ELSE Cdata(tp)

-----------------------------------------------------------------------------
VARIABLES value,    \* the value of Lua that a program has
          origin,   \* the type and the rule it was read by, if it was read
          place     \* what it was converted to last: the type, the rule, and what it holds
conversionVars == <<value, origin, place>>

Unread == [type |-> Base("void", {}), rule |-> "none"]
Nowhere == [type |-> Base("void", {}), rule |-> "none", holds |-> Error]

(* A value of any type, and one that is read: an argument of a callback    *)
(* ("pass"), or what is in a place ("conv")                                *)
Objects == {t \in Types : ~IsVoid(t) /\ (t.ref \/ Passable(t))}
Make(v) ==
  /\ v.lua = "cdata" => v.type \in Objects
  /\ value' = v /\ origin' = Unread /\ place' = Nowhere
Read(t, rule) ==
  /\ t \in Objects
  /\ value' = ToLua(t, rule) /\ origin' = [type |-> t, rule |-> rule] /\ place' = Nowhere

(* The value is returned ("conv"), passed or cast, or assigned to a place. *)
Convert(t, rule) ==
  \E r \in FromLua(value, t, rule) :
    place' = [type |-> t, rule |-> rule, holds |-> r] /\ UNCHANGED <<value, origin>>
AssignTo(t) ==
  \E r \in Store(t, value) :
    place' = [type |-> t, rule |-> "store", holds |-> r] /\ UNCHANGED <<value, origin>>

ConversionInit == value = Lua("nil") /\ origin = Unread /\ place = Nowhere
ConversionNext ==
  \/ \E v \in LuaValues : Make(v)
  \/ \E t \in Types, rule \in {"conv", "pass"} : Read(t, rule)
  \/ \E t \in Types, rule \in {"conv", "pass", "cast"} : Convert(t, rule)
  \/ \E t \in Types : AssignTo(t)
ConversionSpec == ConversionInit /\ [][ConversionNext]_conversionVars

-----------------------------------------------------------------------------
(* C: what is taken for the same object.  Any number of pointers to a      *)
(* function are the function, whose kind of call is not compared, and an   *)
(* array may be one without a size.                                        *)
Loosely[t \in Types] ==
  IF t.k = "base" THEN t
  ELSE IF t.k = "ptr" THEN IF Loosely[t.to].k = "func" THEN Loosely[t.to] ELSE [t EXCEPT !.to = Loosely[t.to]]
  ELSE IF t.k = "array" THEN [t EXCEPT !.to = Loosely[t.to], !.flag = "none"]
  ELSE Func(Loosely[t.to], [i \in DOMAIN t.params |-> Loosely[t.params[i]]], FALSE, "default")
Bare(l) == [l EXCEPT !.cv = {}, !.ref = FALSE]
Alike(f, t) == Bare(Loosely[f]) = Bare(Loosely[t])

(* What may be pointed to as what: void stands for every type, any two     *)
(* functions are alike, and no level of pointers loses a qualifier.        *)
PointsAs[x \in Types \X Types] ==
  LET f == x[1]
      t == x[2]
  IN  /\ f.cv \subseteq t.cv
      /\ \/ IsVoid(f) \/ IsVoid(t)
         \/ f.k = "func" /\ t.k = "func"
         \/ f.k = "ptr" /\ t.k = "ptr" /\ PointsAs[<<f.to, t.to>>]
         \/ Alike(f, t)

(* The object that a value of a type leads to. *)
PointsTo(t) == IF t.ref THEN Unref(t) ELSE t.to
OfBytes(t) == t.k \in {"ptr", "array"} /\ IsByte(t.to)

(* What a place of a type may hold.  What is copied is of the same type,   *)
(* or both are bytes; what is made of elements is left to Initializer.     *)
Suits(t, r) ==
  CASE r.gives = "closure" -> Callable(t)
    [] r.gives = "bits" -> ~t.ref /\ t.k = "base" /\ r = BitsOf(t.name)
    [] r.gives = "address" ->
         /\ t.ref \/ t.k \in {"ptr", "array"}
         /\ \/ r \in {Null, Unknown}
            \/ IsRecord(r.of) /\ r.of.cv \subseteq PointsTo(t).cv
            \/ PointsAs[<<r.of, PointsTo(t)>>]
    [] r.gives = "copy" -> Alike(r.of, t) \/ (OfBytes(r.of) /\ OfBytes(t))
    [] OTHER -> TRUE

(* A value of Lua that a reference is to hold is stored as if it were for  *)
(* what is referred to, and what a pointer leads to is compared with a     *)
(* reference to a pointer at every level, not the next one only.           *)
Misread(v, t, rule) ==
  /\ t.ref /\ v.lua # "nil"
  /\ v.lua = "cdata" => rule # "pass" /\ t.k = "ptr" /\ v.type.k \in {"ptr", "array"} /\ v.type.to.k = "ptr"

(***************************************************************************)
(* What a conversion stores is what its place is to hold: an address where *)
(* C reads an address, of an object of the right type whose qualifiers     *)
(* are kept, and the bits of a number or of a record of the right type     *)
(* elsewhere.  Casts are excepted, and so are values that are misread, and *)
(* the type of what a record's address is stored for, which is not         *)
(* compared.  (from_lua)                                                   *)
(***************************************************************************)
ConversionsFit ==
  place.rule # "cast" => Misread(value, place.type, place.rule) \/ Suits(place.type, place.holds)

(* Whether a type leads to a function.  Such types may be found unlike     *)
(* themselves, where is_same() is asked; of a pointer to a function it is  *)
(* not.                                                                    *)
LeadsToFunction[t \in Types] == t.k = "func" \/ (t.k # "base" /\ LeadsToFunction[t.to])
FunctionPointer(t) == ~t.ref /\ t.k = "ptr" /\ t.to.k = "func"
MayBeUnlike(t) == LeadsToFunction[t] /\ ~FunctionPointer(t)

(***************************************************************************)
(* What a callback is given for a parameter it can pass on to a function   *)
(* with the same parameter, and what is read from a place that is not      *)
(* constant can be stored there again, pointers to functions included.     *)
(* Excepted are references to arrays and, for places, to anything; places  *)
(* without a size; and types that lead to a function otherwise, which are  *)
(* references to functions and to pointers to functions, pointers to such  *)
(* pointers, and arrays of them. (to_lua, from_lua)                        *)
(***************************************************************************)
Back(t, rule) ==
  /\ origin = [type |-> t, rule |-> IF rule = "pass" THEN "pass" ELSE "conv"]
  /\ ~MayBeUnlike(t)
  /\ \/ rule = "pass" /\ ~(t.ref /\ t.k = "array")
     \/ rule = "store" /\ ~t.ref /\ ~Flex(t) /\ "const" \notin t.cv
ValuesReturn ==
  Back(place.type, place.rule) =>
    IF place.rule = "store" /\ (IsRecord(place.type) \/ place.type.k = "array")
      THEN place.holds.gives = "copy" ELSE place.holds # Error
=============================================================================
