----------------------------- MODULE DeclStore -----------------------------
(***************************************************************************)
(* The declaration store of a Lua state (src/ast.cc, decl_store) and the   *)
(* way the parser (src/parser.cc) drives it.  A parse of a cdef string or  *)
(* of a type string works on a staging store laid over the main one.  Its  *)
(* declarations are moved into the main store when the whole input has     *)
(* been read, and deleted when the parse fails.                            *)
(*                                                                         *)
(* A declaration is a heap object.  Types point at the record and enum     *)
(* declarations they are made of with plain pointers (ast.hh, c_type), so  *)
(* refs below is the set of objects a declaration holds pointers to.       *)
(* Struct and union tags are RecTags (the name carries the keyword, so the *)
(* two never meet), enum tags EnumTags; an anonymous record or enum gets a *)
(* number for a name; variables, functions, typedefs and enumerators share *)
(* Idents.                                                                 *)
(***************************************************************************)
EXTENDS Naturals, Sequences

CONSTANTS
  RecTags,   \* struct and union tags of the input
  EnumTags,  \* enum tags of the input
  Idents,    \* ordinary identifiers of the input
  MaxObj,    \* bound: declarations allocated in a behaviour
  MaxDepth   \* bound: nesting of record and enum bodies

Tag  == RecTags \cup EnumTags
Name == Tag \cup Idents \cup Nat

ASSUME NamesAssumption ==
  /\ RecTags \cap EnumTags = {}
  /\ Tag \cap Idents = {}
  /\ (Tag \cup Idents) \cap Nat = {}
ASSUME BoundsAssumption == MaxObj \in Nat /\ MaxDepth \in Nat

Id     == 1 .. MaxObj
NoDecl == 0

BodyKind == {"record", "enum"}
DeclKind == BodyKind \cup {"constant", "typedef", "variable"}
Decl     == [kind : DeclKind, name : Name, complete : BOOLEAN, refs : SUBSET Id]
Frame    == [kind : BodyKind, name : Tag \cup Nat, refs : SUBSET Id]

VARIABLES
  heap,       \* the declaration at each address
  store,      \* who owns the address: nobody yet, a store's list, or deleted
  base,       \* the main store's map from names to declarations
  staged,     \* the staging store's map
  baseCtr,    \* name_counter of the main store
  stagedCtr,  \* name_counter of the staging store
  mode,       \* "idle", or what the running parse reads: "cdef" or "type"
  frames,     \* the record and enum bodies being parsed, innermost last
  outcome,    \* how the last parse ended, "none" while one runs
  was         \* history: the definitions the main store had when it began

vars == <<heap, store, base, staged, baseCtr, stagedCtr, mode, frames, outcome, was>>

NoMap == [n \in {} |-> NoDecl]

Bind(map, n, id) == [m \in DOMAIN map \cup {n} |-> IF m = n THEN id ELSE map[m]]

InBase      == {id \in Id : store[id] = "base"}
InStaging   == {id \in Id : store[id] = "staged"}
Completed   == {id \in InBase : heap[id].complete}
(* mutant: the staging store does not look through to the main one *)
LookupStaged(n) == IF n \in DOMAIN staged THEN staged[n] ELSE NoDecl
Lookup(n)   == IF n \in DOMAIN staged THEN staged[n]
               ELSE IF n \in DOMAIN base THEN base[n] ELSE NoDecl

(* What an address holds when no declaration lives there. *)
Blank == [kind |-> "variable", name |-> 0, complete |-> FALSE, refs |-> {}]

Init ==
  /\ heap = [id \in Id |-> Blank]
  /\ store = [id \in Id |-> "unused"]
  /\ base = NoMap /\ staged = NoMap
  /\ baseCtr = 0 /\ stagedCtr = 0
  /\ mode = "idle" /\ frames = <<>> /\ outcome = "none" /\ was = {}

-----------------------------------------------------------------------------
(***************************************************************************)
(* decl_store operations                                                   *)
(***************************************************************************)

(* add() of a name that is not declared yet: the staging store takes it. *)
AddNew(d) ==
  /\ Lookup(d.name) = NoDecl
  /\ \E id \in Id :
       /\ store[id] = "unused"
       /\ \A j \in Id : j < id => store[j] # "unused"
       /\ heap'   = [heap EXCEPT ![id] = d]
       /\ store'  = [store EXCEPT ![id] = "staged"]
       /\ staged' = Bind(staged, d.name, id)

(* add() of a variable, function or typedef whose name is taken: the new   *)
(* object is deleted and the first declaration stays, without an error.    *)
AddIgnored(d) ==
  /\ d.kind \in {"variable", "typedef"}
  /\ Lookup(d.name) # NoDecl
  /\ UNCHANGED <<heap, store, staged>>

(* request_name(): unique over the chain of stores. *)
StagedName == stagedCtr   (* mutant: only the staging store's counter *)
FreshName == stagedCtr + baseCtr

(* mutant: the list is dropped, the map is not *)
AbortKeepingMap ==
  /\ store' = [id \in Id |-> IF store[id] = "staged" THEN "deleted" ELSE store[id]]
  /\ heap' = [id \in Id |-> IF store[id] = "staged" THEN Blank ELSE heap[id]]
  /\ stagedCtr' = 0
  /\ mode' = "idle" /\ frames' = <<>> /\ outcome' = "error" /\ was' = {}
  /\ UNCHANGED <<base, baseCtr, staged>>

(* A parse error: the lex_state goes out of scope, its store is dropped. *)
Abort ==
  /\ store' = [id \in Id |-> IF store[id] = "staged" THEN "deleted" ELSE store[id]]
  /\ heap' = [id \in Id |-> IF store[id] = "staged" THEN Blank ELSE heap[id]]
  /\ staged' = NoMap
  /\ stagedCtr' = 0
  /\ mode' = "idle" /\ frames' = <<>> /\ outcome' = "error" /\ was' = {}
  /\ UNCHANGED <<base, baseCtr>>

(* Entering parse(), parse_type() or parse_number(). *)
Begin(m) ==
  /\ mode = "idle"
  /\ mode' = m
  /\ was' = Completed /\ outcome' = "none"
  /\ UNCHANGED <<heap, store, base, staged, baseCtr, stagedCtr, frames>>

(* mutant: the loop over the list stops one short *)
CommitButLast ==
  /\ mode # "idle" /\ frames = <<>>
  /\ store' = [id \in Id |->
                 IF store[id] # "staged" THEN store[id]
                 ELSE IF \E j \in InStaging : j > id THEN "base" ELSE "deleted"]
  /\ base' = [n \in DOMAIN base \cup DOMAIN staged |->
                IF n \in DOMAIN staged THEN staged[n] ELSE base[n]]
  /\ baseCtr' = baseCtr + stagedCtr
  /\ staged' = NoMap /\ stagedCtr' = 0
  /\ mode' = "idle" /\ outcome' = "ok" /\ was' = {}
  /\ UNCHANGED <<heap, frames>>

(* commit() at the end of the input. *)
Commit ==
  /\ mode # "idle" /\ frames = <<>>
  /\ store' = [id \in Id |-> IF store[id] = "staged" THEN "base" ELSE store[id]]
  /\ base' = [n \in DOMAIN base \cup DOMAIN staged |->
                IF n \in DOMAIN staged THEN staged[n] ELSE base[n]]
  /\ baseCtr' = baseCtr + stagedCtr
  /\ staged' = NoMap /\ stagedCtr' = 0
  /\ mode' = "idle" /\ outcome' = "ok" /\ was' = {}
  /\ UNCHANGED <<heap, frames>>

-----------------------------------------------------------------------------
(***************************************************************************)
(* Records and enums                                                       *)
(***************************************************************************)
KindOf(t) == IF t \in RecTags THEN "record" ELSE "enum"
Opaque(k, n) == [kind |-> k, name |-> n, complete |-> FALSE, refs |-> {}]
Parsing == mode # "idle"
Unchanging == UNCHANGED <<base, baseCtr, mode, outcome, was>>

(* `struct t` without a body, not declared so far: stored as opaque. *)
DeclareOpaque(t) ==
  /\ mode = "cdef"
  /\ AddNew(Opaque(KindOf(t), t))
  /\ Unchanging /\ UNCHANGED <<stagedCtr, frames>>

(* `struct` with neither tag nor body: an opaque declaration all the same. *)
DeclareOpaqueAnon(k) ==
  /\ Parsing
  /\ AddNew(Opaque(k, FreshName))
  /\ stagedCtr' = stagedCtr + 1
  /\ Unchanging /\ UNCHANGED frames

Open(k, n) ==
  /\ Len(frames) < MaxDepth
  /\ frames' = Append(frames, [kind |-> k, name |-> n, refs |-> {}])
  /\ Unchanging /\ UNCHANGED <<heap, store, staged>>

(* `struct t {` *)
OpenNamed(t) ==
  /\ mode = "cdef"
  /\ Open(KindOf(t), t)
  /\ UNCHANGED stagedCtr

(* `struct {`: the name is requested here, the object stored at the brace. *)
OpenAnon(k) ==
  /\ Parsing
  /\ Open(k, FreshName)
  /\ stagedCtr' = stagedCtr + 1

(* parse_type() may not declare named structs or enums. *)
NamedInType(t) ==
  /\ mode = "type"
  /\ Abort

(* The objects a type points at when it is spelled with declaration r: a   *)
(* typedef's type is copied.                                               *)
TypedefRefs(r) == {r}   (* mutant: a typedef is pointed at, not copied *)
TypeRefs(r) == IF heap[r].kind = "typedef" THEN heap[r].refs ELSE {r}
TypeDecls == {r \in InBase \cup InStaging : heap[r].kind \in BodyKind \cup {"typedef"}}

Top == frames[Len(frames)]
Pop == SubSeq(frames, 1, Len(frames) - 1)

(* A field whose type involves r (fields of builtin types add nothing). *)
AddField(r) ==
  /\ frames # <<>> /\ Top.kind = "record"
  /\ frames' = [frames EXCEPT ![Len(frames)].refs = @ \cup TypeRefs(r)]
  /\ Unchanging /\ UNCHANGED <<heap, store, staged, stagedCtr>>

(* An enumerator is stored as a constant as soon as it is read. *)
Enumerator(i) ==
  /\ frames # <<>> /\ Top.kind = "enum"
  /\ \/ /\ AddNew([kind |-> "constant", name |-> i, complete |-> TRUE, refs |-> {}])
        /\ Unchanging /\ UNCHANGED <<stagedCtr, frames>>
     \/ /\ Lookup(i) # NoDecl
        /\ Abort

(* The closing brace: the name is looked up again, since the body itself   *)
(* may have declared it.                                                   *)
CloseNew ==
  /\ frames # <<>>
  /\ AddNew([kind |-> Top.kind, name |-> Top.name, complete |-> TRUE, refs |-> Top.refs])
  /\ frames' = Pop
  /\ Unchanging /\ UNCHANGED stagedCtr

(* mutant: whatever has the name is filled in *)
CloseAny ==
  /\ frames # <<>>
  /\ LET id == Lookup(Top.name)
     IN  /\ id # NoDecl
         /\ heap' = [heap EXCEPT ![id].complete = TRUE, ![id].refs = Top.refs]
  /\ frames' = Pop
  /\ Unchanging /\ UNCHANGED <<store, staged, stagedCtr>>

(* An opaque declaration of either store is filled in where it is. *)
CloseOpaque ==
  /\ frames # <<>>
  /\ LET id == Lookup(Top.name)
     IN  /\ id # NoDecl
         /\ ~heap[id].complete
         /\ heap' = [heap EXCEPT ![id].complete = TRUE, ![id].refs = Top.refs]
  /\ frames' = Pop
  /\ Unchanging /\ UNCHANGED <<store, staged, stagedCtr>>

CloseRedefined ==
  /\ frames # <<>>
  /\ LET id == Lookup(Top.name) IN id # NoDecl /\ heap[id].complete
  /\ Abort

(* parse_decl(): a variable, function or typedef whose type involves the   *)
(* objects rs.                                                             *)
Declare(k, i, rs) ==
  /\ mode = "cdef" /\ frames = <<>>
  /\ LET d == [kind |-> k, name |-> i, complete |-> TRUE, refs |-> rs]
     IN  AddNew(d) \/ AddIgnored(d)
  /\ Unchanging /\ UNCHANGED <<stagedCtr, frames>>

(* Any other error of the lexer or the parser. *)
SyntaxError ==
  /\ Parsing
  /\ Abort

Next ==
  \/ \E m \in {"cdef", "type"} : Begin(m)
  \/ Commit
  \/ \E t \in Tag : DeclareOpaque(t) \/ OpenNamed(t) \/ NamedInType(t)
  \/ \E k \in BodyKind : DeclareOpaqueAnon(k) \/ OpenAnon(k)
  \/ \E r \in TypeDecls : AddField(r)
  \/ \E i \in Idents : Enumerator(i)
  \/ CloseNew
  \/ CloseOpaque
  \/ CloseRedefined
  \/ \E k \in {"variable", "typedef"}, i \in Idents :
        \E rs \in {{}} \cup {TypeRefs(r) : r \in TypeDecls} : Declare(k, i, rs)
  \/ SyntaxError

Spec == Init /\ [][Next]_vars

(***************************************************************************)
(* The behaviours in which a parse that has completed an opaque            *)
(* declaration of the main store runs to its end.                          *)
(***************************************************************************)
Aborting == mode # "idle" /\ mode' = "idle" /\ outcome' = "error"
CleanNext == Next /\ (Aborting => Completed = was)
CleanSpec == Init /\ [][CleanNext]_vars

-----------------------------------------------------------------------------
(* A type points only at records and enums, as long as they exist. *)
TypedRefs(rs) ==
  \A r \in rs : /\ store[r] # "unused"
                /\ store[r] # "deleted" => heap[r].kind \in BodyKind

TypeOK ==
  /\ heap \in [Id -> Decl]
  /\ store \in [Id -> {"unused", "staged", "base", "deleted"}]
  /\ DOMAIN base \subseteq Name /\ base \in [DOMAIN base -> Id]
  /\ DOMAIN staged \subseteq Name /\ staged \in [DOMAIN staged -> Id]
  /\ baseCtr \in Nat /\ stagedCtr \in Nat
  /\ mode \in {"idle", "cdef", "type"}
  /\ frames \in Seq(Frame)
  /\ outcome \in {"none", "ok", "error"}
  /\ was \subseteq Id
  /\ \A id \in Id : TypedRefs(heap[id].refs)
  /\ \A k \in DOMAIN frames : TypedRefs(frames[k].refs)

(***************************************************************************)
(* The name given to an anonymous struct or enum whose body is being       *)
(* parsed is in use nowhere: in no store, and for no enclosing body, which *)
(* is in no store either (request_name(); parser.cc asks for the name      *)
(* before the body and stores the object after it).  Otherwise the closing *)
(* brace would report a redefinition or complete somebody else's type.     *)
(***************************************************************************)
AnonFresh ==
  \A k \in DOMAIN frames :
     frames[k].name \in Nat =>
        /\ frames[k].name \notin DOMAIN base \cup DOMAIN staged
        /\ \A j \in DOMAIN frames : frames[j].name = frames[k].name => j = k

(***************************************************************************)
(* A store's list (which owns the objects) and its map (which finds them)  *)
(* agree: every name is mapped to a live object of that name in that very  *)
(* store, every owned object can be found, and no name of the main store   *)
(* is staged again (add(), commit(), drop()).                              *)
(***************************************************************************)
Agree(map, owned) ==
  /\ \A n \in DOMAIN map : map[n] \in owned /\ heap[map[n]].name = n
  /\ \A id \in owned : heap[id].name \in DOMAIN map /\ map[heap[id].name] = id

StoresAgree ==
  /\ Agree(base, InBase)
  /\ Agree(staged, InStaging)
  /\ DOMAIN base \cap DOMAIN staged = {}

(***************************************************************************)
(* The first definition always stays (tests/redef.lua): whatever is parsed *)
(* later, with or without success, a name of the main store keeps its      *)
(* object and the object its kind, and an object that is completely        *)
(* defined never changes.                                                  *)
(***************************************************************************)
DefinitionsStay ==
  \A n \in DOMAIN base :
     /\ n \in DOMAIN base' /\ base'[n] = base[n]
     /\ heap'[base[n]].kind = heap[base[n]].kind
     /\ heap[base[n]].complete => heap'[base[n]] = heap[base[n]]

FirstDefinitionStays == [][DefinitionsStay]_vars

(***************************************************************************)
(* No declaration a program can reach through the main store points at an  *)
(* object that was deleted; while a parse runs it may point at what that   *)
(* parse has staged (CloseOpaque on a declaration of the main store).      *)
(***************************************************************************)
NoDangling ==
  \A id \in InBase : \A r \in heap[id].refs : store[r] \in {"base", "staged"}

(***************************************************************************)
(* docs/api.md: when cdef raises an error, "any declarations staged during *)
(* the call will be discarded", with no partial declarations leaking       *)
(* through.  So a failed parse leaves the set of definitions of the main   *)
(* store as it was when the parse began.                                   *)
(***************************************************************************)
NoPartialDeclarations == [][Aborting => Completed' = was]_vars

(***************************************************************************)
(* What a Lua program sees between two calls is the namespace of           *)
(* Namespace, and each call changes it in one step or not at all.          *)
(***************************************************************************)
View ==
  [n \in DOMAIN base |->
     [kind |-> heap[base[n]].kind,
      complete |-> base[n] \in IF mode = "idle" THEN Completed ELSE was]]

NS == INSTANCE Namespace WITH ns <- View

ImplementsNamespace == NS!Spec
=============================================================================
