-------------------------- MODULE DeclStoreProofs --------------------------
(***************************************************************************)
(* Proofs about the declaration store, for all names, any number of        *)
(* declarations and any nesting of bodies.                                 *)
(***************************************************************************)
EXTENDS DeclStore, TLAPS

-----------------------------------------------------------------------------
(***************************************************************************)
(* Lemmas about the operators of DeclStore                                 *)
(***************************************************************************)

(* A name that is found has an address; NoDecl is none. *)
LEMMA LookupId ==
  ASSUME TypeOK, NEW n
  PROVE  /\ Lookup(n) = NoDecl \/ Lookup(n) \in Id
         /\ Lookup(n) = NoDecl => n \notin DOMAIN base \cup DOMAIN staged
BY DEF TypeOK, Lookup, Id, NoDecl

(* Every body being parsed is a frame and names typed objects. *)
LEMMA FrameAt ==
  ASSUME TypeOK, NEW k \in DOMAIN frames
  PROVE  /\ frames[k] \in Frame
         /\ frames[k].kind \in BodyKind /\ frames[k].name \in Tag \cup Nat
         /\ frames[k].refs \in SUBSET Id
         /\ TypedRefs(frames[k].refs)
<1>1. frames \in Seq(Frame) /\ TypedRefs(frames[k].refs)
  BY DEF TypeOK
<1>2. frames[k] \in Frame
  BY <1>1
<1>. QED  BY <1>1, <1>2 DEF Frame

(* Opening a body keeps the enclosing ones. *)
LEMMA PushFrame ==
  ASSUME NEW s \in Seq(Frame), NEW f \in Frame
  PROVE  /\ Append(s, f) \in Seq(Frame)
         /\ DOMAIN Append(s, f) = DOMAIN s \cup {Len(s) + 1}
         /\ Len(s) + 1 \notin DOMAIN s
         /\ \A k \in DOMAIN s : Append(s, f)[k] = s[k]
         /\ Append(s, f)[Len(s) + 1] = f
OBVIOUS

(* Closing the innermost body keeps the others. *)
LEMMA PopFrame ==
  ASSUME frames \in Seq(Frame), frames # <<>>
  PROVE  /\ Pop \in Seq(Frame)
         /\ DOMAIN Pop = DOMAIN frames \ {Len(frames)}
         /\ Len(frames) \in DOMAIN frames
         /\ Top \in Frame
         /\ \A k \in DOMAIN Pop : Pop[k] = frames[k]
BY DEF Pop, Top

(* The objects a new type points at exist and are records or enums. *)
LEMMA TypeRefsTyped ==
  ASSUME TypeOK, NEW r \in TypeDecls
  PROVE  TypeRefs(r) \subseteq Id /\ TypedRefs(TypeRefs(r))
BY DEF TypeOK, TypeDecls, TypeRefs, TypedRefs, InBase, InStaging, BodyKind, Decl

(* Storing a declaration, the one way the heap gets a new object. *)
LEMMA AddNewTypes ==
  ASSUME TypeOK, NEW d \in Decl, TypedRefs(d.refs), AddNew(d)
  PROVE  /\ heap' \in [Id -> Decl]
         /\ store' \in [Id -> {"unused", "staged", "base", "deleted"}]
         /\ DOMAIN staged' \subseteq Name /\ staged' \in [DOMAIN staged' -> Id]
         /\ \A id \in Id : TypedRefs(heap[id].refs)'
         /\ \A rs \in SUBSET Id : TypedRefs(rs) => TypedRefs(rs)'
<1>1. PICK id \in Id : /\ store[id] = "unused"
                       /\ heap'   = [heap EXCEPT ![id] = d]
                       /\ store'  = [store EXCEPT ![id] = "staged"]
                       /\ staged' = Bind(staged, d.name, id)
  BY DEF AddNew
<1>2. heap' \in [Id -> Decl]
  BY <1>1 DEF TypeOK
<1>3. store' \in [Id -> {"unused", "staged", "base", "deleted"}]
  BY <1>1 DEF TypeOK
<1>4. d.name \in Name
  BY DEF Decl
<1>5. DOMAIN staged' \subseteq Name /\ staged' \in [DOMAIN staged' -> Id]
  <2>1. DOMAIN staged \subseteq Name /\ staged \in [DOMAIN staged -> Id]
    BY DEF TypeOK
  <2>2. /\ DOMAIN Bind(staged, d.name, id) = DOMAIN staged \cup {d.name}
        /\ Bind(staged, d.name, id) \in [DOMAIN Bind(staged, d.name, id) -> Id]
    BY <1>4, <2>1 DEF Bind
  <2>. QED  BY <1>1, <1>4, <2>1, <2>2
<1>6. ASSUME NEW rs \in SUBSET Id, TypedRefs(rs)
      PROVE  TypedRefs(rs)'
  BY <1>1, <1>6 DEF TypeOK, TypedRefs
<1>7. ASSUME NEW j \in Id
      PROVE  TypedRefs(heap[j].refs)'
  <2>1. CASE j = id
    <3>1. heap'[j] = d
      BY <1>1, <2>1 DEF TypeOK
    <3>2. d.refs \in SUBSET Id
      BY DEF Decl
    <3>. QED  BY <3>1, <3>2, <1>6 DEF TypedRefs
  <2>2. CASE j # id
    <3>1. heap'[j] = heap[j] /\ heap[j].refs \in SUBSET Id /\ TypedRefs(heap[j].refs)
      BY <1>1, <2>2 DEF TypeOK, Decl
    <3>. QED  BY <3>1, <1>6 DEF TypedRefs
  <2>. QED  BY <2>1, <2>2
<1>. QED  BY <1>2, <1>3, <1>5, <1>6, <1>7

(* A parse that stores a declaration and changes nothing else is typed. *)
LEMMA AddNewTypeOK ==
  ASSUME TypeOK, NEW d \in Decl, TypedRefs(d.refs), AddNew(d),
         stagedCtr' \in Nat, frames' = frames,
         UNCHANGED <<base, baseCtr, mode, outcome, was>>
  PROVE  TypeOK'
<1>1. /\ heap' \in [Id -> Decl]
      /\ store' \in [Id -> {"unused", "staged", "base", "deleted"}]
      /\ DOMAIN staged' \subseteq Name /\ staged' \in [DOMAIN staged' -> Id]
      /\ \A id \in Id : TypedRefs(heap[id].refs)'
  BY AddNewTypes
<1>2. ASSUME NEW k \in DOMAIN frames
      PROVE  TypedRefs(frames[k].refs)'
  <2>1. frames[k].refs \in SUBSET Id /\ TypedRefs(frames[k].refs)
    BY FrameAt
  <2>2. \A rs \in SUBSET Id : TypedRefs(rs) => TypedRefs(rs)'
    BY AddNewTypes
  <2>. QED  BY <2>1, <2>2 DEF TypedRefs
<1>. QED  BY <1>1, <1>2 DEF TypeOK

-----------------------------------------------------------------------------
(***************************************************************************)
(* Types                                                                   *)
(***************************************************************************)
LEMMA TypeInit == Init => TypeOK
BY NamesAssumption
   DEF Init, TypeOK, Blank, Decl, DeclKind, Name, NoMap, Id, TypedRefs

LEMMA TypeAbort == TypeOK /\ Abort => TypeOK'
<1>. SUFFICES ASSUME TypeOK, Abort  PROVE TypeOK'
  OBVIOUS
<1>1. Blank \in Decl
  BY DEF Blank, Decl, DeclKind, Name
<1>2. heap' \in [Id -> Decl]
  BY <1>1 DEF Abort, TypeOK
<1>3. store' \in [Id -> {"unused", "staged", "base", "deleted"}]
  BY DEF Abort, TypeOK
<1>4. ASSUME NEW id \in Id
      PROVE  TypedRefs(heap[id].refs)'
  <2>1. CASE store[id] = "staged"
    BY <2>1 DEF Abort, Blank, TypedRefs
  <2>2. CASE store[id] # "staged"
    <3>1. heap'[id] = heap[id] /\ TypedRefs(heap[id].refs) /\ heap[id].refs \subseteq Id
      BY <2>2 DEF Abort, TypeOK, Decl
    <3>. QED  BY <3>1 DEF Abort, TypedRefs
  <2>. QED  BY <2>1, <2>2
<1>5. frames' \in Seq(Frame) /\ \A k \in DOMAIN frames' : TypedRefs(frames[k].refs)'
  BY DEF Abort
<1>6. DOMAIN staged' \subseteq Name /\ staged' \in [DOMAIN staged' -> Id]
  BY DEF Abort, NoMap
<1>. QED  BY <1>2, <1>3, <1>4, <1>5, <1>6 DEF Abort, TypeOK

LEMMA TypeCommit == TypeOK /\ Commit => TypeOK'
<1>. SUFFICES ASSUME TypeOK, Commit  PROVE TypeOK'
  OBVIOUS
<1>1. store' \in [Id -> {"unused", "staged", "base", "deleted"}]
  BY DEF Commit, TypeOK
<1>2. DOMAIN base' \subseteq Name /\ base' \in [DOMAIN base' -> Id]
  BY DEF Commit, TypeOK
<1>3. DOMAIN staged' \subseteq Name /\ staged' \in [DOMAIN staged' -> Id]
  BY DEF Commit, NoMap
<1>4. ASSUME NEW rs \in SUBSET Id, TypedRefs(rs)
      PROVE  TypedRefs(rs)'
  BY <1>4 DEF Commit, TypedRefs
<1>5. \A id \in Id : TypedRefs(heap[id].refs)'
  <2>1. ASSUME NEW id \in Id  PROVE TypedRefs(heap[id].refs)'
    <3>1. heap'[id] = heap[id] /\ heap[id].refs \in SUBSET Id /\ TypedRefs(heap[id].refs)
      BY DEF Commit, TypeOK, Decl
    <3>. QED  BY <3>1, <1>4 DEF TypedRefs
  <2>. QED  BY <2>1
<1>6. baseCtr' \in Nat /\ stagedCtr' \in Nat
  BY DEF Commit, TypeOK
<1>7. frames' = <<>>
  BY DEF Commit
<1>8. heap' \in [Id -> Decl]
  BY DEF Commit, TypeOK
<1>. QED  BY <1>1, <1>2, <1>3, <1>5, <1>6, <1>7, <1>8 DEF Commit, TypeOK

LEMMA TypeOpen ==
  ASSUME TypeOK, NEW k \in BodyKind, NEW n \in Tag \cup Nat, Open(k, n), stagedCtr' \in Nat
  PROVE  TypeOK'
<1>. DEFINE f == [kind |-> k, name |-> n, refs |-> {}]
<1>1. f \in Frame /\ frames \in Seq(Frame)
  BY DEF Frame, TypeOK
<1>2. frames' = Append(frames, f)
  BY DEF Open
<1>3. frames' \in Seq(Frame)
  BY <1>1, <1>2, PushFrame
<1>4. ASSUME NEW j \in DOMAIN frames'
      PROVE  TypedRefs(frames[j].refs)'
  <2>1. CASE j \in DOMAIN frames
    <3>1. frames'[j] = frames[j] /\ TypedRefs(frames[j].refs)
      BY <1>1, <1>2, <2>1, PushFrame DEF TypeOK
    <3>. QED  BY <3>1 DEF Open, TypedRefs
  <2>2. CASE j \notin DOMAIN frames
    <3>1. frames'[j] = f
      BY <1>1, <1>2, <2>2, PushFrame
    <3>. QED  BY <3>1 DEF TypedRefs
  <2>. QED  BY <2>1, <2>2
<1>5. \A id \in Id : TypedRefs(heap[id].refs)'
  BY DEF Open, TypeOK, TypedRefs
<1>. QED  BY <1>3, <1>4, <1>5 DEF Open, Unchanging, TypeOK

(* A field is added to the innermost body. *)
LEMMA TypeAddField ==
  ASSUME TypeOK, NEW r \in TypeDecls, AddField(r)
  PROVE  TypeOK'
<1>. DEFINE f == [kind |-> Top.kind, name |-> Top.name, refs |-> Top.refs \cup TypeRefs(r)]
<1>1. frames # <<>> /\ frames \in Seq(Frame) /\ Len(frames) \in DOMAIN frames
  BY PopFrame DEF AddField, TypeOK
<1>2. TypeRefs(r) \subseteq Id /\ TypedRefs(TypeRefs(r))
  BY TypeRefsTyped
<1>3. Top \in Frame /\ Top.refs \in SUBSET Id /\ TypedRefs(Top.refs)
  BY <1>1, FrameAt DEF Top
<1>4. f \in Frame /\ TypedRefs(f.refs)
  BY <1>2, <1>3 DEF Frame, TypedRefs
<1>5. frames' = [frames EXCEPT ![Len(frames)] = f]
  <2>1. [Top EXCEPT !.refs = @ \cup TypeRefs(r)] = f
    BY <1>3 DEF Frame
  <2>. QED  BY <2>1 DEF AddField, Top
<1>6. frames' \in Seq(Frame) /\ DOMAIN frames' = DOMAIN frames
  BY <1>1, <1>4, <1>5
<1>7. ASSUME NEW j \in DOMAIN frames'
      PROVE  TypedRefs(frames[j].refs)'
  <2>1. frames'[j].refs = f.refs \/ frames'[j].refs = frames[j].refs
    BY <1>1, <1>5, <1>6
  <2>2. TypedRefs(frames[j].refs)
    BY <1>6, FrameAt
  <2>. QED  BY <1>4, <2>1, <2>2 DEF AddField, TypedRefs
<1>8. \A id \in Id : TypedRefs(heap[id].refs)'
  BY DEF AddField, TypeOK, TypedRefs
<1>. QED  BY <1>6, <1>7, <1>8 DEF AddField, Unchanging, TypeOK

(* The closing brace, whichever object it fills in. *)
LEMMA PopTypes ==
  ASSUME TypeOK, frames # <<>>
  PROVE  /\ Pop \in Seq(Frame)
         /\ \A k \in DOMAIN Pop : TypedRefs(Pop[k].refs) /\ Pop[k].refs \in SUBSET Id
         /\ Top.kind \in BodyKind /\ Top.name \in Tag \cup Nat
         /\ Top.refs \in SUBSET Id /\ TypedRefs(Top.refs)
<1>1. frames \in Seq(Frame)
  BY DEF TypeOK
<1>2. Len(frames) \in DOMAIN frames
  BY <1>1, PopFrame
<1>3. /\ Top.kind \in BodyKind /\ Top.name \in Tag \cup Nat
      /\ Top.refs \in SUBSET Id /\ TypedRefs(Top.refs)
  BY <1>2, FrameAt DEF Top
<1>4. ASSUME NEW k \in DOMAIN Pop
      PROVE  TypedRefs(Pop[k].refs) /\ Pop[k].refs \in SUBSET Id
  <2>1. k \in DOMAIN frames /\ Pop[k] = frames[k]
    BY <1>1, PopFrame
  <2>. QED  BY <2>1, FrameAt
<1>. QED  BY <1>1, <1>3, <1>4, PopFrame

LEMMA TypeCloseNew == TypeOK /\ CloseNew => TypeOK'
<1>. SUFFICES ASSUME TypeOK, CloseNew  PROVE TypeOK'
  OBVIOUS
<1>. DEFINE d == [kind |-> Top.kind, name |-> Top.name, complete |-> TRUE, refs |-> Top.refs]
<1>1. frames # <<>> /\ AddNew(d) /\ frames' = Pop
  BY DEF CloseNew
<1>2. d \in Decl /\ TypedRefs(d.refs)
  BY <1>1, PopTypes DEF Decl, DeclKind, Name, Tag
<1>3. /\ heap' \in [Id -> Decl]
      /\ store' \in [Id -> {"unused", "staged", "base", "deleted"}]
      /\ DOMAIN staged' \subseteq Name /\ staged' \in [DOMAIN staged' -> Id]
      /\ \A id \in Id : TypedRefs(heap[id].refs)'
  BY <1>1, <1>2, AddNewTypes
<1>4. \A rs \in SUBSET Id : TypedRefs(rs) => TypedRefs(rs)'
  BY <1>1, <1>2, AddNewTypes
<1>5. ASSUME NEW k \in DOMAIN frames'
      PROVE  TypedRefs(frames[k].refs)'
  <2>1. TypedRefs(Pop[k].refs) /\ Pop[k].refs \in SUBSET Id
    BY <1>1, PopTypes
  <2>. QED  BY <1>1, <1>4, <2>1 DEF TypedRefs
<1>6. frames' \in Seq(Frame)
  BY <1>1, PopTypes
<1>. QED  BY <1>3, <1>5, <1>6 DEF CloseNew, Unchanging, TypeOK

LEMMA TypeCloseOpaque == TypeOK /\ CloseOpaque => TypeOK'
<1>. SUFFICES ASSUME TypeOK, CloseOpaque  PROVE TypeOK'
  OBVIOUS
<1>. DEFINE id == Lookup(Top.name)
<1>1. /\ frames # <<>> /\ id # NoDecl /\ frames' = Pop /\ UNCHANGED store
      /\ heap' = [heap EXCEPT ![id].complete = TRUE, ![id].refs = Top.refs]
  BY DEF CloseOpaque
<1>2. id \in Id
  BY <1>1, LookupId
<1>3. Top.refs \in SUBSET Id /\ TypedRefs(Top.refs) /\ Pop \in Seq(Frame)
  BY <1>1, PopTypes
<1>4. /\ heap' \in [Id -> Decl]
      /\ \A j \in Id : heap'[j].kind = heap[j].kind
      /\ \A j \in Id : heap'[j].refs = IF j = id THEN Top.refs ELSE heap[j].refs
  <2>1. heap \in [Id -> Decl] /\ heap[id] \in Decl
    BY <1>2 DEF TypeOK
  <2>2. DEFINE d == [heap[id] EXCEPT !.complete = TRUE, !.refs = Top.refs]
  <2>3. d \in Decl /\ d.kind = heap[id].kind /\ d.refs = Top.refs
    BY <1>3, <2>1 DEF Decl
  <2>4. heap' = [heap EXCEPT ![id] = d]
    BY <1>1, <1>2, <2>1 DEF Decl
  <2>. HIDE DEF d
  <2>. QED  BY <1>2, <2>1, <2>3, <2>4
<1>5. ASSUME NEW rs \in SUBSET Id, TypedRefs(rs)
      PROVE  /\ \A r \in rs : /\ store'[r] # "unused"
                              /\ store'[r] # "deleted" => heap'[r].kind \in BodyKind
  BY <1>1, <1>4, <1>5 DEF TypedRefs
<1>6. ASSUME NEW j \in Id
      PROVE  TypedRefs(heap[j].refs)'
  <2>1. heap'[j].refs \in SUBSET Id /\ TypedRefs(heap'[j].refs)
    <3>1. heap[j].refs \in SUBSET Id /\ TypedRefs(heap[j].refs)
      BY DEF TypeOK, Decl
    <3>. QED  BY <1>3, <1>4, <3>1
  <2>. QED  BY <1>5, <2>1 DEF TypedRefs
<1>7. ASSUME NEW k \in DOMAIN frames'
      PROVE  TypedRefs(frames[k].refs)'
  <2>1. TypedRefs(Pop[k].refs) /\ Pop[k].refs \in SUBSET Id
    BY <1>1, PopTypes
  <2>. QED  BY <1>1, <1>5, <2>1 DEF TypedRefs
<1>. QED  BY <1>1, <1>3, <1>4, <1>6, <1>7 DEF CloseOpaque, Unchanging, TypeOK

LEMMA TypeNext == TypeOK /\ [Next]_vars => TypeOK'
<1>. SUFFICES ASSUME TypeOK, [Next]_vars  PROVE TypeOK'
  OBVIOUS
<1>. USE DEF Unchanging
<1>fresh. FreshName \in Nat /\ stagedCtr \in Nat /\ stagedCtr + 1 \in Nat
  BY DEF FreshName, TypeOK
<1>opaque. ASSUME NEW k \in BodyKind, NEW n \in Tag \cup Nat
           PROVE  Opaque(k, n) \in Decl /\ TypedRefs(Opaque(k, n).refs)
  BY DEF Opaque, Decl, DeclKind, Name, TypedRefs
<1>1. ASSUME NEW m \in {"cdef", "type"}, Begin(m)  PROVE TypeOK'
  BY <1>1 DEF Begin, Completed, InBase, TypeOK, TypedRefs
<1>2. CASE Commit
  BY <1>2, TypeCommit
<1>3. ASSUME NEW t \in Tag, DeclareOpaque(t)  PROVE TypeOK'
  <2>1. KindOf(t) \in BodyKind
    BY DEF KindOf, BodyKind
  <2>. QED  BY <1>3, <1>fresh, <1>opaque, <2>1, AddNewTypeOK DEF DeclareOpaque
<1>4. ASSUME NEW t \in Tag, OpenNamed(t)  PROVE TypeOK'
  <2>1. KindOf(t) \in BodyKind
    BY DEF KindOf, BodyKind
  <2>. QED  BY <1>4, <1>fresh, <2>1, TypeOpen DEF OpenNamed
<1>5. ASSUME NEW t \in Tag, NamedInType(t)  PROVE TypeOK'
  BY <1>5, TypeAbort DEF NamedInType
<1>6. ASSUME NEW k \in BodyKind, DeclareOpaqueAnon(k)  PROVE TypeOK'
  BY <1>6, <1>fresh, <1>opaque, AddNewTypeOK DEF DeclareOpaqueAnon
<1>7. ASSUME NEW k \in BodyKind, OpenAnon(k)  PROVE TypeOK'
  BY <1>7, <1>fresh, TypeOpen DEF OpenAnon
<1>8. ASSUME NEW r \in TypeDecls, AddField(r)  PROVE TypeOK'
  BY <1>8, TypeAddField
<1>9. ASSUME NEW i \in Idents, Enumerator(i)  PROVE TypeOK'
  <2>. DEFINE d == [kind |-> "constant", name |-> i, complete |-> TRUE, refs |-> {}]
  <2>1. d \in Decl /\ TypedRefs(d.refs)
    BY DEF Decl, DeclKind, Name, TypedRefs
  <2>2. CASE AddNew(d) /\ Unchanging /\ UNCHANGED <<stagedCtr, frames>>
    BY <1>fresh, <2>1, <2>2, AddNewTypeOK
  <2>3. CASE Abort
    BY <2>3, TypeAbort
  <2>. QED  BY <1>9, <2>2, <2>3 DEF Enumerator
<1>10. CASE CloseNew
  BY <1>10, TypeCloseNew
<1>11. CASE CloseOpaque
  BY <1>11, TypeCloseOpaque
<1>12. CASE CloseRedefined
  BY <1>12, TypeAbort DEF CloseRedefined
<1>13. ASSUME NEW k \in {"variable", "typedef"}, NEW i \in Idents,
              NEW rs \in {{}} \cup {TypeRefs(r) : r \in TypeDecls}, Declare(k, i, rs)
       PROVE  TypeOK'
  <2>. DEFINE d == [kind |-> k, name |-> i, complete |-> TRUE, refs |-> rs]
  <2>1. rs \in SUBSET Id /\ TypedRefs(rs)
    BY TypeRefsTyped DEF TypedRefs
  <2>2. d \in Decl /\ TypedRefs(d.refs)
    BY <2>1 DEF Decl, DeclKind, Name
  <2>3. CASE AddNew(d)
    BY <1>13, <1>fresh, <2>2, <2>3, AddNewTypeOK DEF Declare
  <2>4. CASE AddIgnored(d)
    BY <1>13, <2>4 DEF AddIgnored, Declare, TypeOK, TypedRefs
  <2>. QED  BY <1>13, <2>3, <2>4 DEF Declare
<1>14. CASE SyntaxError
  BY <1>14, TypeAbort DEF SyntaxError
<1>15. CASE UNCHANGED vars
  BY <1>15 DEF vars, TypeOK, TypedRefs
<1>. QED
  BY <1>1, <1>2, <1>3, <1>4, <1>5, <1>6, <1>7, <1>8, <1>9, <1>10, <1>11, <1>12,
     <1>13, <1>14, <1>15 DEF Next

(***************************************************************************)
(* TypeOK is an invariant: in particular, a type only ever points at       *)
(* structs, unions and enums that existed, never at a variable or at an    *)
(* address nothing was stored at (c_type in ast.hh).                       *)
(***************************************************************************)
THEOREM TypeCorrect == Spec => []TypeOK
<1>1. Init => TypeOK
  BY TypeInit
<1>2. TypeOK /\ [Next]_vars => TypeOK'
  BY TypeNext
<1>. QED  BY <1>1, <1>2, PTL DEF Spec

-----------------------------------------------------------------------------
(***************************************************************************)
(* Names of anonymous types                                                *)
(***************************************************************************)

(* AnonFresh is not inductive: it says nothing of the names that will be   *)
(* requested next.  Every number in use is below the sum of the counters.  *)
AnonInv ==
  /\ \A n \in DOMAIN base \cap Nat : n < baseCtr
  /\ \A n \in DOMAIN staged \cap Nat : n < FreshName
  /\ \A k \in DOMAIN frames : frames[k].name \in Nat => frames[k].name < FreshName
  /\ AnonFresh

(* What storing a declaration adds to the staging map. *)
LEMMA AddNewMap ==
  ASSUME TypeOK, NEW d \in Decl, AddNew(d)
  PROVE  /\ DOMAIN staged' = DOMAIN staged \cup {d.name}
         /\ d.name \notin DOMAIN base \cup DOMAIN staged
<1>1. Lookup(d.name) = NoDecl
  BY DEF AddNew
<1>2. d.name \notin DOMAIN base \cup DOMAIN staged
  BY <1>1, LookupId
<1>. QED  BY <1>2 DEF AddNew, Bind

(* A stored name that is no number, or a number just requested, is nobody  *)
(* else's.                                                                 *)
LEMMA AnonAddNew ==
  ASSUME TypeOK, AnonInv, NEW d \in Decl, AddNew(d), frames' = frames,
         UNCHANGED <<base, baseCtr>>,
         \/ d.name \notin Nat /\ stagedCtr' = stagedCtr
         \/ d.name = FreshName /\ stagedCtr' = stagedCtr + 1
  PROVE  AnonInv'
<1>1. /\ DOMAIN staged' = DOMAIN staged \cup {d.name}
      /\ baseCtr \in Nat /\ stagedCtr \in Nat
  BY AddNewMap DEF TypeOK
<1>. QED  BY <1>1 DEF AnonInv, AnonFresh, FreshName

LEMMA AnonOpen ==
  ASSUME TypeOK, AnonInv, NEW k \in BodyKind, NEW n \in Tag \cup Nat, Open(k, n),
         \/ n \notin Nat /\ stagedCtr' = stagedCtr
         \/ n = FreshName /\ stagedCtr' = stagedCtr + 1
  PROVE  AnonInv'
<1>. DEFINE f == [kind |-> k, name |-> n, refs |-> {}]
<1>1. f \in Frame /\ frames \in Seq(Frame) /\ baseCtr \in Nat /\ stagedCtr \in Nat
  BY DEF Frame, TypeOK
<1>2. frames' = Append(frames, f) /\ UNCHANGED <<base, baseCtr, staged>>
  BY DEF Open, Unchanging
<1>3. /\ DOMAIN frames' = DOMAIN frames \cup {Len(frames) + 1}
      /\ Len(frames) + 1 \notin DOMAIN frames
      /\ \A j \in DOMAIN frames : frames'[j].name = frames[j].name
      /\ frames'[Len(frames) + 1].name = n
  BY <1>1, <1>2, PushFrame
<1>4. /\ \A m \in DOMAIN base \cap Nat : m < FreshName
      /\ \A m \in DOMAIN staged \cap Nat : m < FreshName
      /\ \A j \in DOMAIN frames : frames[j].name \in Nat => frames[j].name < FreshName
  BY <1>1 DEF AnonInv, FreshName
<1>5. AnonFresh'
  BY <1>1, <1>2, <1>3, <1>4 DEF AnonInv, AnonFresh, FreshName
<1>6. FreshName' \in Nat /\ FreshName' >= FreshName /\ (n \in Nat => n < FreshName')
  BY <1>1, <1>2 DEF FreshName
<1>7. \A j \in DOMAIN frames' : frames'[j].name \in Nat => frames'[j].name < FreshName'
  BY <1>1, <1>3, <1>4, <1>6 DEF FreshName
<1>. QED  BY <1>1, <1>2, <1>4, <1>5, <1>6, <1>7 DEF AnonInv, FreshName

LEMMA AnonAbort == AnonInv /\ Abort => AnonInv'
BY DEF AnonInv, AnonFresh, Abort, NoMap

LEMMA AnonCommit == TypeOK /\ AnonInv /\ Commit => AnonInv'
<1>. SUFFICES ASSUME TypeOK, AnonInv, Commit  PROVE AnonInv'
  OBVIOUS
<1>1. baseCtr \in Nat /\ stagedCtr \in Nat
  BY DEF TypeOK
<1>2. DOMAIN base' = DOMAIN base \cup DOMAIN staged /\ DOMAIN staged' = {}
      /\ frames' = <<>> /\ baseCtr' = FreshName
  BY <1>1 DEF Commit, NoMap, FreshName
<1>. QED  BY <1>1, <1>2 DEF AnonInv, AnonFresh, FreshName

(* Closing a body: its name leaves frames, and may enter the staging map.  *)
LEMMA AnonClose ==
  ASSUME TypeOK, AnonInv, frames # <<>>, frames' = Pop,
         UNCHANGED <<base, baseCtr, stagedCtr>>,
         DOMAIN staged' \subseteq DOMAIN staged \cup {Top.name}
  PROVE  AnonInv'
<1>1. /\ DOMAIN Pop = DOMAIN frames \ {Len(frames)}
      /\ Len(frames) \in DOMAIN frames
      /\ \A k \in DOMAIN Pop : Pop[k] = frames[k]
  BY PopFrame DEF TypeOK
<1>2. Top = frames[Len(frames)]
  BY DEF Top
<1>. QED  BY <1>1, <1>2 DEF AnonInv, AnonFresh, FreshName

LEMMA AnonNext == TypeOK /\ AnonInv /\ [Next]_vars => AnonInv'
<1>. SUFFICES ASSUME TypeOK, AnonInv, [Next]_vars  PROVE AnonInv'
  OBVIOUS
<1>fresh. FreshName \in Nat
  BY DEF FreshName, TypeOK
<1>tag. /\ \A t \in Tag \cup Idents : t \notin Nat
        /\ \A t \in Tag : KindOf(t) \in BodyKind
  BY NamesAssumption DEF KindOf, BodyKind
<1>opaque. ASSUME NEW k \in BodyKind, NEW n \in Tag \cup Nat
           PROVE  Opaque(k, n) \in Decl /\ Opaque(k, n).name = n
  BY DEF Opaque, Decl, DeclKind, Name
<1>1. ASSUME NEW m \in {"cdef", "type"}, Begin(m)  PROVE AnonInv'
  BY <1>1 DEF Begin, AnonInv, AnonFresh, FreshName
<1>2. CASE Commit
  BY <1>2, AnonCommit
<1>3. ASSUME NEW t \in Tag, DeclareOpaque(t)  PROVE AnonInv'
  BY <1>3, <1>tag, <1>opaque, AnonAddNew DEF DeclareOpaque, Unchanging
<1>4. ASSUME NEW t \in Tag, OpenNamed(t)  PROVE AnonInv'
  BY <1>4, <1>tag, AnonOpen DEF OpenNamed
<1>5. ASSUME NEW t \in Tag, NamedInType(t)  PROVE AnonInv'
  BY <1>5, AnonAbort DEF NamedInType
<1>6. ASSUME NEW k \in BodyKind, DeclareOpaqueAnon(k)  PROVE AnonInv'
  BY <1>6, <1>fresh, <1>opaque, AnonAddNew DEF DeclareOpaqueAnon, Unchanging
<1>7. ASSUME NEW k \in BodyKind, OpenAnon(k)  PROVE AnonInv'
  BY <1>7, <1>fresh, AnonOpen DEF OpenAnon
<1>8. ASSUME NEW r \in TypeDecls, AddField(r)  PROVE AnonInv'
  <2>1. frames \in Seq(Frame) /\ Len(frames) \in DOMAIN frames
    BY <1>8, PopFrame DEF AddField, TypeOK
  <2>2. /\ DOMAIN frames' = DOMAIN frames
        /\ \A k \in DOMAIN frames : frames'[k].name = frames[k].name
    <3>1. \A k \in DOMAIN frames : frames[k] \in Frame
      BY FrameAt
    <3>. QED  BY <1>8, <2>1, <3>1 DEF AddField, Frame
  <2>. QED  BY <1>8, <2>2 DEF AddField, Unchanging, AnonInv, AnonFresh, FreshName
<1>9. ASSUME NEW i \in Idents, Enumerator(i)  PROVE AnonInv'
  <2>. DEFINE d == [kind |-> "constant", name |-> i, complete |-> TRUE, refs |-> {}]
  <2>1. d \in Decl /\ d.name \notin Nat
    BY <1>tag DEF Decl, DeclKind, Name
  <2>2. CASE AddNew(d) /\ Unchanging /\ UNCHANGED <<stagedCtr, frames>>
    BY <2>1, <2>2, AnonAddNew DEF Unchanging
  <2>3. CASE Abort
    BY <2>3, AnonAbort
  <2>. QED  BY <1>9, <2>2, <2>3 DEF Enumerator
<1>10. CASE CloseNew
  <2>. DEFINE d == [kind |-> Top.kind, name |-> Top.name, complete |-> TRUE, refs |-> Top.refs]
  <2>1. d \in Decl
    BY <1>10, PopTypes DEF CloseNew, Decl, DeclKind, Name, Tag
  <2>2. DOMAIN staged' = DOMAIN staged \cup {Top.name}
    BY <1>10, <2>1, AddNewMap DEF CloseNew
  <2>. QED  BY <1>10, <2>2, AnonClose DEF CloseNew, Unchanging
<1>11. CASE CloseOpaque
  BY <1>11, AnonClose DEF CloseOpaque, Unchanging
<1>12. CASE CloseRedefined
  BY <1>12, AnonAbort DEF CloseRedefined
<1>13. ASSUME NEW k \in {"variable", "typedef"}, NEW i \in Idents,
              NEW rs \in {{}} \cup {TypeRefs(r) : r \in TypeDecls}, Declare(k, i, rs)
       PROVE  AnonInv'
  <2>. DEFINE d == [kind |-> k, name |-> i, complete |-> TRUE, refs |-> rs]
  <2>1. d \in Decl /\ d.name \notin Nat
    BY <1>tag, TypeRefsTyped DEF Decl, DeclKind, Name
  <2>2. CASE AddNew(d)
    BY <1>13, <2>1, <2>2, AnonAddNew DEF Declare, Unchanging
  <2>3. CASE AddIgnored(d)
    BY <1>13, <2>3 DEF AddIgnored, Declare, Unchanging, AnonInv, AnonFresh, FreshName
  <2>. QED  BY <1>13, <2>2, <2>3 DEF Declare
<1>14. CASE SyntaxError
  BY <1>14, AnonAbort DEF SyntaxError
<1>15. CASE UNCHANGED vars
  BY <1>15 DEF vars, AnonInv, AnonFresh, FreshName
<1>. QED
  BY <1>1, <1>2, <1>3, <1>4, <1>5, <1>6, <1>7, <1>8, <1>9, <1>10, <1>11, <1>12,
     <1>13, <1>14, <1>15 DEF Next

(***************************************************************************)
(* AnonFresh for any nesting and any number of committed and failed        *)
(* parses: request_name() never gives out a name that a store or an        *)
(* enclosing body still being parsed uses.                                 *)
(***************************************************************************)
THEOREM AnonymousNamesFresh == Spec => []AnonFresh
<1>1. Init => TypeOK /\ AnonInv
  BY TypeInit DEF Init, AnonInv, AnonFresh, NoMap
<1>2. TypeOK /\ AnonInv /\ [Next]_vars => (TypeOK /\ AnonInv)'
  BY TypeNext, AnonNext
<1>3. AnonInv => AnonFresh
  BY DEF AnonInv
<1>. QED  BY <1>1, <1>2, <1>3, PTL DEF Spec

-----------------------------------------------------------------------------
(***************************************************************************)
(* The lists and the maps                                                  *)
(***************************************************************************)

(* Storing a new declaration keeps the lists and the maps in agreement. *)
LEMMA AgreeAddNew ==
  ASSUME TypeOK, StoresAgree, NEW d \in Decl, AddNew(d), UNCHANGED base
  PROVE  StoresAgree' /\ DefinitionsStay
<1>1. PICK id \in Id : /\ store[id] = "unused"
                       /\ heap'   = [heap EXCEPT ![id] = d]
                       /\ store'  = [store EXCEPT ![id] = "staged"]
                       /\ staged' = Bind(staged, d.name, id)
  BY DEF AddNew
<1>2. d.name \notin DOMAIN base \cup DOMAIN staged
  BY AddNewMap
<1>3. /\ InBase' = InBase /\ InStaging' = InStaging \cup {id}
      /\ id \notin InBase \cup InStaging
      /\ heap'[id] = d
      /\ \A j \in Id \ {id} : heap'[j] = heap[j]
  BY <1>1 DEF TypeOK, InBase, InStaging
<1>4. /\ DOMAIN staged' = DOMAIN staged \cup {d.name}
      /\ staged'[d.name] = id
      /\ \A n \in DOMAIN staged : staged'[n] = staged[n]
  BY <1>1, <1>2 DEF Bind
<1>5. Agree(base, InBase)'
  <2>1. Agree(base, InBase) /\ InBase \subseteq Id \ {id}
    BY <1>3 DEF StoresAgree, InBase
  <2>. QED  BY <1>3, <2>1 DEF Agree
<1>6. Agree(staged, InStaging)'
  <2>1. Agree(staged, InStaging) /\ InStaging \subseteq Id \ {id}
    BY <1>3 DEF StoresAgree, InStaging
  <2>. QED  BY <1>2, <1>3, <1>4, <2>1 DEF Agree
<1>7. DOMAIN base' \cap DOMAIN staged' = {}
  BY <1>2, <1>4 DEF StoresAgree
<1>8. DefinitionsStay
  BY <1>3 DEF DefinitionsStay, StoresAgree, Agree, InBase
<1>. QED  BY <1>5, <1>6, <1>7, <1>8 DEF StoresAgree

LEMMA AgreeAbort ==
  ASSUME TypeOK, StoresAgree, Abort
  PROVE  StoresAgree' /\ DefinitionsStay
<1>1. /\ InBase' = InBase /\ InStaging' = {}
      /\ \A id \in InBase : heap'[id] = heap[id]
      /\ base' = base /\ DOMAIN staged' = {}
  BY DEF Abort, TypeOK, InBase, InStaging, NoMap
<1>. QED  BY <1>1 DEF StoresAgree, Agree, DefinitionsStay

LEMMA AgreeCommit ==
  ASSUME TypeOK, StoresAgree, Commit
  PROVE  StoresAgree' /\ DefinitionsStay
<1>1. /\ InBase' = InBase \cup InStaging /\ InStaging' = {}
      /\ heap' = heap /\ DOMAIN staged' = {}
  BY DEF Commit, TypeOK, InBase, InStaging, NoMap
<1>2. /\ DOMAIN base' = DOMAIN base \cup DOMAIN staged
      /\ \A n \in DOMAIN base : base'[n] = base[n]
      /\ \A n \in DOMAIN staged : base'[n] = staged[n]
  BY DEF Commit, StoresAgree
<1>3. Agree(base, InBase)'
  BY <1>1, <1>2 DEF StoresAgree, Agree
<1>. QED  BY <1>1, <1>2, <1>3 DEF StoresAgree, Agree, DefinitionsStay

LEMMA AgreeCloseOpaque ==
  ASSUME TypeOK, StoresAgree, CloseOpaque
  PROVE  StoresAgree' /\ DefinitionsStay
<1>. DEFINE id == Lookup(Top.name)
<1>1. /\ id \in Id /\ ~heap[id].complete
      /\ UNCHANGED <<store, staged, base>>
      /\ heap' = [heap EXCEPT ![id].complete = TRUE, ![id].refs = Top.refs]
  BY LookupId DEF CloseOpaque, Unchanging
<1>2. /\ \A j \in Id : heap'[j].name = heap[j].name /\ heap'[j].kind = heap[j].kind
      /\ \A j \in Id : j # id => heap'[j] = heap[j]
  BY <1>1 DEF TypeOK, Decl
<1>3. InBase' = InBase /\ InStaging' = InStaging
  BY <1>1 DEF InBase, InStaging
<1>4. StoresAgree'
  <2>1. InBase \subseteq Id /\ InStaging \subseteq Id
    BY DEF InBase, InStaging
  <2>2. \A j \in Id : heap'[j].name = heap[j].name
    BY <1>2
  <2>3. base' = base /\ staged' = staged
    BY <1>1
  <2>4. Agree(base, InBase)'
    BY <1>3, <2>1, <2>2, <2>3 DEF StoresAgree, Agree
  <2>5. Agree(staged, InStaging)'
    BY <1>3, <2>1, <2>2, <2>3 DEF StoresAgree, Agree
  <2>. QED  BY <2>3, <2>4, <2>5 DEF StoresAgree
<1>5. DefinitionsStay
  BY <1>1, <1>2 DEF DefinitionsStay, TypeOK
<1>. QED  BY <1>4, <1>5

(* Steps that touch neither the heap nor a store. *)
LEMMA AgreeUnchanged ==
  ASSUME StoresAgree, UNCHANGED <<heap, store, base, staged>>
  PROVE  StoresAgree' /\ DefinitionsStay
BY DEF StoresAgree, Agree, InBase, InStaging, DefinitionsStay

LEMMA AgreeNext == TypeOK /\ StoresAgree /\ [Next]_vars => StoresAgree' /\ DefinitionsStay
<1>. SUFFICES ASSUME TypeOK, StoresAgree, [Next]_vars  PROVE StoresAgree' /\ DefinitionsStay
  OBVIOUS
<1>. USE DEF Unchanging
<1>fresh. FreshName \in Nat
  BY DEF FreshName, TypeOK
<1>opaque. ASSUME NEW k \in BodyKind, NEW n \in Tag \cup Nat
           PROVE  Opaque(k, n) \in Decl
  BY DEF Opaque, Decl, DeclKind, Name
<1>1. ASSUME NEW m \in {"cdef", "type"}, Begin(m)  PROVE StoresAgree' /\ DefinitionsStay
  BY <1>1, AgreeUnchanged DEF Begin
<1>2. CASE Commit
  BY <1>2, AgreeCommit
<1>3. ASSUME NEW t \in Tag, DeclareOpaque(t)  PROVE StoresAgree' /\ DefinitionsStay
  <2>1. Opaque(KindOf(t), t) \in Decl
    BY <1>opaque DEF KindOf, BodyKind
  <2>. QED  BY <1>3, <2>1, AgreeAddNew DEF DeclareOpaque
<1>4. ASSUME NEW t \in Tag, OpenNamed(t)  PROVE StoresAgree' /\ DefinitionsStay
  BY <1>4, AgreeUnchanged DEF OpenNamed, Open
<1>5. ASSUME NEW t \in Tag, NamedInType(t)  PROVE StoresAgree' /\ DefinitionsStay
  BY <1>5, AgreeAbort DEF NamedInType
<1>6. ASSUME NEW k \in BodyKind, DeclareOpaqueAnon(k)  PROVE StoresAgree' /\ DefinitionsStay
  BY <1>6, <1>fresh, <1>opaque, AgreeAddNew DEF DeclareOpaqueAnon
<1>7. ASSUME NEW k \in BodyKind, OpenAnon(k)  PROVE StoresAgree' /\ DefinitionsStay
  BY <1>7, AgreeUnchanged DEF OpenAnon, Open
<1>8. ASSUME NEW r \in TypeDecls, AddField(r)  PROVE StoresAgree' /\ DefinitionsStay
  BY <1>8, AgreeUnchanged DEF AddField
<1>9. ASSUME NEW i \in Idents, Enumerator(i)  PROVE StoresAgree' /\ DefinitionsStay
  <2>1. [kind |-> "constant", name |-> i, complete |-> TRUE, refs |-> {}] \in Decl
    BY DEF Decl, DeclKind, Name
  <2>. QED  BY <1>9, <2>1, AgreeAddNew, AgreeAbort DEF Enumerator
<1>10. CASE CloseNew
  <2>1. [kind |-> Top.kind, name |-> Top.name, complete |-> TRUE, refs |-> Top.refs] \in Decl
    BY <1>10, PopTypes DEF CloseNew, Decl, DeclKind, Name, Tag
  <2>. QED  BY <1>10, <2>1, AgreeAddNew DEF CloseNew
<1>11. CASE CloseOpaque
  BY <1>11, AgreeCloseOpaque
<1>12. CASE CloseRedefined
  BY <1>12, AgreeAbort DEF CloseRedefined
<1>13. ASSUME NEW k \in {"variable", "typedef"}, NEW i \in Idents,
              NEW rs \in {{}} \cup {TypeRefs(r) : r \in TypeDecls}, Declare(k, i, rs)
       PROVE  StoresAgree' /\ DefinitionsStay
  <2>. DEFINE d == [kind |-> k, name |-> i, complete |-> TRUE, refs |-> rs]
  <2>1. d \in Decl
    BY TypeRefsTyped DEF Decl, DeclKind, Name
  <2>2. CASE AddNew(d)
    BY <1>13, <2>1, <2>2, AgreeAddNew DEF Declare
  <2>3. CASE AddIgnored(d)
    BY <1>13, <2>3, AgreeUnchanged DEF AddIgnored, Declare
  <2>. QED  BY <1>13, <2>2, <2>3 DEF Declare
<1>14. CASE SyntaxError
  BY <1>14, AgreeAbort DEF SyntaxError
<1>15. CASE UNCHANGED vars
  BY <1>15, AgreeUnchanged DEF vars
<1>. QED
  BY <1>1, <1>2, <1>3, <1>4, <1>5, <1>6, <1>7, <1>8, <1>9, <1>10, <1>11, <1>12,
     <1>13, <1>14, <1>15 DEF Next

(***************************************************************************)
(* StoresAgree is an invariant: every name of a store finds a live object  *)
(* of that name, and every object a store owns can be found, through any   *)
(* sequence of commits and failed parses.                                  *)
(***************************************************************************)
THEOREM StoresAlwaysAgree == Spec => []StoresAgree
<1>1. Init => StoresAgree
  BY DEF Init, StoresAgree, Agree, InBase, InStaging, NoMap
<1>2. TypeOK /\ StoresAgree /\ [Next]_vars => StoresAgree'
  BY AgreeNext
<1>. QED  BY <1>1, <1>2, TypeCorrect, PTL DEF Spec

(***************************************************************************)
(* FirstDefinitionStays: whatever later parses do, a declared name keeps   *)
(* its object and a complete definition never changes (tests/redef.lua).   *)
(***************************************************************************)
THEOREM FirstDefinitionAlwaysStays == Spec => FirstDefinitionStays
<1>1. TypeOK /\ StoresAgree /\ [Next]_vars => [DefinitionsStay]_vars
  BY AgreeNext
<1>. QED  BY <1>1, TypeCorrect, StoresAlwaysAgree, PTL DEF Spec, FirstDefinitionStays

-----------------------------------------------------------------------------
(***************************************************************************)
(* Pointers between declarations                                           *)
(***************************************************************************)
Live == InBase \cup InStaging

(* What keeps pointers from dangling when a parse that completed an opaque *)
(* declaration of the main store is not aborted: everything points at live *)
(* objects, and the definitions the main store had when the parse began    *)
(* point at objects of the main store.                                     *)
CleanInv ==
  /\ mode = "idle" => InStaging = {} /\ frames = <<>>
  /\ mode # "idle" => outcome = "none"
  /\ \A id \in Live : heap[id].refs \subseteq Live
  /\ \A k \in DOMAIN frames : frames[k].refs \subseteq Live
  /\ mode # "idle" => was \subseteq Completed
  /\ mode # "idle" => \A id \in was : heap[id].refs \subseteq InBase
  /\ \A id \in Live : ~heap[id].complete => heap[id].refs = {}

LEMMA CleanAddNew ==
  ASSUME TypeOK, CleanInv, mode # "idle", NEW d \in Decl, AddNew(d),
         d.refs \subseteq Live, ~d.complete => d.refs = {},
         UNCHANGED <<mode, outcome, was>>,
         \A k \in DOMAIN frames' : frames'[k].refs \subseteq Live
  PROVE  CleanInv'
<1>1. PICK id \in Id : /\ store[id] = "unused"
                       /\ heap'   = [heap EXCEPT ![id] = d]
                       /\ store'  = [store EXCEPT ![id] = "staged"]
  BY DEF AddNew
<1>2. /\ InBase' = InBase /\ InStaging' = InStaging \cup {id}
      /\ Live' = Live \cup {id} /\ id \notin Live /\ Live \subseteq Id
      /\ heap'[id] = d
      /\ \A j \in Live : heap'[j] = heap[j]
  BY <1>1 DEF TypeOK, InBase, InStaging, Live
<1>3. Completed' = Completed
  BY <1>2 DEF Completed, Live
<1>4. \A j \in Live' : heap'[j].refs \subseteq Live'
  BY <1>2 DEF CleanInv
<1>5. \A j \in Live' : ~heap'[j].complete => heap'[j].refs = {}
  BY <1>2 DEF CleanInv
<1>6. \A j \in was' : heap'[j].refs \subseteq InBase'
  BY <1>2 DEF CleanInv, Completed, Live
<1>. QED  BY <1>2, <1>3, <1>4, <1>5, <1>6 DEF CleanInv

(* A failed parse that has not touched the definitions of the main store. *)
LEMMA CleanAbort ==
  ASSUME TypeOK, CleanInv, mode # "idle", Abort, Completed = was
  PROVE  CleanInv'
<1>1. /\ InBase' = InBase /\ InStaging' = {} /\ Live' = InBase
      /\ \A id \in InBase : heap'[id] = heap[id]
      /\ frames' = <<>> /\ mode' = "idle"
  BY DEF Abort, TypeOK, InBase, InStaging, Live
<1>2. ASSUME NEW id \in InBase
      PROVE  heap[id].refs \subseteq InBase
  BY DEF CleanInv, Completed, Live
<1>. QED  BY <1>1, <1>2 DEF CleanInv, Live

LEMMA CleanCommit ==
  ASSUME TypeOK, CleanInv, Commit
  PROVE  CleanInv'
<1>1. /\ InBase' = Live /\ InStaging' = {} /\ Live' = Live
      /\ heap' = heap /\ frames' = <<>> /\ mode' = "idle"
  BY DEF Commit, TypeOK, InBase, InStaging, Live
<1>. QED  BY <1>1 DEF CleanInv

LEMMA CleanCloseOpaque ==
  ASSUME TypeOK, StoresAgree, CleanInv, CloseOpaque
  PROVE  CleanInv'
<1>. DEFINE id == Lookup(Top.name)
<1>1. /\ frames # <<>> /\ frames' = Pop /\ id \in Id /\ ~heap[id].complete
      /\ UNCHANGED <<store, base, mode, outcome, was>>
      /\ heap' = [heap EXCEPT ![id].complete = TRUE, ![id].refs = Top.refs]
  BY LookupId DEF CloseOpaque, Unchanging
<1>2. /\ Len(frames) \in DOMAIN frames
      /\ \A k \in DOMAIN Pop : k \in DOMAIN frames /\ Pop[k] = frames[k]
  BY <1>1, PopFrame DEF TypeOK
<1>3. /\ mode # "idle"
      /\ Top.refs \subseteq Live
      /\ \A k \in DOMAIN frames' : frames'[k].refs \subseteq Live
  BY <1>1, <1>2 DEF CleanInv, Top
<1>4. /\ \A j \in Id : j # id => heap'[j] = heap[j]
      /\ heap'[id].refs = Top.refs /\ heap'[id].complete
  BY <1>1 DEF TypeOK, Decl
<1>5. InBase' = InBase /\ InStaging' = InStaging /\ Live' = Live /\ Live \subseteq Id
  BY <1>1 DEF InBase, InStaging, Live
<1>6. id \notin was
  BY <1>1, <1>3 DEF CleanInv, Completed
<1>7. Completed \subseteq Completed'
  BY <1>4, <1>5 DEF Completed, InBase
<1>8. \A j \in Live' : /\ heap'[j].refs \subseteq Live'
                       /\ ~heap'[j].complete => heap'[j].refs = {}
  BY <1>3, <1>4, <1>5 DEF CleanInv
<1>9. \A j \in was' : heap'[j].refs \subseteq InBase'
  BY <1>1, <1>3, <1>4, <1>5, <1>6 DEF CleanInv, Completed, InBase
<1>. QED  BY <1>1, <1>3, <1>5, <1>7, <1>8, <1>9 DEF CleanInv

(* Steps that leave heap and store alone. *)
LEMMA CleanFrames ==
  ASSUME CleanInv, mode # "idle", UNCHANGED <<heap, store, mode, outcome, was>>,
         \A k \in DOMAIN frames' : frames'[k].refs \subseteq Live
  PROVE  CleanInv'
BY DEF CleanInv, Live, Completed, InBase, InStaging

(* A type is spelled with live declarations and points at live ones. *)
LEMMA TypeRefsLive ==
  ASSUME CleanInv, NEW r \in TypeDecls
  PROVE  TypeRefs(r) \subseteq Live
BY DEF CleanInv, TypeDecls, TypeRefs, Live

LEMMA CleanStep ==
  TypeOK /\ StoresAgree /\ CleanInv /\ [CleanNext]_vars => CleanInv'
<1>. SUFFICES ASSUME TypeOK, StoresAgree, CleanInv, [CleanNext]_vars
              PROVE  CleanInv'
  OBVIOUS
<1>. USE DEF Unchanging
<1>fresh. FreshName \in Nat
  BY DEF FreshName, TypeOK
<1>live. \A k \in DOMAIN frames : frames[k].refs \subseteq Live
  BY DEF CleanInv
<1>idle. frames # <<>> => mode # "idle"
  BY DEF CleanInv
<1>opaque. ASSUME NEW k \in BodyKind, NEW n \in Tag \cup Nat
           PROVE  /\ Opaque(k, n) \in Decl /\ Opaque(k, n).refs \subseteq Live
                  /\ Opaque(k, n).refs = {}
  BY DEF Opaque, Decl, DeclKind, Name
<1>abort. ASSUME Abort, mode # "idle", CleanNext  PROVE CleanInv'
  BY <1>abort, CleanAbort DEF CleanNext, Aborting, Abort
<1>1. ASSUME NEW m \in {"cdef", "type"}, Begin(m)  PROVE CleanInv'
  BY <1>1 DEF Begin, CleanInv, Live, Completed, InBase, InStaging
<1>2. CASE Commit
  BY <1>2, CleanCommit
<1>3. ASSUME NEW t \in Tag, DeclareOpaque(t)  PROVE CleanInv'
  <2>1. KindOf(t) \in BodyKind
    BY DEF KindOf, BodyKind
  <2>. QED  BY <1>3, <1>live, <1>opaque, <2>1, CleanAddNew DEF DeclareOpaque
<1>4. ASSUME NEW k \in BodyKind, NEW n \in Tag \cup Nat, Open(k, n), mode # "idle"
      PROVE  CleanInv'
  <2>. DEFINE f == [kind |-> k, name |-> n, refs |-> {}]
  <2>1. f \in Frame /\ frames \in Seq(Frame) /\ frames' = Append(frames, f)
    BY <1>4 DEF Open, Frame, TypeOK
  <2>2. \A j \in DOMAIN frames' :
           frames'[j] = f \/ (j \in DOMAIN frames /\ frames'[j] = frames[j])
    BY <2>1, PushFrame
  <2>3. \A j \in DOMAIN frames' : frames'[j].refs \subseteq Live
    BY <1>live, <2>2
  <2>. QED  BY <1>4, <2>3, CleanFrames DEF Open
<1>5. ASSUME NEW t \in Tag, OpenNamed(t)  PROVE CleanInv'
  <2>1. KindOf(t) \in BodyKind
    BY DEF KindOf, BodyKind
  <2>. QED  BY <1>4, <1>5, <2>1 DEF OpenNamed
<1>6. ASSUME NEW k \in BodyKind, DeclareOpaqueAnon(k)  PROVE CleanInv'
  BY <1>6, <1>live, <1>fresh, <1>opaque, CleanAddNew DEF DeclareOpaqueAnon, Parsing
<1>7. ASSUME NEW k \in BodyKind, OpenAnon(k)  PROVE CleanInv'
  BY <1>4, <1>7, <1>fresh DEF OpenAnon, Parsing
<1>8. ASSUME NEW r \in TypeDecls, AddField(r)  PROVE CleanInv'
  <2>1. frames \in Seq(Frame) /\ Len(frames) \in DOMAIN frames
    BY <1>8, PopFrame DEF AddField, TypeOK
  <2>2. /\ DOMAIN frames' = DOMAIN frames
        /\ \A k \in DOMAIN frames : frames'[k].refs \subseteq frames[k].refs \cup TypeRefs(r)
    <3>1. \A k \in DOMAIN frames : frames[k] \in Frame
      BY FrameAt
    <3>. QED  BY <1>8, <2>1, <3>1 DEF AddField, Frame
  <2>3. \A k \in DOMAIN frames' : frames'[k].refs \subseteq Live
    BY <1>live, <2>2, TypeRefsLive
  <2>. QED  BY <1>8, <1>idle, <2>3, CleanFrames DEF AddField
<1>9. ASSUME NEW i \in Idents, Enumerator(i), CleanNext  PROVE CleanInv'
  <2>. DEFINE d == [kind |-> "constant", name |-> i, complete |-> TRUE, refs |-> {}]
  <2>1. d \in Decl /\ d.refs \subseteq Live /\ d.complete
    BY DEF Decl, DeclKind, Name
  <2>2. mode # "idle"
    BY <1>9, <1>idle DEF Enumerator
  <2>3. CASE AddNew(d) /\ Unchanging /\ UNCHANGED <<stagedCtr, frames>>
    BY <1>live, <2>1, <2>2, <2>3, CleanAddNew
  <2>. QED  BY <1>9, <1>abort, <2>2, <2>3 DEF Enumerator
<1>10. CASE CloseNew
  <2>. DEFINE d == [kind |-> Top.kind, name |-> Top.name, complete |-> TRUE, refs |-> Top.refs]
  <2>1. frames # <<>> /\ mode # "idle" /\ frames' = Pop /\ AddNew(d)
    BY <1>10, <1>idle DEF CloseNew
  <2>2. d \in Decl /\ d.complete
    BY <2>1, PopTypes DEF Decl, DeclKind, Name, Tag
  <2>3. /\ Len(frames) \in DOMAIN frames
        /\ \A k \in DOMAIN Pop : k \in DOMAIN frames /\ Pop[k] = frames[k]
    BY <2>1, PopFrame DEF TypeOK
  <2>4. d.refs \subseteq Live
    BY <1>live, <2>3 DEF Top
  <2>5. \A k \in DOMAIN frames' : frames'[k].refs \subseteq Live
    BY <1>live, <2>1, <2>3
  <2>. QED  BY <1>10, <2>1, <2>2, <2>4, <2>5, CleanAddNew DEF CloseNew
<1>11. CASE CloseOpaque
  BY <1>11, CleanCloseOpaque
<1>12. ASSUME NEW k \in {"variable", "typedef"}, NEW i \in Idents,
              NEW rs \in {{}} \cup {TypeRefs(r) : r \in TypeDecls}, Declare(k, i, rs)
       PROVE  CleanInv'
  <2>. DEFINE d == [kind |-> k, name |-> i, complete |-> TRUE, refs |-> rs]
  <2>1. d \in Decl /\ d.refs \subseteq Live /\ d.complete
    BY TypeRefsTyped, TypeRefsLive DEF Decl, DeclKind, Name
  <2>2. CASE AddNew(d)
    BY <1>12, <1>live, <2>1, <2>2, CleanAddNew DEF Declare
  <2>3. CASE AddIgnored(d)
    BY <1>12, <1>live, <2>3, CleanFrames DEF AddIgnored, Declare
  <2>. QED  BY <1>12, <2>2, <2>3 DEF Declare
<1>13. ASSUME CleanNext, \/ \E t \in Tag : NamedInType(t)
                         \/ CloseRedefined
                         \/ SyntaxError
       PROVE  CleanInv'
  BY <1>13, <1>abort, <1>idle DEF NamedInType, CloseRedefined, SyntaxError, Parsing
<1>14. CASE UNCHANGED vars
  BY <1>14 DEF vars, CleanInv, Live, Completed, InBase, InStaging
<1>. QED
  BY <1>1, <1>2, <1>3, <1>5, <1>6, <1>7, <1>8, <1>9, <1>10, <1>11, <1>12,
     <1>13, <1>14 DEF CleanNext, Next

LEMMA CleanInvariants == CleanSpec => [](TypeOK /\ StoresAgree /\ CleanInv)
<1>1. Init => TypeOK /\ StoresAgree /\ CleanInv
  BY TypeInit DEF Init, StoresAgree, Agree, CleanInv, Live, InBase, InStaging, NoMap
<1>2. [CleanNext]_vars => [Next]_vars
  BY DEF CleanNext
<1>3. TypeOK /\ StoresAgree /\ CleanInv /\ [CleanNext]_vars
        => (TypeOK /\ StoresAgree /\ CleanInv)'
  BY <1>2, TypeNext, AgreeNext, CleanStep
<1>. QED  BY <1>1, <1>3, PTL DEF CleanSpec

(***************************************************************************)
(* As long as no parse fails after it has completed an opaque declaration  *)
(* of the main store, no declaration of the main store ever points at a    *)
(* deleted object.                                                         *)
(***************************************************************************)
THEOREM CleanNeverDangles == CleanSpec => []NoDangling
<1>1. CleanInv => NoDangling
  BY DEF CleanInv, NoDangling, Live, InBase, InStaging
<1>. QED  BY <1>1, CleanInvariants, PTL

-----------------------------------------------------------------------------
(***************************************************************************)
(* Refinement                                                              *)
(***************************************************************************)

(* Within a parse the view is the one it began with. *)
LEMMA ViewParsing ==
  ASSUME TypeOK, StoresAgree, [Next]_vars, UNCHANGED <<base, mode, was>>, mode # "idle"
  PROVE  View' = View
<1>1. \A n \in DOMAIN base : heap'[base[n]].kind = heap[base[n]].kind
  BY AgreeNext DEF DefinitionsStay
<1>. QED  BY <1>1 DEF View

LEMMA ViewBegin ==
  ASSUME NEW m \in {"cdef", "type"}, Begin(m)
  PROVE  View' = View
BY DEF Begin, View

(* A parse that failed has changed no definition. *)
LEMMA ViewAbort ==
  ASSUME TypeOK, StoresAgree, mode # "idle", Abort, Completed = was
  PROVE  View' = View
<1>1. \A n \in DOMAIN base : base[n] \in InBase
  BY DEF StoresAgree, Agree
<1>2. /\ base' = base /\ mode' = "idle"
      /\ \A id \in InBase : heap'[id] = heap[id]
      /\ InBase' = InBase
  BY DEF Abort, TypeOK, InBase
<1>3. Completed' = Completed
  BY <1>2 DEF Completed
<1>4. \A n \in DOMAIN base : heap'[base[n]].kind = heap[base[n]].kind
  BY <1>1, <1>2
<1>. QED  BY <1>2, <1>3, <1>4 DEF View

(* A parse that succeeded has dropped no name and undone no definition. *)
LEMMA ViewCommit ==
  ASSUME TypeOK, StoresAgree, CleanInv, Commit
  PROVE  NS!Extends(View, View')
<1>1. /\ DOMAIN base \subseteq DOMAIN base'
      /\ \A n \in DOMAIN base : base'[n] = base[n]
      /\ heap' = heap /\ mode # "idle" /\ mode' = "idle"
  BY DEF Commit, StoresAgree
<1>2. was \subseteq Completed /\ Completed \subseteq Completed'
  BY DEF CleanInv, Commit, Completed, InBase
<1>3. DOMAIN View = DOMAIN base /\ DOMAIN View' = DOMAIN base'
  BY DEF View
<1>4. ASSUME NEW n \in DOMAIN base
      PROVE  View'[n].kind = View[n].kind /\ (View[n].complete => View'[n].complete)
  BY <1>1, <1>2 DEF View
<1>. QED  BY <1>1, <1>3, <1>4 DEF NS!Extends

(* Steps that abort, in every action that can. *)
LEMMA AbortSteps ==
  ASSUME CleanInv, Next
  PROVE  \/ \E m \in {"cdef", "type"} : Begin(m)
         \/ Commit
         \/ mode # "idle" /\ Abort
         \/ mode # "idle" /\ UNCHANGED <<base, mode, was, outcome>>
<1>1. frames # <<>> => mode # "idle"
  BY DEF CleanInv
<1>. QED
  BY <1>1 DEF Next, DeclareOpaque, OpenNamed, NamedInType, DeclareOpaqueAnon, OpenAnon,
     Open, AddField, Enumerator, CloseNew, CloseOpaque, CloseRedefined, Declare,
     SyntaxError, Parsing, Unchanging

(***************************************************************************)
(* The declaration store implements the namespace of Namespace, under the  *)
(* same assumption as CleanNeverDangles: a Lua program sees each call of   *)
(* cffi.cdef happen in one step or not at all.                             *)
(***************************************************************************)
THEOREM RefinesNamespace == CleanSpec => ImplementsNamespace
<1>1. Init => NS!Init
  BY DEF Init, NS!Init, View, NoMap
<1>2. TypeOK /\ StoresAgree /\ CleanInv /\ [CleanNext]_vars => [NS!Next]_(NS!nsvars)
  <2>. SUFFICES ASSUME TypeOK, StoresAgree, CleanInv, [CleanNext]_vars
                PROVE  [NS!Next]_(NS!nsvars)
    OBVIOUS
  <2>1. ASSUME NEW m \in {"cdef", "type"}, Begin(m)  PROVE NS!Call
    BY <2>1, ViewBegin DEF Begin, NS!Call
  <2>2. CASE Commit
    <3>1. outcome = "none" /\ outcome' = "ok"
      BY <2>2 DEF Commit, CleanInv
    <3>. QED  BY <2>2, <3>1, ViewCommit DEF NS!Succeed, NS!Next
  <2>3. CASE mode # "idle" /\ Abort /\ CleanNext
    <3>1. outcome = "none" /\ outcome' = "error" /\ Completed = was
      BY <2>3 DEF Abort, CleanInv, CleanNext, Aborting
    <3>. QED  BY <2>3, <3>1, ViewAbort DEF NS!Fail, NS!Next
  <2>4. CASE mode # "idle" /\ UNCHANGED <<base, mode, was, outcome>>
    <3>1. [Next]_vars
      BY DEF CleanNext
    <3>. QED  BY <2>4, <3>1, ViewParsing DEF NS!nsvars
  <2>5. CASE UNCHANGED vars
    BY <2>5 DEF vars, View, NS!nsvars, Completed, InBase
  <2>. QED  BY <2>1, <2>2, <2>3, <2>4, <2>5, AbortSteps DEF CleanNext, NS!Next
<1>. QED
  BY <1>1, <1>2, CleanInvariants, PTL DEF CleanSpec, ImplementsNamespace, NS!Spec
=============================================================================
