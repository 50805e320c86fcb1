--------------------------- MODULE CallbackProofs ---------------------------
(***************************************************************************)
(* Proofs about callbacks, for any number of handles, closures, registry   *)
(* slots, functions and C locations, and any nesting of calls.             *)
(***************************************************************************)
EXTENDS Callback, TLAPS

-----------------------------------------------------------------------------
(***************************************************************************)
(* Lemmas about the operators of Callback                                  *)
(***************************************************************************)
LEMMA NullApart ==
  /\ Null \notin Handle /\ Null \notin Closure /\ Null \notin Ref /\ Null \notin Function
BY NullAssumption

LEMMA PushCall ==
  ASSUME NEW s \in Seq(Call), NEW e \in Call
  PROVE  /\ Append(s, e) \in Seq(Call)
         /\ \A i \in DOMAIN Append(s, e) :
               Append(s, e)[i] = e \/ (i \in DOMAIN s /\ Append(s, e)[i] = s[i])
OBVIOUS

LEMMA PopCall ==
  ASSUME NEW s \in Seq(Call), s # <<>>
  PROVE  LET t == SubSeq(s, 1, Len(s) - 1)
         IN  /\ t \in Seq(Call)
             /\ \A i \in DOMAIN t : i \in DOMAIN s /\ t[i] = s[i]
             /\ Len(s) \in DOMAIN s
OBVIOUS

-----------------------------------------------------------------------------
(***************************************************************************)
(* Types                                                                   *)
(***************************************************************************)
LEMMA TypeInit == Init => TypeOK
BY DEF Init, TypeOK, HandleState, ClosureState, Maybe, Faults, Pointers, Made

LEMMA HandleAt ==
  ASSUME TypeOK, NEW h \in Handle
  PROVE  /\ handle[h] \in HandleState
         /\ handle[h].cd \in Maybe(Made) /\ handle[h].sym \in Maybe(Made)
         /\ handle[h].held \in BOOLEAN
BY DEF TypeOK, HandleState, Pointers

LEMMA ClosureAt ==
  ASSUME TypeOK, NEW c \in Closure
  PROVE  closure[c] \in ClosureState /\ closure[c].fref \in Maybe(Ref)
BY DEF TypeOK, ClosureState

LEMMA TypeFault ==
  ASSUME TypeOK, NEW w \in Faults, Fault(w)
  PROVE  TypeOK'
BY DEF TypeOK, Fault, Pointers, Made

(* A new callback handle and its closure. *)
LEMMA TypeMakeCallback ==
  ASSUME TypeOK, NEW h \in Handle, NEW c \in Closure, NEW r \in Maybe(Ref),
         NEW held \in BOOLEAN, MakeCallback(h, c, r, held),
         UNCHANGED stack, \A p \in Place : place'[p] = place[p] \/ place'[p] = c
  PROVE  /\ handle' \in [Handle -> HandleState]
         /\ closure' \in [Closure -> ClosureState]
         /\ Pointers'
<1>1. [kind |-> "callback", cd |-> c, sym |-> c, held |-> held] \in HandleState
  BY DEF HandleState, Maybe
<1>2. [st |-> "live", owner |-> h, fref |-> r] \in ClosureState
  BY DEF ClosureState, Maybe
<1>3. handle' \in [Handle -> HandleState] /\ closure' \in [Closure -> ClosureState]
  BY <1>1, <1>2 DEF TypeOK, MakeCallback
<1>4. Made' = Made \cup {c} /\ \A d \in Made' : closure'[d].owner \in Handle
  BY DEF TypeOK, MakeCallback, Made, Pointers
<1>5. ASSUME NEW k \in Handle
      PROVE  handle'[k].cd \in Maybe(Made') /\ handle'[k].sym \in Maybe(Made')
  BY <1>4, HandleAt DEF TypeOK, MakeCallback, Maybe
<1>6. \A p \in Place : place'[p] \in Maybe(Made')
  BY <1>4 DEF TypeOK, Pointers, Maybe
<1>7. \A i \in DOMAIN stack : stack'[i].closure \in Made'
  BY <1>4 DEF TypeOK, Pointers
<1>. QED  BY <1>3, <1>4, <1>5, <1>6, <1>7 DEF Pointers

(* A handle is written; the closures it names were made before. *)
LEMMA TypeHandle ==
  ASSUME TypeOK, NEW h \in Handle, NEW s \in HandleState,
         s.cd \in Maybe(Made), s.sym \in Maybe(Made),
         handle' = [handle EXCEPT ![h] = s],
         UNCHANGED <<closure, registry, place, stack, ran, fault>>
  PROVE  TypeOK'
<1>1. handle' \in [Handle -> HandleState]
  BY DEF TypeOK
<1>2. Made' = Made
  BY DEF Made
<1>3. \A k \in Handle : handle'[k].cd \in Maybe(Made) /\ handle'[k].sym \in Maybe(Made)
  BY HandleAt DEF TypeOK
<1>. QED  BY <1>1, <1>2, <1>3 DEF TypeOK, Pointers

LEMMA TypeTrampoline ==
  ASSUME TypeOK, NEW c \in Made, NEW via \in Maybe(Handle), Trampoline(c, via)
  PROVE  TypeOK'
<1>1. CASE Fault("freed closure") \/ Fault("collected handle")
  BY <1>1, TypeFault DEF Faults
<1>2. CASE /\ ran' = IF closure[c].fref = Null THEN Null ELSE registry[closure[c].fref]
           /\ stack' = Append(stack, [closure |-> c, via |-> via])
           /\ UNCHANGED <<handle, closure, registry, place, fault>>
  <2>. DEFINE e == [closure |-> c, via |-> via]
  <2>1. c \in Closure /\ closure[c].fref \in Maybe(Ref)
    BY ClosureAt DEF Made
  <2>2. ran' \in Maybe(Function)
    BY <1>2, <2>1 DEF TypeOK, Maybe
  <2>3. e \in Call /\ stack \in Seq(Call)
    BY <2>1 DEF Call, TypeOK
  <2>4. stack' \in Seq(Call) /\ \A i \in DOMAIN stack' :
           stack'[i] = e \/ (i \in DOMAIN stack /\ stack'[i] = stack[i])
    BY <1>2, <2>3, PushCall
  <2>5. Made' = Made /\ \A i \in DOMAIN stack' : stack'[i].closure \in Made
    BY <1>2, <2>4 DEF TypeOK, Pointers, Made
  <2>. QED  BY <1>2, <2>2, <2>4, <2>5 DEF TypeOK, Pointers
<1>. QED  BY <1>1, <1>2 DEF Trampoline

LEMMA TypePop ==
  ASSUME TypeOK, stack # <<>>, stack' = Pop,
         UNCHANGED <<handle, closure, registry, place, ran, fault>>
  PROVE  TypeOK'
<1>1. stack' \in Seq(Call) /\ \A i \in DOMAIN stack' :
         i \in DOMAIN stack /\ stack'[i] = stack[i]
  BY PopCall DEF TypeOK, Pop
<1>2. Made' = Made
  BY DEF Made
<1>. QED  BY <1>1, <1>2 DEF TypeOK, Pointers

(* A closure keeps its owner; what it becomes is typed. *)
LEMMA TypeClosure ==
  ASSUME TypeOK, NEW c \in Made, NEW s \in ClosureState,
         s.st # "none", s.owner = closure[c].owner,
         closure' = [closure EXCEPT ![c] = s]
  PROVE  /\ closure' \in [Closure -> ClosureState]
         /\ Made' = Made
         /\ \A d \in Made : closure'[d].owner \in Handle
BY DEF TypeOK, Made, Pointers

LEMMA TypeCbFree ==
  ASSUME TypeOK, NEW k \in Handle, CbFree(k)
  PROVE  TypeOK'
<1>. DEFINE c == handle[k].cd
<1>1. c \in Made
  BY HandleAt DEF CbFree, Maybe
<1>2. CASE Fault("freed closure")
  BY <1>2, TypeFault DEF Faults
<1>3. CASE /\ registry' = IF closure[c].fref = Null THEN registry ELSE Unref(closure[c].fref)
           /\ closure' = [closure EXCEPT ![c].st = "freed"]
           /\ handle' = [handle EXCEPT ![k].cd = Null]
           /\ UNCHANGED <<place, stack, ran, fault>>
  <2>1. registry' \in [Ref -> Maybe(Function)]
    BY <1>3 DEF TypeOK, Unref, Maybe
  <2>2. /\ closure' \in [Closure -> ClosureState]
        /\ Made' = Made
        /\ \A d \in Made : closure'[d].owner \in Handle
    <3>. DEFINE s == [closure[c] EXCEPT !.st = "freed"]
    <3>1. s \in ClosureState /\ s.st # "none" /\ s.owner = closure[c].owner
      BY <1>1, ClosureAt DEF ClosureState, Made
    <3>2. closure' = [closure EXCEPT ![c] = s]
      BY <1>3
    <3>. QED  BY <1>1, <3>1, <3>2, TypeClosure
  <2>3. /\ handle' \in [Handle -> HandleState]
        /\ \A h \in Handle : handle'[h].cd \in Maybe(Made) /\ handle'[h].sym \in Maybe(Made)
    <3>. DEFINE s == [handle[k] EXCEPT !.cd = Null]
    <3>1. s \in HandleState /\ s.cd = Null /\ s.sym = handle[k].sym
      BY HandleAt DEF HandleState, Maybe
    <3>2. handle' = [handle EXCEPT ![k] = s]
      BY <1>3
    <3>. QED  BY <3>1, <3>2, HandleAt DEF TypeOK, Maybe
  <2>. QED  BY <1>3, <2>1, <2>2, <2>3 DEF TypeOK, Pointers
<1>. QED  BY <1>2, <1>3 DEF CbFree

LEMMA TypeCbSet ==
  ASSUME TypeOK, NEW k \in Handle, NEW f \in Function, CbSet(k, f)
  PROVE  TypeOK'
<1>. DEFINE c   == handle[k].cd
            old == closure[c].fref
            reg == IF old = Null THEN registry ELSE Unref(old)
<1>1. c \in Made
  BY HandleAt DEF CbSet, Maybe
<1>2. CASE Fault("freed closure")
  BY <1>2, TypeFault DEF Faults
<1>3. ASSUME NEW r \in Ref, registry' = [reg EXCEPT ![r] = f],
             closure' = [closure EXCEPT ![c].fref = r],
             closure[c].st # "freed",
             UNCHANGED <<handle, place, stack, ran, fault>>
      PROVE  TypeOK'
  <2>1. registry' \in [Ref -> Maybe(Function)]
    BY <1>3 DEF TypeOK, Unref, Maybe
  <2>2. /\ closure' \in [Closure -> ClosureState]
        /\ Made' = Made
        /\ \A d \in Made : closure'[d].owner \in Handle
    <3>. DEFINE s == [closure[c] EXCEPT !.fref = r]
    <3>1. s \in ClosureState /\ s.st # "none" /\ s.owner = closure[c].owner
      BY <1>1, ClosureAt DEF ClosureState, Made, Maybe
    <3>2. closure' = [closure EXCEPT ![c] = s]
      BY <1>3
    <3>. QED  BY <1>1, <3>1, <3>2, TypeClosure
  <2>. QED  BY <1>3, <2>1, <2>2 DEF TypeOK, Pointers
<1>. QED  BY <1>2, <1>3 DEF CbSet

LEMMA TypeNext == TypeOK /\ [Next]_vars => TypeOK'
<1>. SUFFICES ASSUME TypeOK, [Next]_vars  PROVE TypeOK'
  OBVIOUS
<1>reg. \A r \in Ref, f \in Function : [registry EXCEPT ![r] = f] \in [Ref -> Maybe(Function)]
  BY DEF TypeOK, Maybe
<1>1. ASSUME NEW h \in Handle, NEW c \in Closure, NewCallback(h, c)  PROVE TypeOK'
  <2>1. MakeCallback(h, c, Null, TRUE) /\ UNCHANGED <<registry, place, stack, ran, fault>>
    BY <1>1 DEF NewCallback
  <2>. QED  BY <2>1, TypeMakeCallback DEF TypeOK, Maybe
<1>2. ASSUME NEW h \in Handle, NEW c \in Closure, NEW f \in Function, CastFunction(h, c, f)
      PROVE  TypeOK'
  <2>1. PICK r \in Ref : registry' = [registry EXCEPT ![r] = f] /\ MakeCallback(h, c, r, TRUE)
    BY <1>2 DEF CastFunction
  <2>2. r \in Maybe(Ref) /\ UNCHANGED <<place, stack, ran, fault>>
    BY <1>2 DEF CastFunction, Maybe
  <2>. QED  BY <1>reg, <2>1, <2>2, TypeMakeCallback DEF TypeOK
<1>3. ASSUME NEW h \in Handle, NEW c \in Closure, NEW k \in Handle, CopyFreed(h, k, c)
      PROVE  TypeOK'
  <2>1. MakeCallback(h, c, Null, TRUE) /\ UNCHANGED <<registry, place, stack, ran, fault>>
    BY <1>3 DEF CopyFreed
  <2>. QED  BY <2>1, TypeMakeCallback DEF TypeOK, Maybe
<1>4. ASSUME NEW h \in Handle, NEW c \in Closure, NEW f \in Function, NEW p \in Place,
             StoreFunction(h, c, f, p)
      PROVE  TypeOK'
  <2>1. PICK r \in Ref : registry' = [registry EXCEPT ![r] = f] /\ MakeCallback(h, c, r, FALSE)
    BY <1>4 DEF StoreFunction
  <2>2. r \in Maybe(Ref) /\ UNCHANGED <<stack, ran, fault>> /\ place' = [place EXCEPT ![p] = c]
    BY <1>4 DEF StoreFunction, Maybe
  <2>3. place' \in [Place -> Maybe(Closure)] /\ \A q \in Place : place'[q] = place[q] \/ place'[q] = c
    BY <2>2 DEF TypeOK, Maybe
  <2>. QED  BY <1>reg, <2>1, <2>2, <2>3, TypeMakeCallback DEF TypeOK
<1>5. ASSUME NEW h \in Handle, NEW k \in Handle, CopyHandle(h, k)  PROVE TypeOK'
  <2>. DEFINE s == [kind |-> "callback", cd |-> handle[k].cd, sym |-> Null, held |-> TRUE]
  <2>1. s \in HandleState /\ s.cd \in Maybe(Made) /\ s.sym \in Maybe(Made)
    BY HandleAt DEF HandleState, Maybe, Made
  <2>. QED  BY <1>5, <2>1, TypeHandle DEF CopyHandle
<1>6. ASSUME NEW h \in Handle, NEW p \in Place, ReadPlace(h, p)  PROVE TypeOK'
  <2>1. CASE place[p] # Null /\ MakePointer(h, place[p])
    <3>. DEFINE s == [kind |-> "pointer", cd |-> Null, sym |-> place[p], held |-> TRUE]
    <3>1. place[p] \in Maybe(Made)
      BY DEF TypeOK, Pointers
    <3>2. s \in HandleState /\ s.cd \in Maybe(Made) /\ s.sym \in Maybe(Made)
      BY <3>1 DEF HandleState, Maybe, Made
    <3>. QED  BY <1>6, <2>1, <3>2, TypeHandle DEF ReadPlace, MakePointer
  <2>2. ASSUME NEW c \in Closure, MakeCallback(h, c, Null, TRUE)  PROVE TypeOK'
    BY <1>6, <2>2, TypeMakeCallback DEF ReadPlace, TypeOK, Maybe
  <2>. QED  BY <1>6, <2>1, <2>2 DEF ReadPlace
<1>7. ASSUME NEW h \in Handle, NEW p \in Place, StoreHandle(h, p)  PROVE TypeOK'
  <2>1. handle[h].sym \in Maybe(Made) /\ handle[h].sym \in Maybe(Closure) /\ Made' = Made
    BY <1>7, HandleAt DEF StoreHandle, Made, Maybe
  <2>2. place' = [place EXCEPT ![p] = handle[h].sym]
        /\ UNCHANGED <<handle, closure, registry, stack, ran, fault>>
    BY <1>7 DEF StoreHandle
  <2>. QED  BY <2>1, <2>2 DEF TypeOK, Pointers
<1>8. ASSUME NEW f \in Function, ConvertFails(f) \/ PassFunction(f)  PROVE TypeOK'
  <2>1. PICK r \in Ref : registry' = [registry EXCEPT ![r] = f]
    BY <1>8 DEF ConvertFails, PassFunction
  <2>2. UNCHANGED <<handle, closure, place, stack, ran>> /\ fault' \in Faults /\ Made' = Made
    BY <1>8 DEF ConvertFails, PassFunction, TypeOK, Faults, Made
  <2>. QED  BY <1>reg, <2>1, <2>2 DEF TypeOK, Pointers
<1>9. ASSUME NEW p \in Place, ClearPlace(p)  PROVE TypeOK'
  BY <1>9 DEF ClearPlace, TypeOK, Pointers, Made, Maybe
<1>10. ASSUME NEW p \in Place, CallPlace(p)  PROVE TypeOK'
  <2>1. place[p] \in Made
    BY <1>10 DEF CallPlace, TypeOK, Pointers, Maybe
  <2>. QED  BY <1>10, <2>1, TypeTrampoline DEF CallPlace, Maybe
<1>11. ASSUME NEW k \in Handle, CallHandle(k) \/ PassHandle(k)  PROVE TypeOK'
  <2>1. CASE Fault("null pointer")
    BY <2>1, TypeFault DEF Faults
  <2>2. CASE handle[k].sym # Null /\ Trampoline(handle[k].sym, k)
    <3>1. handle[k].sym \in Made
      BY <2>2, HandleAt DEF Maybe
    <3>. QED  BY <2>2, <3>1, TypeTrampoline DEF Maybe
  <2>. QED  BY <1>11, <2>1, <2>2 DEF CallHandle, PassHandle
<1>12. ASSUME NEW k \in Handle, CbFree(k)  PROVE TypeOK'
  BY <1>12, TypeCbFree
<1>13. ASSUME NEW k \in Handle, Drop(k)  PROVE TypeOK'
  <2>. DEFINE s == [handle[k] EXCEPT !.held = FALSE]
  <2>1. s \in HandleState /\ s.cd = handle[k].cd /\ s.sym = handle[k].sym
    BY HandleAt DEF HandleState
  <2>2. handle' = [handle EXCEPT ![k] = s]
    BY <1>13 DEF Drop
  <2>. QED  BY <1>13, <2>1, <2>2, HandleAt, TypeHandle DEF Drop
<1>14. ASSUME NEW k \in Handle, Collect(k)  PROVE TypeOK'
  <2>. DEFINE s == [kind |-> "collected", cd |-> Null, sym |-> Null, held |-> FALSE]
  <2>1. s \in HandleState /\ s.cd \in Maybe(Made) /\ s.sym \in Maybe(Made)
    BY DEF HandleState, Maybe
  <2>. QED  BY <1>14, <2>1, TypeHandle DEF Collect
<1>15. ASSUME NEW k \in Handle, NEW f \in Function, CbSet(k, f)  PROVE TypeOK'
  BY <1>15, TypeCbSet
<1>16. CASE ReturnValue
  <2>1. CASE Fault("freed closure") \/ Fault("collected handle")
    BY <2>1, TypeFault DEF Faults
  <2>2. CASE stack' = Pop /\ UNCHANGED <<handle, closure, registry, place, ran, fault>>
    BY <1>16, <2>2, TypePop DEF ReturnValue
  <2>. QED  BY <1>16, <2>1, <2>2 DEF ReturnValue
<1>17. CASE ReturnNothing
  BY <1>17, TypePop DEF ReturnNothing
<1>18. CASE UNCHANGED vars
  BY <1>18 DEF vars, TypeOK, Pointers, Made
<1>. QED
  BY <1>1, <1>2, <1>3, <1>4, <1>5, <1>6, <1>7, <1>8, <1>9, <1>10, <1>11, <1>12,
     <1>13, <1>14, <1>15, <1>16, <1>17, <1>18 DEF Next

(***************************************************************************)
(* TypeOK is an invariant: whatever the program does, closure pointers and *)
(* C addresses are those of closures that were once made, and each closure *)
(* has an owner.                                                           *)
(***************************************************************************)
THEOREM TypeCorrect == Spec => []TypeOK
<1>1. Init => TypeOK
  BY TypeInit
<1>2. TypeOK /\ [Next]_vars => TypeOK'
  BY TypeNext
<1>. QED  BY <1>1, <1>2, PTL DEF Spec

-----------------------------------------------------------------------------
(***************************************************************************)
(* Slots of the registry, and the table of callbacks                       *)
(***************************************************************************)

(* The function c runs, or Null. *)
FunctionOf(c) == IF closure[c].fref = Null THEN Null ELSE registry[closure[c].fref]

(* What a step may do to the callbacks that exist. *)
TableStep ==
  \/ Assoc' = Assoc /\ ran' = ran
  \/ Table!Next

(* The closures are as they were, and so are the slots they own. *)
LEMMA StepElsewhere ==
  ASSUME TypeOK, RefsOwned, UNCHANGED closure,
         \A r \in Ref : registry[r] # Null => registry'[r] = registry[r]
  PROVE  RefsOwned' /\ Assoc' = Assoc
<1>1. Live' = Live /\ WithFunction' = WithFunction /\ WithFunction \subseteq Live
  BY DEF Live, WithFunction
<1>2. ASSUME NEW c \in WithFunction
      PROVE  registry'[closure[c].fref] = registry[closure[c].fref]
  <2>1. closure[c].fref \in Ref
    BY ClosureAt DEF WithFunction, Live, Maybe
  <2>. QED  BY <2>1 DEF RefsOwned
<1>3. RefsOwned'
  BY <1>1, <1>2 DEF RefsOwned
<1>4. \A c \in Live : FunctionOf(c)' = FunctionOf(c)
  BY <1>1, <1>2 DEF FunctionOf, WithFunction
<1>. QED  BY <1>1, <1>3, <1>4 DEF Assoc, FunctionOf

(* A new closure, without a function or with one in a slot that was free. *)
LEMMA StepMakeCallback ==
  ASSUME TypeOK, RefsOwned, NEW h \in Handle, NEW c \in Closure, NEW r \in Maybe(Ref),
         NEW f \in Maybe(Function), NEW held \in BOOLEAN, MakeCallback(h, c, r, held),
         UNCHANGED ran,
         \/ r = Null /\ f = Null /\ registry' = registry
         \/ r \in Ref /\ f # Null /\ registry[r] = Null /\ registry' = [registry EXCEPT ![r] = f]
  PROVE  RefsOwned' /\ Table!Create(c, f)
<1>1. /\ c \notin Live /\ Live' = Live \cup {c} /\ closure'[c].fref = r
      /\ \A d \in Live : closure'[d] = closure[d]
  BY DEF MakeCallback, Live, TypeOK
<1>2. /\ \A d \in WithFunction : closure[d].fref \in Ref /\ registry[closure[d].fref] # Null
      /\ WithFunction \subseteq Live
  BY ClosureAt DEF RefsOwned, WithFunction, Live, Maybe
<1>3. \A d \in WithFunction : registry'[closure[d].fref] = registry[closure[d].fref]
                              /\ closure[d].fref # r
  BY <1>2, NullApart DEF TypeOK
<1>4. WithFunction' = WithFunction \cup (IF r = Null THEN {} ELSE {c})
  BY <1>1 DEF WithFunction
<1>5. r # Null => registry'[r] = f /\ f # Null
  BY NullApart DEF TypeOK
<1>6. RefsOwned'
  BY <1>1, <1>2, <1>3, <1>4, <1>5 DEF RefsOwned
<1>7. /\ \A d \in Live : FunctionOf(d)' = FunctionOf(d)
      /\ FunctionOf(c)' = f
  BY <1>1, <1>3, <1>5, NullApart DEF FunctionOf, WithFunction
<1>8. DOMAIN Assoc = Live /\ \A d \in Live : Assoc[d] = FunctionOf(d)
  BY DEF Assoc, FunctionOf
<1>9. Assoc' = [k \in DOMAIN Assoc \cup {c} |-> IF k = c THEN f ELSE Assoc[k]]
  BY <1>1, <1>7, <1>8 DEF Assoc, FunctionOf
<1>. QED  BY <1>1, <1>6, <1>8, <1>9 DEF Table!Create

LEMMA StepCbFree ==
  ASSUME TypeOK, RefsOwned, NEW k \in Handle, CbFree(k)
  PROVE  RefsOwned' /\ TableStep
<1>. DEFINE c == handle[k].cd
<1>1. c \in Made /\ c \in Closure
  BY HandleAt DEF CbFree, Maybe, Made
<1>2. CASE Fault("freed closure")
  <2>1. UNCHANGED <<closure, registry, ran>>
    BY <1>2 DEF Fault
  <2>. QED  BY <2>1, StepElsewhere DEF TableStep
<1>3. CASE /\ closure[c].st # "freed"
           /\ registry' = IF closure[c].fref = Null THEN registry ELSE Unref(closure[c].fref)
           /\ closure' = [closure EXCEPT ![c].st = "freed"]
           /\ UNCHANGED ran
  <2>1. /\ c \in Live /\ Live' = Live \ {c}
        /\ \A d \in Live' : closure'[d] = closure[d]
    <3>1. closure[c].st = "live"
      BY <1>1, <1>3, ClosureAt DEF Made, ClosureState
    <3>. QED  BY <1>1, <1>3, <3>1 DEF Live, TypeOK
  <2>2. /\ WithFunction' = WithFunction \ {c}
        /\ \A d \in WithFunction : closure[d].fref \in Ref /\ d \in Live
    BY <2>1, ClosureAt DEF WithFunction, Live, Maybe
  <2>3. ASSUME NEW d \in WithFunction'
        PROVE  registry'[closure[d].fref] = registry[closure[d].fref]
    <3>1. closure[c].fref # Null => closure[d].fref # closure[c].fref
      BY <2>1, <2>2 DEF RefsOwned, WithFunction
    <3>. QED  BY <1>3, <2>2, <3>1 DEF Unref, TypeOK
  <2>4. RefsOwned'
    BY <2>1, <2>2, <2>3 DEF RefsOwned
  <2>5. \A d \in Live' : FunctionOf(d)' = FunctionOf(d)
    BY <2>1, <2>2, <2>3 DEF FunctionOf, WithFunction
  <2>6. DOMAIN Assoc = Live /\ \A d \in Live : Assoc[d] = FunctionOf(d)
    BY DEF Assoc, FunctionOf
  <2>7. Assoc' = [d \in DOMAIN Assoc \ {c} |-> Assoc[d]]
    BY <2>1, <2>5, <2>6 DEF Assoc, FunctionOf
  <2>8. Table!Free(c)
    BY <1>3, <2>1, <2>6, <2>7 DEF Table!Free
  <2>. QED  BY <1>1, <2>4, <2>8 DEF TableStep, Table!Next
<1>. QED  BY <1>2, <1>3 DEF CbFree

(* A live closure gives its slot back and takes another one. *)
LEMMA StepNewSlot ==
  ASSUME TypeOK, RefsOwned, NEW c \in Live, NEW f \in Function, NEW r \in Ref, NEW reg,
         reg = IF closure[c].fref = Null THEN registry ELSE Unref(closure[c].fref),
         reg[r] = Null, registry' = [reg EXCEPT ![r] = f],
         closure' = [closure EXCEPT ![c].fref = r], UNCHANGED ran
  PROVE  RefsOwned' /\ Table!Set(c, f)
<1>1. /\ c \in Closure /\ Live' = Live /\ closure'[c].fref = r
      /\ \A d \in Live \ {c} : closure'[d] = closure[d]
  BY ClosureAt DEF Live, TypeOK, ClosureState
<1>2. /\ WithFunction' = WithFunction \cup {c}
      /\ \A d \in WithFunction : closure[d].fref \in Ref /\ d \in Live
  BY <1>1, ClosureAt, NullApart DEF WithFunction, Live, Maybe
<1>3. reg \in [Ref -> Maybe(Function)]
  BY DEF TypeOK, Unref, Maybe
<1>4. ASSUME NEW d \in WithFunction, d # c
      PROVE  /\ registry'[closure[d].fref] = registry[closure[d].fref]
             /\ closure[d].fref # r
  <2>1. closure[c].fref # Null => closure[d].fref # closure[c].fref
    BY <1>4 DEF RefsOwned, WithFunction
  <2>2. reg[closure[d].fref] = registry[closure[d].fref]
    BY <1>2, <2>1 DEF Unref, TypeOK
  <2>3. registry[closure[d].fref] # Null
    BY DEF RefsOwned
  <2>. QED  BY <1>2, <1>3, <2>2, <2>3
<1>5. registry'[r] = f /\ f # Null
  BY <1>3, NullApart
<1>6. RefsOwned'
  BY <1>1, <1>2, <1>4, <1>5 DEF RefsOwned
<1>7. ASSUME NEW d \in Live
      PROVE  Assoc'[d] = IF d = c THEN f ELSE Assoc[d]
  <2>1. Assoc[d] = FunctionOf(d)
    BY DEF Assoc, FunctionOf
  <2>2. Assoc'[d] = IF closure'[d].fref = Null THEN Null ELSE registry'[closure'[d].fref]
    BY <1>1 DEF Assoc
  <2>3. CASE d = c
    BY <1>1, <1>5, <2>2, <2>3, NullApart
  <2>4. CASE d # c
    BY <1>1, <1>4, <2>1, <2>2, <2>4 DEF FunctionOf, WithFunction
  <2>. QED  BY <2>3, <2>4
<1>8. DOMAIN Assoc = Live /\ Assoc = [d \in Live |-> Assoc[d]] /\ Assoc' = [d \in Live |-> Assoc'[d]]
  BY <1>1 DEF Assoc
<1>9. Assoc' = [Assoc EXCEPT ![c] = f]
  BY <1>7, <1>8
<1>. QED  BY <1>6, <1>8, <1>9 DEF Table!Set

LEMMA StepCbSet ==
  ASSUME TypeOK, RefsOwned, NEW k \in Handle, NEW f \in Function, CbSet(k, f)
  PROVE  RefsOwned' /\ TableStep
<1>1. PICK c \in Made : c = handle[k].cd
  BY HandleAt DEF CbSet, Maybe
<1>2. CASE Fault("freed closure")
  <2>1. UNCHANGED <<closure, registry, ran>>
    BY <1>2 DEF Fault
  <2>. QED  BY <2>1, StepElsewhere DEF TableStep
<1>. DEFINE reg == IF closure[c].fref = Null THEN registry ELSE Unref(closure[c].fref)
<1>3. CASE /\ closure[c].st # "freed"
           /\ UNCHANGED ran
           /\ \E r \in Ref : /\ reg[r] = Null
                            /\ registry' = [reg EXCEPT ![r] = f]
                            /\ closure' = [closure EXCEPT ![c].fref = r]
  <2>1. c \in Live /\ c \in Closure
    BY <1>3, ClosureAt DEF Made, ClosureState, Live
  <2>2. PICK r \in Ref : /\ reg[r] = Null
                         /\ registry' = [reg EXCEPT ![r] = f]
                         /\ closure' = [closure EXCEPT ![c].fref = r]
    BY <1>3
  <2>3. RefsOwned' /\ Table!Set(c, f)
    BY <1>3, <2>1, <2>2, StepNewSlot
  <2>. QED  BY <2>1, <2>3 DEF TableStep, Table!Next
<1>. QED  BY <1>1, <1>2, <1>3 DEF CbSet

LEMMA StepTrampoline ==
  ASSUME TypeOK, RefsOwned, NEW c \in Made, NEW via, Trampoline(c, via)
  PROVE  RefsOwned' /\ TableStep
<1>1. UNCHANGED <<closure, registry>>
  BY DEF Trampoline, Fault
<1>2. RefsOwned' /\ Assoc' = Assoc
  BY <1>1, StepElsewhere
<1>3. CASE UNCHANGED ran
  BY <1>2, <1>3 DEF TableStep
<1>4. CASE closure[c].st # "freed" /\ ran' = FunctionOf(c)
  <2>1. c \in Live /\ c \in Closure
    BY <1>4, ClosureAt DEF Live, Made, ClosureState
  <2>2. Table!Run(c)
    BY <1>2, <1>4, <2>1 DEF Table!Run, Assoc, FunctionOf
  <2>. QED  BY <1>2, <2>1, <2>2 DEF TableStep, Table!Next
<1>. QED  BY <1>3, <1>4 DEF Trampoline, Fault, FunctionOf

LEMMA StepNext == TypeOK /\ RefsOwned /\ [Next]_vars => RefsOwned' /\ TableStep
<1>. SUFFICES ASSUME TypeOK, RefsOwned, [Next]_vars  PROVE RefsOwned' /\ TableStep
  OBVIOUS
<1>1. ASSUME NEW h \in Handle, NEW c \in Closure, MakeCallback(h, c, Null, TRUE),
             UNCHANGED <<registry, ran>>
      PROVE  RefsOwned' /\ TableStep
  <2>1. RefsOwned' /\ Table!Create(c, Null)
    BY <1>1, StepMakeCallback DEF Maybe
  <2>. QED  BY <2>1 DEF TableStep, Table!Next
<1>2. ASSUME NEW h \in Handle, NEW c \in Closure, NEW f \in Function, NEW r \in Ref,
             NEW held \in BOOLEAN, FreeRef(r), registry' = [registry EXCEPT ![r] = f],
             MakeCallback(h, c, r, held), UNCHANGED ran
      PROVE  RefsOwned' /\ TableStep
  <2>1. RefsOwned' /\ Table!Create(c, f)
    BY <1>2, NullApart, StepMakeCallback DEF Maybe, FreeRef
  <2>. QED  BY <2>1 DEF TableStep, Table!Next
<1>3. ASSUME UNCHANGED <<closure, registry, ran>>  PROVE RefsOwned' /\ TableStep
  BY <1>3, StepElsewhere DEF TableStep
<1>4. ASSUME NEW h \in Handle, NEW c \in Closure,
             NewCallback(h, c) \/ \E k \in Handle : CopyFreed(h, k, c)
      PROVE  RefsOwned' /\ TableStep
  BY <1>1, <1>4 DEF NewCallback, CopyFreed
<1>5. ASSUME NEW h \in Handle, NEW c \in Closure, NEW f \in Function, CastFunction(h, c, f)
      PROVE  RefsOwned' /\ TableStep
  BY <1>2, <1>5 DEF CastFunction
<1>6. ASSUME NEW h \in Handle, NEW c \in Closure, NEW f \in Function, NEW p \in Place,
             StoreFunction(h, c, f, p)
      PROVE  RefsOwned' /\ TableStep
  BY <1>2, <1>6 DEF StoreFunction
<1>7. ASSUME NEW h \in Handle, NEW p \in Place, ReadPlace(h, p)  PROVE RefsOwned' /\ TableStep
  BY <1>1, <1>3, <1>7 DEF ReadPlace, MakePointer
<1>8. ASSUME NEW f \in Function, ConvertFails(f) \/ PassFunction(f)
      PROVE  RefsOwned' /\ TableStep
  <2>1. UNCHANGED <<closure, ran>> /\ \A r \in Ref : registry[r] # Null => registry'[r] = registry[r]
    BY <1>8 DEF ConvertFails, PassFunction, FreeRef, TypeOK
  <2>. QED  BY <2>1, StepElsewhere DEF TableStep
<1>9. ASSUME NEW p \in Place, CallPlace(p)  PROVE RefsOwned' /\ TableStep
  <2>1. place[p] \in Made
    BY <1>9 DEF CallPlace, TypeOK, Pointers, Maybe
  <2>. QED  BY <1>9, <2>1, StepTrampoline DEF CallPlace
<1>10. ASSUME NEW k \in Handle, CallHandle(k) \/ PassHandle(k)  PROVE RefsOwned' /\ TableStep
  <2>1. CASE Fault("null pointer")
    BY <1>3, <2>1 DEF Fault
  <2>2. CASE handle[k].sym # Null /\ Trampoline(handle[k].sym, k)
    <3>1. handle[k].sym \in Made
      BY <2>2, HandleAt DEF Maybe
    <3>. QED  BY <2>2, <3>1, StepTrampoline
  <2>. QED  BY <1>10, <2>1, <2>2 DEF CallHandle, PassHandle
<1>11. ASSUME NEW k \in Handle, CbFree(k)  PROVE RefsOwned' /\ TableStep
  BY <1>11, StepCbFree
<1>12. ASSUME NEW k \in Handle, NEW f \in Function, CbSet(k, f)  PROVE RefsOwned' /\ TableStep
  BY <1>12, StepCbSet
<1>13. ASSUME \/ \E h, k \in Handle : CopyHandle(h, k)
              \/ \E h \in Handle, p \in Place : StoreHandle(h, p)
              \/ \E p \in Place : ClearPlace(p)
              \/ \E k \in Handle : Drop(k) \/ Collect(k)
       PROVE  RefsOwned' /\ TableStep
  BY <1>3, <1>13 DEF CopyHandle, StoreHandle, ClearPlace, Drop, Collect
<1>14. CASE ReturnValue \/ ReturnNothing \/ UNCHANGED vars
  BY <1>3, <1>14 DEF ReturnValue, ReturnNothing, Fault, vars
<1>. QED
  BY <1>4, <1>5, <1>6, <1>7, <1>8, <1>9, <1>10, <1>11, <1>12, <1>13, <1>14 DEF Next

(***************************************************************************)
(* RefsOwned is an invariant: whatever the program does, cb:set() and      *)
(* cb:free() never give back a slot that another callback owns.            *)
(***************************************************************************)
THEOREM RefsAlwaysOwned == Spec => []RefsOwned
<1>1. Init => RefsOwned
  BY DEF Init, RefsOwned, WithFunction, Live
<1>2. TypeOK /\ RefsOwned /\ [Next]_vars => RefsOwned'
  BY StepNext
<1>. QED  BY <1>1, <1>2, TypeCorrect, PTL DEF Spec

(***************************************************************************)
(* Callbacks implement the table: a call runs the function last associated *)
(* with that callback, and nothing done to one callback changes another.   *)
(***************************************************************************)
THEOREM ImplementsTable == Spec => ImplementsCallbackTable
<1>1. Init => Table!Init
  BY DEF Init, Table!Init, Assoc, Live
<1>2. TypeOK /\ RefsOwned /\ [Next]_vars => [Table!Next]_(Table!tablevars)
  BY StepNext DEF TableStep, Table!tablevars
<1>. QED
  BY <1>1, <1>2, TypeCorrect, RefsAlwaysOwned, PTL DEF Spec, ImplementsCallbackTable, Table!Spec

-----------------------------------------------------------------------------
(***************************************************************************)
(* Careful programs                                                        *)
(***************************************************************************)

(* FreedHandleRaises and NoFault are not inductive: that a closure has its *)
(* owner follows from the program's holding the one handle of the closure  *)
(* until it is freed, and from its not being freed while it is in use.     *)
HandleOwns ==
  \A h \in Handle : IsCallback(h) /\ handle[h].cd # Null =>
    LET c == handle[h].cd
    IN  c \in Live /\ closure[c].owner = h /\ handle[h].sym = c
OwnerHeld ==
  \A c \in Live : LET h == closure[c].owner
                  IN  IsCallback(h) /\ handle[h].cd = c /\ handle[h].held
CallsLive ==
  \A i \in DOMAIN stack : stack[i].closure \in Live

CarefulInv == HandleOwns /\ OwnerHeld /\ CallsLive /\ NoFault

(* Nothing is written but the places, the registry, or what ran. *)
LEMMA CarefulElsewhere ==
  ASSUME CarefulInv, UNCHANGED <<handle, closure, stack, fault>>
  PROVE  CarefulInv'
BY DEF CarefulInv, HandleOwns, OwnerHeld, CallsLive, NoFault, IsCallback, Live

LEMMA CarefulMakeCallback ==
  ASSUME TypeOK, CarefulInv, NEW h \in Handle, NEW c \in Closure, NEW r \in Maybe(Ref),
         MakeCallback(h, c, r, TRUE), UNCHANGED <<stack, fault>>
  PROVE  CarefulInv'
<1>1. /\ c \notin Live /\ Live' = Live \cup {c} /\ \A d \in Live : closure'[d] = closure[d]
      /\ closure'[c].owner = h
  BY DEF MakeCallback, Live, TypeOK
<1>2. /\ ~IsCallback(h) /\ \A k \in Handle \ {h} : handle'[k] = handle[k]
      /\ handle'[h] = [kind |-> "callback", cd |-> c, sym |-> c, held |-> TRUE]
  BY DEF MakeCallback, IsCallback, TypeOK
<1>3. HandleOwns'
  BY <1>1, <1>2 DEF CarefulInv, HandleOwns, IsCallback
<1>4. OwnerHeld'
  <2>1. \A d \in Live : closure[d].owner \in Handle \ {h}
    BY <1>2 DEF CarefulInv, OwnerHeld, TypeOK, Pointers, Live, Made
  <2>. QED  BY <1>1, <1>2, <2>1 DEF CarefulInv, OwnerHeld, IsCallback
<1>5. CallsLive'
  BY <1>1 DEF CarefulInv, CallsLive
<1>. QED  BY <1>3, <1>4, <1>5 DEF CarefulInv, NoFault

(* A handle that is not that of a closure is written, and made no callback *)
(* that has one.                                                           *)
LEMMA CarefulHandle ==
  ASSUME TypeOK, CarefulInv, NEW h \in Handle, NEW s,
         IsCallback(h) => handle[h].cd = Null, s.kind = "callback" => s.cd = Null,
         handle' = [handle EXCEPT ![h] = s], UNCHANGED <<closure, stack, fault>>
  PROVE  CarefulInv'
<1>1. Live' = Live /\ handle'[h] = s /\ \A k \in Handle \ {h} : handle'[k] = handle[k]
  BY DEF Live, TypeOK
<1>2. HandleOwns'
  BY <1>1 DEF CarefulInv, HandleOwns, IsCallback
<1>3. OwnerHeld'
  <2>1. \A d \in Live : closure[d].owner \in Handle \ {h}
    BY NullApart DEF CarefulInv, OwnerHeld, TypeOK, Pointers, Live, Made
  <2>. QED  BY <1>1, <2>1 DEF CarefulInv, OwnerHeld, IsCallback
<1>4. CallsLive'
  BY <1>1 DEF CarefulInv, CallsLive
<1>. QED  BY <1>2, <1>3, <1>4 DEF CarefulInv, NoFault

(* A call of a live closure finds its owner. *)
LEMMA CarefulTrampoline ==
  ASSUME TypeOK, CarefulInv, NEW c \in Live, NEW via \in Maybe(Handle), Trampoline(c, via)
  PROVE  CarefulInv'
<1>. DEFINE e == [closure |-> c, via |-> via]
<1>1. closure[c].st # "freed" /\ handle[closure[c].owner].kind # "collected"
  BY DEF CarefulInv, OwnerHeld, IsCallback, Live
<1>2. stack' = Append(stack, e) /\ UNCHANGED <<handle, closure, fault>>
  BY <1>1 DEF Trampoline
<1>3. e \in Call /\ stack \in Seq(Call)
  BY DEF Call, TypeOK, Live
<1>4. \A i \in DOMAIN stack' : stack'[i] = e \/ (i \in DOMAIN stack /\ stack'[i] = stack[i])
  BY <1>2, <1>3, PushCall
<1>5. CallsLive'
  BY <1>2, <1>4 DEF CarefulInv, CallsLive, Live
<1>. QED  BY <1>2, <1>5 DEF CarefulInv, HandleOwns, OwnerHeld, NoFault, IsCallback, Live

LEMMA CarefulPop ==
  ASSUME TypeOK, CarefulInv, stack # <<>>, stack' = Pop, UNCHANGED <<handle, closure, fault>>
  PROVE  CarefulInv'
<1>1. \A i \in DOMAIN stack' : i \in DOMAIN stack /\ stack'[i] = stack[i]
  BY PopCall DEF TypeOK, Pop
<1>2. CallsLive'
  BY <1>1 DEF CarefulInv, CallsLive, Live
<1>. QED  BY <1>2 DEF CarefulInv, HandleOwns, OwnerHeld, NoFault, IsCallback, Live

(* Freeing a callback nothing uses leaves every other one as it was. *)
LEMMA CarefulFree ==
  ASSUME Liberty = {}, TypeOK, CarefulInv, NEW k \in Handle, CbFree(k)
  PROVE  CarefulInv'
<1>1. PICK c \in Live : c = handle[k].cd /\ closure[c].owner = k
  BY DEF CbFree, CarefulInv, HandleOwns
<1>2. c \in Closure /\ closure[c].st = "live"
  BY DEF Live
<1>3. /\ closure' = [closure EXCEPT ![c].st = "freed"]
      /\ handle' = [handle EXCEPT ![k].cd = Null]
      /\ Quiet(c) /\ UNCHANGED <<stack, fault>>
  BY <1>1, <1>2 DEF CbFree
<1>4. Live' = Live \ {c} /\ \A d \in Live' : closure'[d] = closure[d]
  BY <1>2, <1>3 DEF Live, TypeOK
<1>5. handle'[k].cd = Null /\ \A h \in Handle \ {k} : handle'[h] = handle[h]
  <2>1. handle[k] \in HandleState
    BY HandleAt
  <2>. QED  BY <1>3, <2>1 DEF TypeOK, HandleState
<1>6. HandleOwns'
  BY <1>1, <1>4, <1>5 DEF CarefulInv, HandleOwns, IsCallback
<1>7. OwnerHeld'
  <2>1. \A d \in Live' : closure[d].owner \in Handle \ {k}
    BY <1>1, <1>4 DEF CarefulInv, OwnerHeld, TypeOK, Pointers, Live, Made
  <2>. QED  BY <1>4, <1>5, <2>1 DEF CarefulInv, OwnerHeld, IsCallback
<1>8. CallsLive'
  BY <1>3, <1>4 DEF CarefulInv, CallsLive, Quiet
<1>. QED  BY <1>3, <1>6, <1>7, <1>8 DEF CarefulInv, NoFault

LEMMA CarefulSet ==
  ASSUME TypeOK, CarefulInv, NEW k \in Handle, NEW f \in Function, CbSet(k, f)
  PROVE  CarefulInv'
<1>1. PICK c \in Live : c = handle[k].cd
  BY DEF CbSet, CarefulInv, HandleOwns
<1>2. c \in Closure /\ closure[c].st = "live"
  BY DEF Live
<1>3. PICK r \in Ref : closure' = [closure EXCEPT ![c].fref = r]
  BY <1>1, <1>2 DEF CbSet
<1>4. UNCHANGED <<handle, stack, fault>>
  BY <1>1, <1>2 DEF CbSet
<1>5. \A d \in Closure : closure'[d].st = closure[d].st /\ closure'[d].owner = closure[d].owner
  <2>1. closure[c] \in ClosureState
    BY <1>2, ClosureAt
  <2>. QED  BY <1>2, <1>3, <2>1 DEF TypeOK, ClosureState
<1>6. Live' = Live
  BY <1>5 DEF Live
<1>7. Live \subseteq Closure
  BY DEF Live
<1>. QED
  BY <1>4, <1>5, <1>6, <1>7 DEF CarefulInv, HandleOwns, OwnerHeld, CallsLive, NoFault, IsCallback

LEMMA CarefulNext ==
  ASSUME Liberty = {}, TypeOK, CarefulInv, [Next]_vars
  PROVE  CarefulInv'
<1>1. ASSUME NEW h \in Handle, NEW c \in Closure,
             NewCallback(h, c) \/ \E k \in Handle : CopyFreed(h, k, c)
      PROVE  CarefulInv'
  BY <1>1, CarefulMakeCallback DEF NewCallback, CopyFreed, Maybe
<1>2. ASSUME NEW h \in Handle, NEW c \in Closure, NEW f \in Function, CastFunction(h, c, f)
      PROVE  CarefulInv'
  BY <1>2, CarefulMakeCallback DEF CastFunction, Maybe
<1>3. ASSUME \/ \E h \in Handle, c \in Closure, f \in Function, p \in Place :
                    StoreFunction(h, c, f, p)
             \/ \E h, k \in Handle : CopyHandle(h, k)
             \/ \E f \in Function : ConvertFails(f) \/ PassFunction(f)
      PROVE  FALSE
  BY <1>3 DEF StoreFunction, CopyHandle, ConvertFails, PassFunction
<1>4. ASSUME NEW h \in Handle, NEW p \in Place, ReadPlace(h, p)  PROVE CarefulInv'
  <2>1. CASE \E c \in Closure : MakeCallback(h, c, Null, TRUE)
    BY <1>4, <2>1, CarefulMakeCallback DEF ReadPlace, Maybe
  <2>2. CASE MakePointer(h, place[p])
    <3>. DEFINE s == [kind |-> "pointer", cd |-> Null, sym |-> place[p], held |-> TRUE]
    <3>1. ~IsCallback(h) /\ s.kind # "callback" /\ handle' = [handle EXCEPT ![h] = s]
      BY <2>2 DEF MakePointer, IsCallback
    <3>2. UNCHANGED <<closure, stack, fault>>
      BY <1>4, <2>2 DEF ReadPlace, MakePointer
    <3>. QED  BY <3>1, <3>2, CarefulHandle
  <2>. QED  BY <1>4, <2>1, <2>2 DEF ReadPlace
<1>5. ASSUME \/ \E h \in Handle, p \in Place : StoreHandle(h, p)
             \/ \E p \in Place : ClearPlace(p)
      PROVE  CarefulInv'
  BY <1>5, CarefulElsewhere DEF StoreHandle, ClearPlace
<1>6. ASSUME NEW p \in Place, CallPlace(p)  PROVE CarefulInv'
  BY <1>6, CarefulTrampoline DEF CallPlace, Maybe
<1>7. ASSUME NEW k \in Handle, CallHandle(k) \/ PassHandle(k)  PROVE CarefulInv'
  <2>1. handle[k].sym \in Live /\ k \in Maybe(Handle)
    BY <1>7 DEF CallHandle, PassHandle, CarefulInv, HandleOwns, Maybe
  <2>2. handle[k].sym # Null
    BY <2>1, NullApart DEF Live
  <2>. QED  BY <1>7, <2>1, <2>2, CarefulTrampoline DEF CallHandle, PassHandle
<1>8. ASSUME NEW k \in Handle, CbFree(k)  PROVE CarefulInv'
  BY <1>8, CarefulFree
<1>9. ASSUME NEW k \in Handle, Drop(k)  PROVE CarefulInv'
  <2>. DEFINE s == [handle[k] EXCEPT !.held = FALSE]
  <2>1. handle[k] \in HandleState
    BY HandleAt
  <2>2. s.kind = handle[k].kind /\ s.cd = handle[k].cd
    BY <2>1 DEF HandleState
  <2>3. handle' = [handle EXCEPT ![k] = s] /\ UNCHANGED <<closure, stack, fault>>
    BY <1>9 DEF Drop
  <2>4. IsCallback(k) => handle[k].cd = Null
    BY <1>9 DEF Drop, IsCallback, IsPointer
  <2>. QED  BY <2>2, <2>3, <2>4, CarefulHandle DEF IsCallback
<1>10. ASSUME NEW k \in Handle, Collect(k)  PROVE CarefulInv'
  <2>. DEFINE s == [kind |-> "collected", cd |-> Null, sym |-> Null, held |-> FALSE]
  <2>1. IsCallback(k) => handle[k].cd = Null
    BY <1>10 DEF Collect, CarefulInv, HandleOwns, OwnerHeld
  <2>2. handle' = [handle EXCEPT ![k] = s] /\ s.cd = Null /\ UNCHANGED <<closure, stack, fault>>
    BY <1>10 DEF Collect
  <2>. QED  BY <2>1, <2>2, CarefulHandle
<1>11. ASSUME NEW k \in Handle, NEW f \in Function, CbSet(k, f)  PROVE CarefulInv'
  BY <1>11, CarefulSet
<1>12. CASE ReturnValue
  <2>1. Top.closure \in Live
    BY <1>12, PopCall DEF ReturnValue, Top, TypeOK, CarefulInv, CallsLive
  <2>2. /\ closure[Top.closure].st # "freed"
        /\ handle[closure[Top.closure].owner].kind # "collected"
    BY <2>1 DEF CarefulInv, OwnerHeld, IsCallback, Live
  <2>. QED  BY <1>12, <2>2, CarefulPop DEF ReturnValue
<1>13. CASE ReturnNothing
  BY <1>13, CarefulPop DEF ReturnNothing
<1>14. CASE UNCHANGED vars
  BY <1>14, CarefulElsewhere DEF vars
<1>. QED
  BY <1>1, <1>2, <1>3, <1>4, <1>5, <1>6, <1>7, <1>8, <1>9, <1>10, <1>11, <1>12, <1>13,
     <1>14 DEF Next

(***************************************************************************)
(* A careful program never makes cb_bind() or a callback method read       *)
(* memory that is gone, and a handle of a freed callback raises an error.  *)
(***************************************************************************)
THEOREM CarefulIsSafe ==
  ASSUME Liberty = {}
  PROVE  Spec => [](NoFault /\ FreedHandleRaises)
<1>1. Init => CarefulInv
  BY DEF Init, CarefulInv, HandleOwns, OwnerHeld, CallsLive, NoFault, IsCallback, Live
<1>2. TypeOK /\ CarefulInv /\ [Next]_vars => CarefulInv'
  BY CarefulNext
<1>3. CarefulInv => NoFault /\ FreedHandleRaises
  BY DEF CarefulInv, HandleOwns, FreedHandleRaises
<1>. QED  BY <1>1, <1>2, <1>3, TypeCorrect, PTL DEF Spec
-----------------------------------------------------------------------------
(***************************************************************************)
(* Leaks                                                                   *)
(***************************************************************************)

(* A closure that was not made owns no slot yet, and making it takes none  *)
(* from another.                                                           *)
LEMMA LeakMakeCallback ==
  ASSUME TypeOK, NothingLeaked, NEW h \in Handle, NEW c \in Closure, NEW r \in Maybe(Ref),
         NEW held, MakeCallback(h, c, r, held),
         \A q \in Ref : registry'[q] # Null => q = r \/ registry[q] # Null
  PROVE  NothingLeaked'
<1>1. /\ c \in Live' /\ closure'[c].fref = r /\ Live \subseteq Live'
      /\ \A d \in Live : closure'[d] = closure[d]
  BY DEF MakeCallback, Live, TypeOK
<1>. QED  BY <1>1 DEF NothingLeaked

(* The slot of a freed callback is given back before the callback is gone. *)
LEMMA LeakFree ==
  ASSUME TypeOK, NothingLeaked, NEW k \in Handle, CbFree(k)
  PROVE  NothingLeaked'
<1>. DEFINE c == handle[k].cd
<1>1. c \in Closure
  BY HandleAt DEF CbFree, Maybe, Made
<1>2. CASE Fault("freed closure")
  BY <1>2 DEF Fault, NothingLeaked, Live
<1>3. CASE /\ registry' = IF closure[c].fref = Null THEN registry ELSE Unref(closure[c].fref)
           /\ closure' = [closure EXCEPT ![c].st = "freed"]
  <2>1. \A d \in Live \ {c} : d \in Live' /\ closure'[d] = closure[d]
    BY <1>1, <1>3 DEF Live, TypeOK
  <2>2. ASSUME NEW r \in Ref, registry'[r] # Null
        PROVE  registry[r] # Null /\ closure[c].fref # r
    BY <1>1, <1>3, <2>2, ClosureAt, NullApart DEF TypeOK, Unref, Maybe
  <2>. QED  BY <2>1, <2>2 DEF NothingLeaked
<1>. QED  BY <1>2, <1>3 DEF CbFree

LEMMA LeakSet ==
  ASSUME TypeOK, NothingLeaked, NEW k \in Handle, NEW f \in Function, CbSet(k, f)
  PROVE  NothingLeaked'
<1>. DEFINE c   == handle[k].cd
            reg == IF closure[c].fref = Null THEN registry ELSE Unref(closure[c].fref)
<1>1. c \in Made /\ c \in Closure
  BY HandleAt DEF CbSet, Maybe, Made
<1>2. CASE Fault("freed closure")
  BY <1>2 DEF Fault, NothingLeaked, Live
<1>3. ASSUME closure[c].st # "freed", NEW r \in Ref,
             registry' = [reg EXCEPT ![r] = f], closure' = [closure EXCEPT ![c].fref = r]
      PROVE  NothingLeaked'
  <2>1. closure[c] \in ClosureState
    BY <1>1, ClosureAt
  <2>2. closure'[c].fref = r /\ closure'[c].st = "live"
    BY <1>1, <1>3, <2>1 DEF TypeOK, ClosureState, Made
  <2>3. c \in Live' /\ \A d \in Live \ {c} : d \in Live' /\ closure'[d] = closure[d]
    BY <1>1, <1>3, <2>2 DEF Live, TypeOK
  <2>4. ASSUME NEW q \in Ref, registry'[q] # Null, q # r
        PROVE  registry[q] # Null /\ closure[c].fref # q
    BY <1>1, <1>3, <2>4, ClosureAt, NullApart DEF TypeOK, Unref, Maybe
  <2>. QED  BY <2>2, <2>3, <2>4 DEF NothingLeaked
<1>. QED  BY <1>1, <1>2, <1>3 DEF CbSet

LEMMA LeakNext ==
  ASSUME "pass" \notin Liberty, "fail" \notin Liberty, TypeOK, NothingLeaked, [Next]_vars
  PROVE  NothingLeaked'
<1>1. ASSUME UNCHANGED <<closure, registry>>  PROVE NothingLeaked'
  BY <1>1 DEF NothingLeaked, Live
<1>2. ASSUME NEW h \in Handle, NEW c \in Closure, MakeCallback(h, c, Null, TRUE),
             UNCHANGED registry
      PROVE  NothingLeaked'
  BY <1>2, LeakMakeCallback DEF Maybe
<1>3. ASSUME NEW h \in Handle, NEW c \in Closure, NEW f, NEW r \in Ref, NEW held,
             registry' = [registry EXCEPT ![r] = f], MakeCallback(h, c, r, held)
      PROVE  NothingLeaked'
  <2>1. r \in Maybe(Ref) /\ \A q \in Ref : registry'[q] # Null => q = r \/ registry[q] # Null
    BY <1>3 DEF TypeOK, Maybe
  <2>. QED  BY <1>3, <2>1, LeakMakeCallback
<1>4. ASSUME NEW h \in Handle, NEW c \in Closure,
             \/ NewCallback(h, c)
             \/ \E k \in Handle : CopyFreed(h, k, c)
             \/ \E f \in Function : CastFunction(h, c, f)
             \/ \E f \in Function, p \in Place : StoreFunction(h, c, f, p)
      PROVE  NothingLeaked'
  BY <1>2, <1>3, <1>4 DEF NewCallback, CopyFreed, CastFunction, StoreFunction
<1>5. ASSUME NEW h \in Handle, NEW p \in Place, ReadPlace(h, p)  PROVE NothingLeaked'
  BY <1>1, <1>2, <1>5 DEF ReadPlace, MakePointer
<1>6. ASSUME NEW f \in Function, ConvertFails(f) \/ PassFunction(f)  PROVE FALSE
  BY <1>6 DEF ConvertFails, PassFunction
<1>7. ASSUME \/ \E p \in Place : CallPlace(p)
             \/ \E k \in Handle : CallHandle(k) \/ PassHandle(k)
      PROVE  NothingLeaked'
  BY <1>1, <1>7 DEF CallPlace, CallHandle, PassHandle, Trampoline, Fault
<1>8. ASSUME NEW k \in Handle, CbFree(k) \/ \E f \in Function : CbSet(k, f)
      PROVE  NothingLeaked'
  BY <1>8, LeakFree, LeakSet
<1>9. ASSUME \/ \E h, k \in Handle : CopyHandle(h, k)
             \/ \E h \in Handle, p \in Place : StoreHandle(h, p)
             \/ \E p \in Place : ClearPlace(p)
             \/ \E k \in Handle : Drop(k) \/ Collect(k)
       PROVE  NothingLeaked'
  BY <1>1, <1>9 DEF CopyHandle, StoreHandle, ClearPlace, Drop, Collect
<1>10. CASE ReturnValue \/ ReturnNothing \/ UNCHANGED vars
  BY <1>1, <1>10 DEF ReturnValue, ReturnNothing, Fault, vars
<1>. QED
  BY <1>4, <1>5, <1>6, <1>7, <1>8, <1>9, <1>10 DEF Next

(***************************************************************************)
(* Nothing is leaked: unless a Lua function is passed for an argument or   *)
(* the setup of a closure fails, a registry slot is held only by a         *)
(* callback that is not freed, whatever else the program does.             *)
(***************************************************************************)
THEOREM NoLeaks ==
  ASSUME "pass" \notin Liberty, "fail" \notin Liberty
  PROVE  Spec => []NothingLeaked
<1>1. Init => NothingLeaked
  BY DEF Init, NothingLeaked
<1>2. TypeOK /\ NothingLeaked /\ [Next]_vars => NothingLeaked'
  BY LeakNext
<1>. QED  BY <1>1, <1>2, TypeCorrect, PTL DEF Spec
=============================================================================
