-------------------------- MODULE FinalizerProofs --------------------------
(***************************************************************************)
(* Proofs about finalizers, for any number of cdata, registry slots and    *)
(* functions, and any nesting of finalizers.                               *)
(***************************************************************************)
EXTENDS Finalizer, TLAPS

-----------------------------------------------------------------------------
(***************************************************************************)
(* The inductive invariant                                                 *)
(***************************************************************************)

(* The finalizers in progress are those of distinct dying cdata. *)
Frames ==
  /\ \A i \in DOMAIN finalizing : cdata[finalizing[i].obj].st = "dying"
  /\ \A i, j \in DOMAIN finalizing : finalizing[i].obj = finalizing[j].obj => i = j

(* A cdata that was not made has no slot and nothing refers to it. *)
Born == \A o \in Object : cdata[o].st = "none" => cdata[o].gcRef = Null /\ ~Reachable(o)

(* There is a function in the slots of callbacks. *)
OthersFull == \A r \in others : registry[r] # NoFunction

IInv == TypeOK /\ RefsOwned /\ Frames /\ Born /\ OthersFull

-----------------------------------------------------------------------------
(***************************************************************************)
(* Lemmas about the operators of Finalizer                                 *)
(***************************************************************************)
LEMMA PushFrame ==
  ASSUME NEW s \in Seq(Frame), NEW e \in Frame
  PROVE  /\ Append(s, e) \in Seq(Frame)
         /\ Len(Append(s, e)) = Len(s) + 1
         /\ DOMAIN Append(s, e) = 1..(Len(s) + 1)
         /\ \A i \in DOMAIN s : i \in 1..Len(s) /\ Append(s, e)[i] = s[i]
         /\ Append(s, e)[Len(s) + 1] = e
OBVIOUS

LEMMA PopFrame ==
  ASSUME NEW s \in Seq(Frame), s # <<>>
  PROVE  LET t == SubSeq(s, 1, Len(s) - 1)
         IN  /\ t \in Seq(Frame)
             /\ \A i \in DOMAIN t : i \in DOMAIN s /\ i # Len(s) /\ t[i] = s[i]
             /\ Len(s) \in DOMAIN s
             /\ s[Len(s)] \in Frame
OBVIOUS

LEMMA CdataAt ==
  ASSUME TypeOK, NEW o \in Object
  PROVE  /\ cdata[o] \in CdataState
         /\ cdata[o].gcRef \in Maybe(Ref)
         /\ cdata[o].held \in BOOLEAN
         /\ cdata[o].gcRef # Null => cdata[o].gcRef \in Ref
BY DEF TypeOK, CdataState, Maybe

LEMMA FrameAt ==
  ASSUME TypeOK, NEW i \in DOMAIN finalizing
  PROVE  finalizing[i].obj \in Object /\ finalizing[i].fn \in Closures
<1>1. finalizing[i] \in Frame
  BY DEF TypeOK
<1>. QED  BY <1>1 DEF Frame

LEMMA FramesKept ==
  ASSUME TypeOK, Frames, UNCHANGED finalizing,
         \A o \in Object : cdata[o].st = "dying" => cdata'[o].st = "dying"
  PROVE  Frames'
BY FrameAt DEF Frames

(* An owner's slot holds a closure, and it is not a free slot. *)
LEMMA OwnerSlot ==
  ASSUME IInv, NEW o \in Object, Owner(o)
  PROVE  /\ cdata[o].gcRef \in Ref \ others
         /\ registry[cdata[o].gcRef] \in Closures
         /\ registry[cdata[o].gcRef] # NoFunction
         /\ \A r \in Ref : FreeRef(r) => r # cdata[o].gcRef
         /\ \A p \in Object : Owner(p) /\ cdata[p].gcRef = cdata[o].gcRef => p = o
BY CdataAt DEF IInv, TypeOK, RefsOwned, Owner, FreeRef

(* Lua code names only what the collector finds, and that was made. *)
LEMMA UsableReachable ==
  ASSUME TypeOK, NEW o \in Object, Usable(o)
  PROVE  Reachable(o)
<1>1. finalizing # <<>> => Len(finalizing) \in DOMAIN finalizing
  BY PopFrame DEF TypeOK
<1>. QED  BY <1>1 DEF Usable, Reachable, Top

LEMMA UsableBorn ==
  ASSUME IInv, NEW o \in Object, Usable(o)
  PROVE  cdata[o].st \in {"live", "dying", "destroyed"}
BY UsableReachable, CdataAt DEF IInv, Born, CdataState

LEMMA MakesBorn ==
  ASSUME IInv, NEW fn, Makes(fn)
  PROVE  fn \in Closures /\ fn # NoFunction /\ \A o \in fn.uses : o \in Object /\ cdata[o].st # "none"
<1>1. fn \in Closures /\ fn # NoFunction
  BY FunctionAssumption DEF Makes
<1>2. fn.uses \subseteq Object
  BY <1>1 DEF Closures
<1>. QED  BY <1>1, <1>2, UsableBorn DEF Makes

-----------------------------------------------------------------------------
(***************************************************************************)
(* Every action preserves the invariant                                    *)
(***************************************************************************)
LEMMA InitInv == Init => IInv
<1>. SUFFICES ASSUME Init PROVE IInv
  OBVIOUS
<1>1. TypeOK
  <2>1. cdata \in [Object -> CdataState]
    BY DEF Init, CdataState, Maybe
  <2>2. registry \in [Ref -> Closures \cup {NoFunction}]
    BY DEF Init
  <2>3. ran \in {<<>>} \cup (Object \X Closures)
    BY DEF Init
  <2>4. born \in Seq(Object) /\ finalizing \in Seq(Frame)
    BY DEF Init
  <2>5. others \subseteq Ref /\ closing \in BOOLEAN /\ fault \in Faults
    BY DEF Init, Faults
  <2>. QED  BY <2>1, <2>2, <2>3, <2>4, <2>5 DEF TypeOK
<1>2. RefsOwned /\ Frames /\ OthersFull
  BY DEF Init, RefsOwned, Owner, Frames, OthersFull
<1>3. Born
  BY DEF Init, Born, Reachable, NoFunction
<1>. QED  BY <1>1, <1>2, <1>3 DEF IInv

LEMMA StepNew ==
  ASSUME IInv, NEW o \in Object, New(o)
  PROVE  IInv'
<1>1. PICK g \in Maybe(Ref), f \in Closures \cup {NoFunction} :
        /\ cdata' = [cdata EXCEPT ![o] = [st |-> "live", gcRef |-> g, held |-> TRUE]]
        /\ \/ g = Null /\ UNCHANGED registry
           \/ g \in Ref /\ FreeRef(g) /\ Makes(f) /\ registry' = [registry EXCEPT ![g] = f]
  BY NullAssumption DEF New, Makes, Maybe
<1>2. cdata[o].st = "none" /\ ~Reachable(o)
      /\ UNCHANGED <<others, finalizing, closing, ran, fault>> /\ born' = Append(born, o)
  BY DEF New, IInv, Born
<1>3. TypeOK'
  <2>1. [st |-> "live", gcRef |-> g, held |-> TRUE] \in CdataState
    BY DEF CdataState
  <2>2. born' \in Seq(Object)
    BY <1>2 DEF IInv, TypeOK
  <2>3. cdata' \in [Object -> CdataState]
    BY <1>1, <2>1 DEF IInv, TypeOK
  <2>4. registry' \in [Ref -> Closures \cup {NoFunction}]
    BY <1>1 DEF IInv, TypeOK
  <2>. QED  BY <1>2, <2>2, <2>3, <2>4 DEF IInv, TypeOK
<1>4. RefsOwned'
  <2>1. ASSUME NEW p \in Object, Owner(p)'
        PROVE  /\ (p = o /\ g \in Ref) \/ (p # o /\ Owner(p) /\ cdata'[p] = cdata[p])
               /\ registry'[cdata'[p].gcRef] # NoFunction
               /\ cdata'[p].gcRef \notin others
    <3>1. CASE p = o
      <4>1. cdata'[o].gcRef = g /\ g # Null
        BY <1>1, <2>1, <3>1 DEF IInv, TypeOK, Owner
      <4>2. g \in Ref /\ FreeRef(g) /\ registry'[g] = f /\ f # NoFunction
        BY <1>1, <4>1, MakesBorn DEF IInv, TypeOK
      <4>. QED  BY <1>2, <3>1, <4>1, <4>2 DEF IInv, FreeRef, OthersFull
    <3>2. CASE p # o
      <4>1. Owner(p) /\ cdata'[p] = cdata[p]
        BY <1>1, <2>1, <3>2 DEF IInv, TypeOK, Owner
      <4>. QED  BY <1>1, <4>1, <3>2, OwnerSlot DEF IInv, TypeOK
    <3>. QED  BY <3>1, <3>2
  <2>2. ASSUME NEW p \in Object, NEW q \in Object, Owner(p)', Owner(q)',
               cdata'[p].gcRef = cdata'[q].gcRef
        PROVE  p = q
    <3>1. cdata'[o].gcRef = g
      BY <1>1 DEF IInv, TypeOK
    <3>2. g \in Ref => FreeRef(g)
      BY <1>1, NullAssumption
    <3>. QED  BY <2>1, <2>2, <3>1, <3>2, OwnerSlot
  <2>. QED  BY <1>2, <2>1, <2>2 DEF RefsOwned
<1>5. Frames'
  BY <1>1, <1>2, FramesKept DEF IInv, TypeOK
<1>6. Born'
  <2>. SUFFICES ASSUME NEW p \in Object, cdata'[p].st = "none"
                PROVE  cdata'[p].gcRef = Null /\ ~Reachable(p)'
    BY DEF Born
  <2>1. p # o /\ cdata'[p] = cdata[p]
    BY <1>1 DEF IInv, TypeOK
  <2>2. cdata[p].gcRef = Null /\ ~Reachable(p)
    BY <2>1 DEF IInv, Born
  <2>3. \A r \in Ref : p \notin registry'[r].uses
    BY <1>1, <2>1, <2>2, MakesBorn DEF IInv, TypeOK, Reachable
  <2>. QED  BY <1>2, <2>1, <2>2, <2>3 DEF Reachable
<1>7. OthersFull'
  BY <1>1, <1>2, MakesBorn DEF IInv, TypeOK, OthersFull, FreeRef
<1>. QED  BY <1>3, <1>4, <1>5, <1>6, <1>7 DEF IInv

(* A step that writes one slot of the registry, which no owner has, and no *)
(* cdata.                                                                  *)
LEMMA StepSlot ==
  ASSUME IInv, NEW r \in Ref, NEW f \in Closures \cup {NoFunction},
         \A o \in f.uses : o \in Object => cdata[o].st # "none",
         \A o \in Object : Owner(o) => cdata[o].gcRef # r,
         registry' = [registry EXCEPT ![r] = f],
         others' \subseteq Ref,
         \A q \in others' : (q \in others /\ q # r) \/ (q = r /\ f # NoFunction),
         UNCHANGED <<cdata, born, finalizing, closing, ran, fault>>
  PROVE  IInv'
<1>1. TypeOK'
  BY DEF IInv, TypeOK
<1>2. RefsOwned'
  <2>1. \A o \in Object : Owner(o)' <=> Owner(o)
    BY DEF Owner
  <2>. QED  BY <2>1, OwnerSlot DEF IInv, TypeOK, RefsOwned
<1>3. Frames'
  BY DEF IInv, Frames
<1>4. Born'
  <2>. SUFFICES ASSUME NEW p \in Object, cdata'[p].st = "none"
                PROVE  cdata'[p].gcRef = Null /\ ~Reachable(p)'
    BY DEF Born
  <2>1. cdata[p].gcRef = Null /\ ~Reachable(p)
    BY DEF IInv, Born
  <2>2. \A q \in Ref : p \notin registry'[q].uses
    BY <2>1 DEF IInv, TypeOK, Reachable
  <2>. QED  BY <2>1, <2>2 DEF Reachable
<1>5. OthersFull'
  BY DEF IInv, TypeOK, OthersFull
<1>. QED  BY <1>1, <1>2, <1>3, <1>4, <1>5 DEF IInv

LEMMA StepCallbackRef ==
  ASSUME IInv, NEW r \in Ref, NEW fn \in Closures, CallbackRef(r, fn)
  PROVE  IInv'
<1>1. \A o \in Object : Owner(o) => cdata[o].gcRef # r
  BY OwnerSlot DEF CallbackRef
<1>2. /\ fn # NoFunction /\ fn \in Closures \cup {NoFunction}
      /\ \A o \in fn.uses : o \in Object => cdata[o].st # "none"
  BY MakesBorn DEF CallbackRef
<1>3. others' = others \cup {r} /\ others' \subseteq Ref
  BY DEF CallbackRef, IInv, TypeOK
<1>4. \A q \in others' : (q \in others /\ q # r) \/ (q = r /\ fn # NoFunction)
  BY <1>2, <1>3
<1>5. registry' = [registry EXCEPT ![r] = fn]
      /\ UNCHANGED <<cdata, born, finalizing, closing, ran, fault>>
  BY DEF CallbackRef
<1>. QED  BY <1>1, <1>2, <1>3, <1>4, <1>5, StepSlot

LEMMA StepCallbackUnref ==
  ASSUME IInv, NEW r \in Ref, CallbackUnref(r)
  PROVE  IInv'
<1>1. \A o \in Object : Owner(o) => cdata[o].gcRef # r
  BY OwnerSlot DEF CallbackUnref
<1>2. NoFunction.uses = {}
  BY DEF NoFunction
<1>3. others' = others \ {r} /\ others' \subseteq Ref
  BY DEF CallbackUnref, IInv, TypeOK
<1>. QED  BY <1>1, <1>2, <1>3, StepSlot DEF CallbackUnref, Unref

(* A step that changes neither slots nor what a cdata is. *)
LEMMA StepHeld ==
  ASSUME IInv, NEW o \in Object, NEW b \in BOOLEAN, cdata[o].st # "none",
         cdata' = [cdata EXCEPT ![o].held = b],
         UNCHANGED <<registry, others, born, finalizing, closing, ran, fault>>
  PROVE  IInv'
<1>1. cdata' \in [Object -> CdataState]
  BY DEF IInv, TypeOK, CdataState
<1>2. \A p \in Object : /\ cdata'[p].st = cdata[p].st /\ cdata'[p].gcRef = cdata[p].gcRef
                        /\ p # o => cdata'[p] = cdata[p]
  BY DEF IInv, TypeOK, CdataState
<1>3. TypeOK'
  BY <1>1 DEF IInv, TypeOK
<1>4. RefsOwned' /\ OthersFull'
  BY <1>2 DEF IInv, RefsOwned, Owner, OthersFull
<1>5. Frames'
  BY <1>2, FramesKept DEF IInv
<1>6. Born'
  BY <1>2 DEF IInv, Born, Reachable
<1>. QED  BY <1>3, <1>4, <1>5, <1>6 DEF IInv

LEMMA StepBreak ==
  ASSUME IInv, NEW w \in Faults, Break(w)
  PROVE  IInv'
BY DEF IInv, Break, TypeOK, RefsOwned, Owner, Frames, Born, Reachable, OthersFull

(* A step that gives a cdata a slot of its own, or none. *)
LEMMA StepGcSet ==
  ASSUME IInv, NEW o \in Object, NEW fn \in Closures, GcSet(o, fn)
  PROVE  IInv'
<1>1. PICK r \in Ref :
        /\ FreeRef(r)
        /\ registry' = [registry EXCEPT ![r] = fn]
        /\ cdata' = [cdata EXCEPT ![o].gcRef = r]
  BY DEF GcSet
<1>2. cdata[o].st # "none" /\ UNCHANGED <<others, born, finalizing, closing, ran, fault>>
      /\ fn # NoFunction /\ \A p \in fn.uses : cdata[p].st # "none"
  BY UsableBorn, MakesBorn DEF GcSet
<1>3. cdata' \in [Object -> CdataState]
  BY <1>1 DEF IInv, TypeOK, CdataState, Maybe
<1>4. \A p \in Object : /\ cdata'[p].st = cdata[p].st
                        /\ cdata'[p].held = cdata[p].held
                        /\ p # o => cdata'[p] = cdata[p]
  BY <1>1 DEF IInv, TypeOK, CdataState
<1>5. cdata'[o].gcRef = r
  BY <1>1 DEF IInv, TypeOK, CdataState
<1>6. TypeOK'
  BY <1>1, <1>2, <1>3 DEF IInv, TypeOK
<1>7. RefsOwned'
  <2>1. ASSUME NEW p \in Object, Owner(p)'
        PROVE  /\ p = o \/ (p # o /\ Owner(p) /\ cdata'[p] = cdata[p])
               /\ registry'[cdata'[p].gcRef] # NoFunction
               /\ cdata'[p].gcRef \notin others
    <3>1. CASE p = o
      BY <1>1, <1>2, <1>5, <3>1 DEF IInv, TypeOK, FreeRef, OthersFull
    <3>2. CASE p # o
      <4>1. Owner(p) /\ cdata'[p] = cdata[p]
        BY <1>4, <2>1, <3>2 DEF Owner
      <4>. QED  BY <1>1, <4>1, <3>2, OwnerSlot DEF IInv, TypeOK
    <3>. QED  BY <3>1, <3>2
  <2>2. ASSUME NEW p \in Object, NEW q \in Object, Owner(p)', Owner(q)',
               cdata'[p].gcRef = cdata'[q].gcRef
        PROVE  p = q
    BY <1>1, <1>5, <2>1, <2>2, OwnerSlot
  <2>. QED  BY <1>2, <2>1, <2>2 DEF RefsOwned
<1>8. Frames'
  BY <1>2, <1>4, FramesKept DEF IInv
<1>9. Born'
  <2>. SUFFICES ASSUME NEW p \in Object, cdata'[p].st = "none"
                PROVE  cdata'[p].gcRef = Null /\ ~Reachable(p)'
    BY DEF Born
  <2>1. p # o /\ cdata'[p] = cdata[p]
    BY <1>2, <1>4
  <2>2. cdata[p].gcRef = Null /\ ~Reachable(p)
    BY <2>1 DEF IInv, Born
  <2>3. \A q \in Ref : p \notin registry'[q].uses
    BY <1>1, <1>2, <2>1, <2>2 DEF IInv, TypeOK, Reachable
  <2>. QED  BY <1>2, <2>1, <2>2, <2>3 DEF Reachable
<1>10. OthersFull'
  BY <1>1, <1>2 DEF IInv, TypeOK, OthersFull, FreeRef
<1>. QED  BY <1>6, <1>7, <1>8, <1>9, <1>10 DEF IInv

LEMMA StepGcClear ==
  ASSUME IInv, NEW o \in Object, GcClear(o)
  PROVE  IInv'
<1>1. CASE cdata[o].st = "destroyed"
  BY <1>1, StepBreak DEF GcClear, Faults
<1>2. CASE cdata[o].st # "destroyed"
  <2>. DEFINE r == cdata[o].gcRef
  <2>1. Owner(o) /\ r \in Ref \ others
    BY <1>2, UsableBorn, OwnerSlot DEF GcClear, Owner
  <2>2. /\ registry' = [registry EXCEPT ![r] = NoFunction]
        /\ cdata' = [cdata EXCEPT ![o].gcRef = Null]
        /\ UNCHANGED <<others, born, finalizing, closing, ran, fault>>
    BY <1>2 DEF GcClear, Unref
  <2>3. cdata' \in [Object -> CdataState]
    BY <2>2 DEF IInv, TypeOK, CdataState, Maybe
  <2>4. \A p \in Object : /\ cdata'[p].st = cdata[p].st
                          /\ cdata'[p].held = cdata[p].held
                          /\ p # o => cdata'[p] = cdata[p]
    BY <2>2 DEF IInv, TypeOK, CdataState
  <2>5. cdata'[o].gcRef = Null
    BY <2>2 DEF IInv, TypeOK, CdataState
  <2>6. TypeOK'
    BY <2>2, <2>3 DEF IInv, TypeOK
  <2>7. RefsOwned'
    <3>1. ASSUME NEW p \in Object, Owner(p)'
          PROVE  p # o /\ Owner(p) /\ cdata'[p] = cdata[p] /\ cdata[p].gcRef # r
      BY <2>1, <2>4, <2>5, <3>1, OwnerSlot DEF Owner
    <3>. QED  BY <2>1, <2>2, <3>1, OwnerSlot DEF IInv, TypeOK, RefsOwned
  <2>8. Frames'
    BY <2>2, <2>4, FramesKept DEF IInv
  <2>9. Born'
    <3>1. \A q \in Ref : registry'[q].uses \subseteq registry[q].uses
      BY <2>1, <2>2 DEF IInv, TypeOK, NoFunction
    <3>. QED  BY <2>2, <2>4, <2>5, <3>1 DEF IInv, Born, Reachable
  <2>10. OthersFull'
    BY <2>1, <2>2 DEF IInv, TypeOK, OthersFull
  <2>. QED  BY <2>6, <2>7, <2>8, <2>9, <2>10 DEF IInv
<1>. QED  BY <1>1, <1>2

LEMMA StepBegin ==
  ASSUME IInv, NEW o \in Object, cdata[o].st = "live", BeginDestroy(o)
  PROVE  IInv'
<1>1. PICK s \in {"dying", "destroyed"} :
        /\ cdata' = [cdata EXCEPT ![o].st = s]
        /\ \/ s = "destroyed" /\ cdata[o].gcRef = Null /\ UNCHANGED <<finalizing, ran>>
           \/ /\ s = "dying" /\ cdata[o].gcRef # Null
              /\ finalizing' = Append(finalizing, [obj |-> o, fn |-> registry[cdata[o].gcRef]])
              /\ ran' = <<o, registry[cdata[o].gcRef]>>
  BY DEF BeginDestroy
<1>2. UNCHANGED <<registry, others, born, closing, fault>>
  BY DEF BeginDestroy
<1>3. cdata' \in [Object -> CdataState]
  BY <1>1 DEF IInv, TypeOK, CdataState
<1>4. \A p \in Object : /\ cdata'[p].gcRef = cdata[p].gcRef
                        /\ cdata'[p].held = cdata[p].held
                        /\ p # o => cdata'[p] = cdata[p]
  BY <1>1 DEF IInv, TypeOK, CdataState
<1>5. cdata'[o].st = s
  BY <1>1 DEF IInv, TypeOK, CdataState
<1>6. RefsOwned'
  <2>1. \A p \in Object : Owner(p)' => Owner(p)
    BY <1>4 DEF Owner
  <2>. QED  BY <1>2, <1>4, <2>1 DEF IInv, RefsOwned
<1>7. OthersFull'
  BY <1>2 DEF IInv, OthersFull
<1>8. CASE s = "destroyed"
  <2>1. TypeOK'
    BY <1>1, <1>2, <1>3, <1>8 DEF IInv, TypeOK
  <2>2. Frames'
    BY <1>1, <1>4, <1>8, FramesKept DEF IInv
  <2>3. Born'
    BY <1>1, <1>2, <1>4, <1>5, <1>8 DEF IInv, Born, Reachable
  <2>. QED  BY <1>6, <1>7, <2>1, <2>2, <2>3 DEF IInv
<1>9. CASE s = "dying"
  <2>. DEFINE f == registry[cdata[o].gcRef]
              e == [obj |-> o, fn |-> f]
  <2>1. f \in Closures /\ cdata[o].gcRef \in Ref
    BY <1>1, <1>9, OwnerSlot DEF Owner
  <2>2. e \in Frame /\ finalizing \in Seq(Frame)
    BY <2>1 DEF Frame, IInv, TypeOK
  <2>3. finalizing' = Append(finalizing, e) /\ ran' = <<o, f>>
    BY <1>1, <1>9
  <2>4. /\ finalizing' \in Seq(Frame)
        /\ \A i \in DOMAIN finalizing' :
             (i \in DOMAIN finalizing /\ finalizing'[i] = finalizing[i])
             \/ (i \notin DOMAIN finalizing /\ i = Len(finalizing) + 1 /\ finalizing'[i] = e)
    BY <2>2, <2>3, PushFrame
  <2>5. TypeOK'
    <3>1. ran' \in {<<>>} \cup (Object \X Closures)
      BY <2>1, <2>3
    <3>. QED  BY <1>2, <1>3, <2>4, <3>1 DEF IInv, TypeOK
  <2>6. Frames'
    <3>1. \A i \in DOMAIN finalizing : /\ finalizing[i].obj \in Object
                                       /\ finalizing[i].obj # o
                                       /\ cdata[finalizing[i].obj].st = "dying"
      BY FrameAt DEF IInv, Frames
    <3>2. e.obj = o
      OBVIOUS
    <3>3. \A i \in DOMAIN finalizing' : cdata'[finalizing'[i].obj].st = "dying"
      BY <1>4, <1>5, <1>9, <2>4, <3>1, <3>2
    <3>4. ASSUME NEW i \in DOMAIN finalizing', NEW j \in DOMAIN finalizing',
                 finalizing'[i].obj = finalizing'[j].obj
          PROVE  i = j
      BY <2>4, <3>1, <3>2, <3>4 DEF IInv, Frames
    <3>. QED  BY <3>3, <3>4 DEF Frames
  <2>7. Born'
    <3>. SUFFICES ASSUME NEW p \in Object, cdata'[p].st = "none"
                  PROVE  cdata'[p].gcRef = Null /\ ~Reachable(p)'
      BY DEF Born
    <3>1. p # o /\ cdata'[p] = cdata[p] /\ cdata[p].gcRef = Null /\ ~Reachable(p)
      BY <1>4, <1>5, <1>9 DEF IInv, Born
    <3>2. p \notin f.uses
      BY <2>1, <3>1 DEF Reachable
    <3>3. ASSUME NEW i \in DOMAIN finalizing'
          PROVE  p # finalizing'[i].obj /\ p \notin finalizing'[i].fn.uses
      BY <2>4, <3>1, <3>2 DEF Reachable
    <3>. QED  BY <1>2, <3>1, <3>3 DEF Reachable
  <2>. QED  BY <1>6, <1>7, <2>5, <2>6, <2>7 DEF IInv
<1>. QED  BY <1>1, <1>8, <1>9

LEMMA StepEnd ==
  ASSUME IInv, EndDestroy
  PROVE  IInv'
<1>. DEFINE o == Top.obj
            r == cdata[o].gcRef
<1>1. finalizing' = Pop /\ finalizing # <<>>
      /\ UNCHANGED <<others, born, closing, ran, fault>>
  BY DEF EndDestroy
<1>2. /\ finalizing' \in Seq(Frame)
      /\ \A i \in DOMAIN finalizing' :
           i \in DOMAIN finalizing /\ i # Len(finalizing) /\ finalizing'[i] = finalizing[i]
      /\ Len(finalizing) \in DOMAIN finalizing
  BY <1>1, PopFrame DEF IInv, TypeOK, Pop
<1>3. o \in Object /\ cdata[o].st = "dying"
  BY <1>2, FrameAt DEF IInv, Frames, Top
<1>4. cdata' = [cdata EXCEPT ![o].st = "destroyed"]
  BY DEF EndDestroy
<1>5. /\ cdata' \in [Object -> CdataState]
      /\ cdata'[o].st = "destroyed"
      /\ \A p \in Object : /\ cdata'[p].gcRef = cdata[p].gcRef
                           /\ cdata'[p].held = cdata[p].held
                           /\ p # o => cdata'[p] = cdata[p]
  BY <1>3, <1>4 DEF IInv, TypeOK, CdataState
<1>6. \/ r = Null /\ registry' = registry
      \/ /\ Owner(o) /\ r \in Ref \ others
         /\ registry' = [registry EXCEPT ![r] = NoFunction]
  BY <1>3, OwnerSlot DEF EndDestroy, Unref, Owner
<1>7. TypeOK'
  <2>1. registry' \in [Ref -> Closures \cup {NoFunction}]
    BY <1>6 DEF IInv, TypeOK
  <2>. QED  BY <1>1, <1>2, <1>5, <2>1 DEF IInv, TypeOK
<1>8. RefsOwned'
  <2>1. ASSUME NEW p \in Object, Owner(p)'
        PROVE  /\ Owner(p) /\ cdata'[p] = cdata[p]
               /\ registry'[cdata[p].gcRef] # NoFunction
    <3>1. p # o /\ Owner(p) /\ cdata'[p] = cdata[p]
      BY <1>5, <2>1 DEF Owner
    <3>. QED  BY <1>3, <1>6, <3>1, OwnerSlot DEF IInv, TypeOK
  <2>. QED  BY <1>1, <2>1, OwnerSlot DEF RefsOwned
<1>9. Frames'
  <2>1. ASSUME NEW i \in DOMAIN finalizing'
        PROVE  cdata'[finalizing'[i].obj].st = "dying"
    <3>1. finalizing[i].obj \in Object /\ finalizing[i].obj # o
      BY <1>2, FrameAt DEF IInv, Frames, Top
    <3>. QED  BY <1>2, <1>5, <3>1 DEF IInv, Frames
  <2>. QED  BY <1>2, <2>1 DEF IInv, Frames
<1>10. Born'
  <2>1. \A q \in Ref : registry'[q].uses \subseteq registry[q].uses
    BY <1>6 DEF IInv, TypeOK, NoFunction
  <2>. QED  BY <1>2, <1>3, <1>5, <2>1 DEF IInv, Born, Reachable
<1>11. OthersFull'
  BY <1>1, <1>6 DEF IInv, TypeOK, OthersFull
<1>. QED  BY <1>7, <1>8, <1>9, <1>10, <1>11 DEF IInv

LEMMA StepClose ==
  ASSUME IInv, CloseState
  PROVE  IInv'
BY DEF IInv, CloseState, TypeOK, RefsOwned, Owner, Frames, Born, Reachable, OthersFull

LEMMA NextInv == IInv /\ [Next]_vars => IInv'
<1>. SUFFICES ASSUME IInv, [Next]_vars PROVE IInv'
  OBVIOUS
<1>1. ASSUME NEW o \in Object, New(o) PROVE IInv'
  BY <1>1, StepNew
<1>2. ASSUME NEW o \in Object, GcClear(o) PROVE IInv'
  BY <1>2, StepGcClear
<1>3. ASSUME NEW o \in Object, Use(o) PROVE IInv'
  BY <1>3, StepBreak DEF Use, Faults
<1>4. ASSUME NEW o \in Object, Drop(o) PROVE IInv'
  BY <1>4, StepHeld, UsableBorn DEF Drop
<1>5. ASSUME NEW o \in Object, Store(o) PROVE IInv'
  BY <1>5, StepHeld, UsableBorn DEF Store
<1>6. ASSUME NEW o \in Object, Collect(o) PROVE IInv'
  BY <1>6, StepBegin DEF Collect
<1>7. ASSUME NEW o \in Object, NEW fn \in Closures, GcSet(o, fn) PROVE IInv'
  BY <1>7, StepGcSet
<1>8. ASSUME NEW r \in Ref, CallbackUnref(r) PROVE IInv'
  BY <1>8, StepCallbackUnref
<1>9. ASSUME NEW r \in Ref, NEW fn \in Closures, CallbackRef(r, fn) PROVE IInv'
  BY <1>9, StepCallbackRef
<1>10. CASE CloseState
  BY <1>10, StepClose
<1>11. ASSUME NEW i \in DOMAIN born, CloseNext(i) PROVE IInv'
  <2>1. born[i] \in Object
    BY DEF IInv, TypeOK
  <2>. QED  BY <1>11, <2>1, StepBegin DEF CloseNext
<1>12. CASE EndDestroy
  BY <1>12, StepEnd
<1>13. CASE UNCHANGED vars
  BY <1>13 DEF vars, IInv, TypeOK, RefsOwned, Owner, Frames, Born, Reachable, OthersFull
<1>. QED
  BY <1>1, <1>2, <1>3, <1>4, <1>5, <1>6, <1>7, <1>8, <1>9, <1>10, <1>11, <1>12, <1>13 DEF Next

LEMMA Inductive == Spec => []IInv
<1>. QED  BY InitInv, NextInv, PTL DEF Spec

-----------------------------------------------------------------------------
(***************************************************************************)
(* What holds for every program                                            *)
(***************************************************************************)

(* Every reachable state is well-typed; in particular gc_ref is a slot of  *)
(* the registry or none, and the finalizer that destroy_cdata() takes from *)
(* the registry is a function.                                             *)
THEOREM TypeCorrect == Spec => []TypeOK
<1>1. IInv => TypeOK
  BY DEF IInv
<1>. QED  BY <1>1, Inductive, PTL

(* gc_f, make_cdata and destroy_cdata never let two cdata, or a cdata and  *)
(* a callback, have the same slot, so neither gives back a slot of another.*)
THEOREM RefsAlwaysOwned == Spec => []RefsOwned
<1>1. IInv => RefsOwned
  BY DEF IInv
<1>. QED  BY <1>1, Inductive, PTL

LEMMA StepOthers ==
  ASSUME IInv, Next
  PROVE  \A r \in others : registry'[r] # registry[r] => r \notin others'
<1>. SUFFICES ASSUME NEW r \in others, r \in others' PROVE registry'[r] = registry[r]
  OBVIOUS
<1>0. r \in Ref /\ registry[r] # NoFunction
  BY DEF IInv, TypeOK, OthersFull
<1>1. ASSUME NEW q \in Ref, NEW f, FreeRef(q) \/ q \notin others',
             registry' = [registry EXCEPT ![q] = f]
      PROVE  registry'[r] = registry[r]
  BY <1>0, <1>1 DEF FreeRef, IInv, TypeOK
<1>2. ASSUME NEW o \in Object, New(o) PROVE registry'[r] = registry[r]
  BY <1>1, <1>2 DEF New, FreeRef
<1>3. ASSUME NEW o \in Object, GcClear(o) PROVE registry'[r] = registry[r]
  <2>1. CASE cdata[o].st = "destroyed"
    BY <1>3, <2>1 DEF GcClear, Break
  <2>2. CASE cdata[o].st # "destroyed"
    <3>1. Owner(o)
      BY <1>3, <2>2, UsableBorn DEF GcClear, Owner
    <3>2. cdata[o].gcRef \in Ref /\ cdata[o].gcRef \notin others' /\ registry' = Unref(cdata[o].gcRef)
      BY <1>3, <2>2, <3>1, OwnerSlot DEF GcClear
    <3>. QED  BY <1>1, <3>2 DEF Unref
  <2>. QED  BY <2>1, <2>2
<1>4. ASSUME NEW o \in Object, NEW fn \in Closures, GcSet(o, fn) PROVE registry'[r] = registry[r]
  BY <1>1, <1>4 DEF GcSet
<1>5. ASSUME NEW q \in Ref, CallbackUnref(q) PROVE registry'[r] = registry[r]
  BY <1>1, <1>5 DEF CallbackUnref, Unref
<1>6. ASSUME NEW q \in Ref, NEW fn \in Closures, CallbackRef(q, fn) PROVE registry'[r] = registry[r]
  BY <1>1, <1>6 DEF CallbackRef
<1>7. CASE EndDestroy
  <2>1. Top.obj \in Object /\ cdata[Top.obj].st = "dying"
    BY <1>7, PopFrame, FrameAt DEF EndDestroy, IInv, TypeOK, Frames, Top
  <2>2. CASE cdata[Top.obj].gcRef = Null
    BY <1>7, <2>2 DEF EndDestroy
  <2>3. CASE cdata[Top.obj].gcRef # Null
    <3>1. cdata[Top.obj].gcRef \in Ref \ others
      BY <2>1, <2>3, OwnerSlot DEF Owner
    <3>. QED  BY <1>1, <1>7, <2>3, <3>1 DEF EndDestroy, Unref
  <2>. QED  BY <2>2, <2>3
<1>8. ASSUME NEW o \in Object, BeginDestroy(o) \/ Use(o) \/ Drop(o) \/ Store(o)
      PROVE  registry'[r] = registry[r]
  BY <1>8 DEF BeginDestroy, Use, Break, Drop, Store
<1>9. ASSUME NEW j \in DOMAIN born, CloseNext(j) PROVE registry'[r] = registry[r]
  BY <1>9 DEF CloseNext, BeginDestroy
<1>10. CASE CloseState
  BY <1>10 DEF CloseState
<1>. QED
  BY <1>2, <1>3, <1>4, <1>5, <1>6, <1>7, <1>8, <1>9, <1>10 DEF Next, Collect

(* No step that concerns finalizers changes the function of a callback.    *)
THEOREM CallbacksKept == Spec => CallbacksUntouched
<1>1. IInv /\ [Next]_vars => [\A r \in others : registry'[r] # registry[r] => r \notin others']_vars
  BY StepOthers
<1>. QED  BY <1>1, Inductive, PTL DEF Spec, CallbacksUntouched

-----------------------------------------------------------------------------
(***************************************************************************)
(* Finalizer implements FinalizerTable                                     *)
(***************************************************************************)

(* Nothing is changed of a cdata that Lua can see through FinalizerTable. *)
Same(o) ==
  /\ cdata'[o].st = cdata[o].st
  /\ cdata[o].st = "live" =>
       /\ cdata'[o].gcRef = cdata[o].gcRef
       /\ cdata[o].gcRef # Null => registry'[cdata[o].gcRef] = registry[cdata[o].gcRef]

LEMMA FinStutter ==
  ASSUME \A o \in Object : Same(o)
  PROVE  Fin' = Fin
BY DEF Fin, Same

LEMMA FinChange ==
  ASSUME NEW o \in Object, NEW v, \A p \in Object \ {o} : Same(p),
         v = IF cdata'[o].st = "none" THEN Unborn
             ELSE IF cdata'[o].st # "live" THEN Gone
             ELSE IF cdata'[o].gcRef = Null THEN NoFunction ELSE registry'[cdata'[o].gcRef]
  PROVE  Fin' = [Fin EXCEPT ![o] = v]
<1>1. \A p \in Object \ {o} : Fin'[p] = Fin[p]
  BY DEF Fin, Same
<1>2. Fin'[o] = v
  BY DEF Fin
<1>. QED  BY <1>1, <1>2 DEF Fin

LEMMA FinLive ==
  ASSUME IInv, NEW o \in Object, cdata[o].st = "live"
  PROVE  /\ Fin[o] \in Closures \cup {NoFunction}
         /\ Fin[o] = IF cdata[o].gcRef = Null THEN NoFunction ELSE registry[cdata[o].gcRef]
         /\ cdata[o].gcRef # Null => Fin[o] # NoFunction
         /\ Table!Alive(o)
<1>1. /\ Fin[o] = IF cdata[o].gcRef = Null THEN NoFunction ELSE registry[cdata[o].gcRef]
      /\ cdata[o].gcRef # Null => Fin[o] \in Closures /\ Fin[o] # NoFunction
  BY OwnerSlot DEF Fin, Owner
<1>. QED  BY <1>1, TableAssumption DEF Table!Alive

(* Only the owner of a slot is affected when the slot is written. *)
LEMMA SlotWritten ==
  ASSUME IInv, NEW r \in Ref, NEW f, registry' = [registry EXCEPT ![r] = f],
         NEW o \in Object, cdata'[o].st = cdata[o].st, cdata'[o].gcRef = cdata[o].gcRef,
         Owner(o) => cdata[o].gcRef # r
  PROVE  Same(o)
BY OwnerSlot DEF Same, Owner, IInv, TypeOK

LEMMA TableNew ==
  ASSUME IInv, NEW o \in Object, New(o)
  PROVE  \E f \in Closures \cup {NoFunction} : Table!New(o, f)
<1>1. Fin[o] = Unborn
  BY DEF New, Fin
<1>2. \A p \in Object \ {o} : cdata'[p] = cdata[p]
  BY DEF New, IInv, TypeOK
<1>3. UNCHANGED ran
  BY DEF New
<1>4. CASE /\ cdata' = [cdata EXCEPT ![o] = [st |-> "live", gcRef |-> Null, held |-> TRUE]]
           /\ UNCHANGED registry
  <2>1. cdata'[o].st = "live" /\ cdata'[o].gcRef = Null
    BY <1>4 DEF IInv, TypeOK
  <2>2. \A p \in Object \ {o} : Same(p)
    BY <1>2, <1>4 DEF Same
  <2>3. Fin' = [Fin EXCEPT ![o] = NoFunction]
    BY <2>1, <2>2, FinChange
  <2>. QED  BY <1>1, <1>3, <2>3 DEF Table!New
<1>5. ASSUME NEW r \in Ref, NEW fn \in Closures, FreeRef(r),
             cdata' = [cdata EXCEPT ![o] = [st |-> "live", gcRef |-> r, held |-> TRUE]],
             registry' = [registry EXCEPT ![r] = fn]
      PROVE  Table!New(o, fn)
  <2>1. cdata'[o].st = "live" /\ cdata'[o].gcRef = r /\ r # Null /\ registry'[r] = fn
    BY <1>5, NullAssumption DEF IInv, TypeOK
  <2>2. \A p \in Object \ {o} : Same(p)
    BY <1>2, <1>5, SlotWritten, OwnerSlot
  <2>3. Fin' = [Fin EXCEPT ![o] = fn]
    BY <2>1, <2>2, FinChange
  <2>. QED  BY <1>1, <1>3, <2>3 DEF Table!New
<1>. QED  BY <1>4, <1>5 DEF New, Makes

LEMMA TableGcSet ==
  ASSUME IInv, NEW o \in Object, NEW fn \in Closures, GcSet(o, fn)
  PROVE  Table!Associate(o, fn) \/ UNCHANGED <<Fin, ran>>
<1>1. PICK r \in Ref :
        /\ FreeRef(r)
        /\ registry' = [registry EXCEPT ![r] = fn]
        /\ cdata' = [cdata EXCEPT ![o].gcRef = r]
  BY DEF GcSet
<1>2. UNCHANGED ran
  BY DEF GcSet
<1>3. /\ \A p \in Object \ {o} : cdata'[p] = cdata[p]
      /\ cdata'[o].st = cdata[o].st /\ cdata'[o].gcRef = r
      /\ registry'[r] = fn /\ r # Null
  BY <1>1, NullAssumption DEF IInv, TypeOK, CdataState
<1>4. \A p \in Object \ {o} : Same(p)
  BY <1>1, <1>3, SlotWritten, OwnerSlot
<1>5. CASE cdata[o].st = "live"
  <2>1. Fin' = [Fin EXCEPT ![o] = fn]
    BY <1>3, <1>4, <1>5, FinChange
  <2>. QED  BY <1>2, <1>5, <2>1, FinLive DEF Table!Associate
<1>6. CASE cdata[o].st # "live"
  <2>1. Same(o)
    BY <1>3, <1>6 DEF Same
  <2>. QED  BY <1>2, <1>4, <2>1, FinStutter
<1>. QED  BY <1>5, <1>6

LEMMA TableGcClear ==
  ASSUME IInv, NEW o \in Object, GcClear(o)
  PROVE  Table!Associate(o, NoFunction) \/ UNCHANGED <<Fin, ran>>
<1>1. CASE cdata[o].st = "destroyed"
  BY <1>1 DEF GcClear, Break, Fin
<1>2. CASE cdata[o].st # "destroyed"
  <2>. DEFINE r == cdata[o].gcRef
  <2>1. Owner(o) /\ r \in Ref
    BY <1>2, UsableBorn, OwnerSlot DEF GcClear, Owner
  <2>2. /\ registry' = [registry EXCEPT ![r] = NoFunction]
        /\ cdata' = [cdata EXCEPT ![o].gcRef = Null]
        /\ UNCHANGED ran
    BY <1>2 DEF GcClear, Unref
  <2>3. /\ \A p \in Object \ {o} : cdata'[p] = cdata[p]
        /\ cdata'[o].st = cdata[o].st /\ cdata'[o].gcRef = Null
    BY <2>2 DEF IInv, TypeOK, CdataState
  <2>4. \A p \in Object \ {o} : Same(p)
    BY <2>1, <2>2, <2>3, SlotWritten, OwnerSlot
  <2>5. CASE cdata[o].st = "live"
    <3>1. Fin' = [Fin EXCEPT ![o] = NoFunction]
      BY <2>3, <2>4, <2>5, FinChange
    <3>. QED  BY <2>2, <2>5, <3>1, FinLive DEF Table!Associate
  <2>6. CASE cdata[o].st # "live"
    <3>1. Same(o)
      BY <2>3, <2>6 DEF Same
    <3>. QED  BY <2>2, <2>4, <3>1, FinStutter
  <2>. QED  BY <2>5, <2>6
<1>. QED  BY <1>1, <1>2

LEMMA TableBegin ==
  ASSUME IInv, NEW o \in Object, cdata[o].st = "live", BeginDestroy(o)
  PROVE  Table!Collect(o)
<1>1. /\ UNCHANGED registry
      /\ \A p \in Object \ {o} : cdata'[p] = cdata[p]
      /\ cdata'[o].st \in {"dying", "destroyed"}
  BY DEF BeginDestroy, IInv, TypeOK, CdataState
<1>2. \A p \in Object \ {o} : Same(p)
  BY <1>1 DEF Same
<1>3. Fin' = [Fin EXCEPT ![o] = Gone]
  BY <1>1, <1>2, FinChange
<1>4. ran' = IF Fin[o] = NoFunction THEN ran ELSE <<o, Fin[o]>>
  BY FinLive DEF BeginDestroy
<1>. QED  BY <1>3, <1>4, FinLive DEF Table!Collect

LEMMA TableEnd ==
  ASSUME IInv, EndDestroy
  PROVE  UNCHANGED <<Fin, ran>>
<1>. DEFINE o == Top.obj
<1>1. o \in Object /\ cdata[o].st = "dying"
  BY PopFrame, FrameAt DEF EndDestroy, IInv, TypeOK, Frames, Top
<1>2. /\ cdata' = [cdata EXCEPT ![o].st = "destroyed"]
      /\ registry' = IF cdata[o].gcRef = Null THEN registry ELSE Unref(cdata[o].gcRef)
      /\ UNCHANGED ran
  BY DEF EndDestroy
<1>3. /\ \A p \in Object \ {o} : cdata'[p] = cdata[p]
      /\ cdata'[o].st = "destroyed"
  BY <1>1, <1>2 DEF IInv, TypeOK, CdataState
<1>4. \A p \in Object \ {o} : Same(p)
  <2>1. CASE cdata[o].gcRef = Null
    BY <1>2, <1>3, <2>1 DEF Same
  <2>2. CASE cdata[o].gcRef # Null
    <3>1. Owner(o) /\ cdata[o].gcRef \in Ref
      BY <1>1, <2>2, OwnerSlot DEF Owner
    <3>2. registry' = [registry EXCEPT ![cdata[o].gcRef] = NoFunction]
      BY <1>2, <2>2 DEF Unref
    <3>3. \A p \in Object \ {o} : Owner(p) => cdata[p].gcRef # cdata[o].gcRef
      BY <1>1, <3>1, OwnerSlot
    <3>. QED  BY <1>3, <3>1, <3>2, <3>3, SlotWritten
  <2>. QED  BY <2>1, <2>2
<1>5. Fin' = [Fin EXCEPT ![o] = Gone]
  BY <1>1, <1>3, <1>4, FinChange
<1>6. Fin[o] = Gone
  BY <1>1 DEF Fin
<1>7. Fin' = Fin
  BY <1>5, <1>6 DEF Fin
<1>. QED  BY <1>2, <1>7

LEMMA StepTable == IInv /\ [Next]_vars => [Table!Next]_(Table!tablevars)
<1>. SUFFICES ASSUME IInv, [Next]_vars PROVE Table!Next \/ UNCHANGED <<Fin, ran>>
  BY DEF Table!tablevars
<1>1. ASSUME NEW o \in Object, New(o) PROVE Table!Next
  BY <1>1, TableNew DEF Table!Next
<1>2. ASSUME NEW o \in Object, GcClear(o) PROVE Table!Next \/ UNCHANGED <<Fin, ran>>
  BY <1>2, TableGcClear DEF Table!Next
<1>3. ASSUME NEW o \in Object, Use(o) PROVE UNCHANGED <<Fin, ran>>
  BY <1>3 DEF Use, Break, Fin
<1>4. ASSUME NEW o \in Object, Drop(o) \/ Store(o) PROVE UNCHANGED <<Fin, ran>>
  <2>0. PICK b \in BOOLEAN : cdata' = [cdata EXCEPT ![o].held = b]
    BY <1>4 DEF Drop, Store
  <2>1. \A p \in Object : cdata'[p].st = cdata[p].st /\ cdata'[p].gcRef = cdata[p].gcRef
    BY <2>0 DEF IInv, TypeOK, CdataState
  <2>2. UNCHANGED <<registry, ran>>
    BY <1>4 DEF Drop, Store
  <2>. QED  BY <2>1, <2>2, FinStutter DEF Same
<1>5. ASSUME NEW o \in Object, Collect(o) PROVE Table!Next
  BY <1>5, TableBegin DEF Collect, Table!Next
<1>6. ASSUME NEW o \in Object, NEW fn \in Closures, GcSet(o, fn)
      PROVE  Table!Next \/ UNCHANGED <<Fin, ran>>
  BY <1>6, TableGcSet DEF Table!Next
<1>7. ASSUME NEW r \in Ref, NEW f, registry' = [registry EXCEPT ![r] = f],
             FreeRef(r) \/ r \in others, UNCHANGED <<cdata, ran>>
      PROVE  UNCHANGED <<Fin, ran>>
  <2>1. \A p \in Object : Same(p)
    BY <1>7, SlotWritten, OwnerSlot
  <2>. QED  BY <1>7, <2>1, FinStutter
<1>8. ASSUME NEW r \in Ref, CallbackUnref(r) PROVE UNCHANGED <<Fin, ran>>
  BY <1>7, <1>8 DEF CallbackUnref, Unref
<1>9. ASSUME NEW r \in Ref, NEW fn \in Closures, CallbackRef(r, fn) PROVE UNCHANGED <<Fin, ran>>
  BY <1>7, <1>9 DEF CallbackRef
<1>10. ASSUME NEW i \in DOMAIN born, CloseNext(i) PROVE Table!Next
  <2>1. born[i] \in Object
    BY DEF IInv, TypeOK
  <2>. QED  BY <1>10, <2>1, TableBegin DEF CloseNext, Table!Next
<1>11. CASE CloseState \/ UNCHANGED vars
  BY <1>11 DEF CloseState, vars, Fin
<1>12. CASE EndDestroy
  BY <1>12, TableEnd
<1>. QED
  BY <1>1, <1>2, <1>3, <1>4, <1>5, <1>6, <1>8, <1>9, <1>10, <1>11, <1>12 DEF Next

(* Whatever the program does, up to the end of lua_close(), cffi.gc and    *)
(* destroy_cdata() keep the promise of docs/api.md: the finalizer called   *)
(* is the one associated last with that cdata, and each cdata is collected *)
(* once.                                                                   *)
THEOREM ImplementsTable == Spec => ImplementsFinalizerTable
<1>1. Init => Table!Init
  BY DEF Init, Table!Init, Fin
<1>. QED
  BY <1>1, StepTable, Inductive, PTL DEF Spec, ImplementsFinalizerTable, Table!Spec

-----------------------------------------------------------------------------
(***************************************************************************)
(* What holds if no finalizer resurrects its cdata and the state is open   *)
(***************************************************************************)

(* What a Lua variable or a function that is anchored or running refers to. *)
Kept(o) ==
  \/ cdata[o].held
  \/ \E r \in Ref : o \in registry[r].uses
  \/ \E i \in DOMAIN finalizing : o \in finalizing[i].fn.uses

SafeInv == ~closing /\ NoFault /\ \A o \in Object : Kept(o) => cdata[o].st = "live"

LEMMA UsableSafe ==
  ASSUME IInv, SafeInv, NEW o \in Object, Usable(o)
  PROVE  cdata[o].st \in {"live", "dying"}
<1>1. CASE finalizing = <<>>
  BY <1>1 DEF Usable, SafeInv, Kept
<1>2. CASE finalizing # <<>>
  <2>1. Len(finalizing) \in DOMAIN finalizing
    BY <1>2, PopFrame DEF IInv, TypeOK
  <2>. QED  BY <2>1 DEF Usable, SafeInv, Kept, Top, IInv, Frames
<1>. QED  BY <1>1, <1>2

LEMMA MakesSafe ==
  ASSUME "resurrect" \notin Liberty, NEW fn, Makes(fn)
  PROVE  \A o \in fn.uses : cdata[o].st = "live"
BY DEF Makes

(* A step that anchors a function, and may make a cdata, or none of both. *)
LEMMA SafeSlot ==
  ASSUME IInv, SafeInv, NEW f, f = NoFunction \/ (f \in Closures /\ \A o \in f.uses : cdata[o].st = "live"),
         \A r \in Ref : registry'[r] = registry[r] \/ registry'[r] = f,
         \A o \in Object : \/ cdata'[o].st = cdata[o].st /\ cdata'[o].held = cdata[o].held
                           \/ cdata'[o].st = "live",
         UNCHANGED <<finalizing, closing, fault>>
  PROVE  SafeInv'
<1>1. NoFunction.uses = {}
  BY DEF NoFunction
<1>2. \A o \in Object : cdata[o].st = "live" => cdata'[o].st = "live"
  OBVIOUS
<1>. QED  BY <1>1, <1>2 DEF SafeInv, NoFault, Kept

LEMMA SafeNew ==
  ASSUME "resurrect" \notin Liberty, IInv, SafeInv, NEW o \in Object, New(o)
  PROVE  SafeInv'
<1>1. PICK f \in Closures \cup {NoFunction} :
        /\ f = NoFunction \/ Makes(f)
        /\ \A r \in Ref : registry'[r] = registry[r] \/ registry'[r] = f
  BY DEF New, Makes, IInv, TypeOK
<1>2. /\ \A p \in Object \ {o} : cdata'[p] = cdata[p]
      /\ cdata'[o].st = "live"
  BY DEF New, IInv, TypeOK
<1>3. UNCHANGED <<finalizing, closing, fault>>
  BY DEF New
<1>. QED  BY <1>1, <1>2, <1>3, MakesSafe, SafeSlot DEF Makes

LEMMA SafeGcSet ==
  ASSUME "resurrect" \notin Liberty, IInv, SafeInv,
         NEW o \in Object, NEW fn \in Closures, GcSet(o, fn)
  PROVE  SafeInv'
<1>1. /\ Makes(fn)
      /\ \A r \in Ref : registry'[r] = registry[r] \/ registry'[r] = fn
      /\ \A p \in Object : cdata'[p].st = cdata[p].st /\ cdata'[p].held = cdata[p].held
      /\ UNCHANGED <<finalizing, closing, fault>>
  BY DEF GcSet, IInv, TypeOK, CdataState
<1>. QED  BY <1>1, MakesSafe, SafeSlot

LEMMA SafeGcClear ==
  ASSUME IInv, SafeInv, NEW o \in Object, GcClear(o)
  PROVE  SafeInv'
<1>0. cdata[o].st # "destroyed"
  BY UsableSafe DEF GcClear
<1>1. /\ \A r \in Ref : registry'[r] = registry[r] \/ registry'[r] = NoFunction
      /\ \A p \in Object : cdata'[p].st = cdata[p].st /\ cdata'[p].held = cdata[p].held
      /\ UNCHANGED <<finalizing, closing, fault>>
  BY <1>0 DEF GcClear, Unref, IInv, TypeOK, CdataState
<1>. QED  BY <1>1, SafeSlot

LEMMA SafeHeld ==
  ASSUME IInv, SafeInv, NEW o \in Object, NEW b \in BOOLEAN,
         b = FALSE \/ cdata[o].st = "live", cdata' = [cdata EXCEPT ![o].held = b],
         UNCHANGED <<registry, finalizing, closing, fault>>
  PROVE  SafeInv'
<1>1. \A p \in Object : /\ cdata'[p].st = cdata[p].st
                        /\ cdata'[p].held => cdata[p].held \/ cdata[p].st = "live"
  BY DEF IInv, TypeOK, CdataState
<1>. QED  BY <1>1 DEF SafeInv, NoFault, Kept

LEMMA SafeCallback ==
  ASSUME "resurrect" \notin Liberty, IInv, SafeInv, NEW r \in Ref,
         CallbackUnref(r) \/ \E fn \in Closures : CallbackRef(r, fn)
  PROVE  SafeInv'
<1>1. PICK f \in Closures \cup {NoFunction} :
        /\ f = NoFunction \/ Makes(f)
        /\ registry' = [registry EXCEPT ![r] = f]
  BY DEF CallbackUnref, CallbackRef, Unref
<1>2. \A q \in Ref : registry'[q] = registry[q] \/ registry'[q] = f
  BY <1>1 DEF IInv, TypeOK
<1>3. UNCHANGED <<cdata, finalizing, closing, fault>>
  BY DEF CallbackUnref, CallbackRef
<1>. QED  BY <1>1, <1>2, <1>3, MakesSafe, SafeSlot DEF Makes

LEMMA SafeCollect ==
  ASSUME IInv, SafeInv, NEW o \in Object, Collect(o)
  PROVE  SafeInv'
<1>1. BeginDestroy(o) /\ cdata[o].st = "live" /\ ~Reachable(o)
  BY DEF Collect
<1>2. /\ UNCHANGED <<registry, closing, fault>>
      /\ \A p \in Object : cdata'[p].held = cdata[p].held
      /\ \A p \in Object \ {o} : cdata'[p] = cdata[p]
  BY <1>1 DEF BeginDestroy, IInv, TypeOK, CdataState
<1>3. ASSUME NEW i \in DOMAIN finalizing'
      PROVE  \/ i \in DOMAIN finalizing /\ finalizing'[i] = finalizing[i]
             \/ \E r \in Ref : finalizing'[i].fn = registry[r]
  <2>1. CASE UNCHANGED finalizing
    BY <2>1, <1>3
  <2>2. CASE cdata[o].gcRef # Null
    <3>. DEFINE e == [obj |-> o, fn |-> registry[cdata[o].gcRef]]
    <3>1. cdata[o].gcRef \in Ref /\ registry[cdata[o].gcRef] \in Closures
      BY <1>1, <2>2, OwnerSlot DEF Owner
    <3>2. e \in Frame /\ finalizing \in Seq(Frame)
      BY <3>1 DEF Frame, IInv, TypeOK
    <3>3. finalizing' = Append(finalizing, e)
      BY <1>1, <2>2 DEF BeginDestroy
    <3>4. finalizing'[i] = e \/ (i \in DOMAIN finalizing /\ finalizing'[i] = finalizing[i])
      BY <1>3, <3>2, <3>3, PushFrame
    <3>. QED  BY <3>1, <3>4
  <2>. QED  BY <1>1, <2>1, <2>2 DEF BeginDestroy
<1>4. \A p \in Object : Kept(p)' => Kept(p)
  BY <1>2, <1>3 DEF Kept
<1>5. ~Kept(o)
  BY <1>1 DEF Kept, Reachable
<1>. QED  BY <1>2, <1>4, <1>5 DEF SafeInv, NoFault

LEMMA SafeEnd ==
  ASSUME IInv, SafeInv, EndDestroy
  PROVE  SafeInv'
<1>. DEFINE o == Top.obj
<1>1. /\ finalizing # <<>> /\ finalizing \in Seq(Frame) /\ finalizing' = Pop
      /\ UNCHANGED <<closing, fault>>
      /\ cdata' = [cdata EXCEPT ![o].st = "destroyed"]
  BY DEF EndDestroy, IInv, TypeOK
<1>2. o \in Object /\ cdata[o].st = "dying"
  BY <1>1, PopFrame, FrameAt DEF IInv, Frames, Top
<1>3. \A i \in DOMAIN finalizing' : i \in DOMAIN finalizing /\ finalizing'[i] = finalizing[i]
  BY <1>1, PopFrame DEF Pop
<1>4. \A p \in Object : /\ cdata'[p].held = cdata[p].held
                        /\ p # o => cdata'[p] = cdata[p]
  BY <1>1, <1>2 DEF IInv, TypeOK, CdataState
<1>5. \A r \in Ref : registry'[r].uses \subseteq registry[r].uses
  BY CdataAt, <1>2 DEF EndDestroy, Unref, IInv, TypeOK, NoFunction
<1>6. \A p \in Object : Kept(p)' => Kept(p)
  BY <1>3, <1>4, <1>5 DEF Kept
<1>7. ~Kept(o)
  BY <1>2 DEF SafeInv
<1>. QED  BY <1>1, <1>4, <1>6, <1>7 DEF SafeInv, NoFault

LEMMA SafeNext ==
  ASSUME Liberty \subseteq {"replace"}, IInv, SafeInv, [Next]_vars
  PROVE  SafeInv'
<1>0. "resurrect" \notin Liberty /\ "close" \notin Liberty
  OBVIOUS
<1>1. ASSUME NEW o \in Object, New(o) PROVE SafeInv'
  BY <1>0, <1>1, SafeNew
<1>2. ASSUME NEW o \in Object, GcClear(o) PROVE SafeInv'
  BY <1>2, SafeGcClear
<1>3. ASSUME NEW o \in Object, Use(o) PROVE SafeInv'
  BY <1>3, UsableSafe DEF Use
<1>4. ASSUME NEW o \in Object, Drop(o) \/ Store(o) PROVE SafeInv'
  BY <1>0, <1>4, SafeHeld DEF Drop, Store
<1>5. ASSUME NEW o \in Object, Collect(o) PROVE SafeInv'
  BY <1>5, SafeCollect
<1>6. ASSUME NEW o \in Object, NEW fn \in Closures, GcSet(o, fn) PROVE SafeInv'
  BY <1>0, <1>6, SafeGcSet
<1>7. ASSUME NEW r \in Ref, CallbackUnref(r) \/ \E fn \in Closures : CallbackRef(r, fn)
      PROVE  SafeInv'
  BY <1>0, <1>7, SafeCallback
<1>8. ~CloseState /\ \A i \in DOMAIN born : ~CloseNext(i)
  BY <1>0 DEF CloseState, CloseNext, SafeInv
<1>9. CASE EndDestroy
  BY <1>9, SafeEnd
<1>10. CASE UNCHANGED vars
  BY <1>10 DEF vars, SafeInv, NoFault, Kept
<1>. QED
  BY <1>1, <1>2, <1>3, <1>4, <1>5, <1>6, <1>7, <1>8, <1>9, <1>10 DEF Next

(* While the state is open and no finalizer resurrects its cdata, Lua code *)
(* never finds a destroyed cdata, neither in a variable nor in a finalizer *)
(* that refers to it: the order of gc_f and destroy_cdata keeps it alive.  *)
THEOREM SafePrograms ==
  ASSUME Liberty \subseteq {"replace"}
  PROVE  Spec => []NoFault
<1>1. Init => SafeInv
  BY DEF Init, SafeInv, NoFault, Kept, NoFunction
<1>2. IInv /\ SafeInv /\ [Next]_vars => SafeInv'
  BY SafeNext
<1>3. SafeInv => NoFault
  BY DEF SafeInv
<1>. QED  BY <1>1, <1>2, <1>3, Inductive, PTL DEF Spec

-----------------------------------------------------------------------------
(***************************************************************************)
(* What holds if no finalizer is replaced either                           *)
(***************************************************************************)

LEMMA LeakNext ==
  ASSUME Liberty = {}, IInv, SafeInv, NothingLeaked, [Next]_vars
  PROVE  NothingLeaked'
<1>. SUFFICES ASSUME NEW r \in Ref, registry'[r] # NoFunction
              PROVE  r \in others' \/ \E o \in Object : Owner(o)' /\ cdata'[o].gcRef = r
  BY DEF NothingLeaked
<1>. DEFINE Has(o) == Owner(o) /\ cdata[o].gcRef = r
            Goal == r \in others' \/ \E o \in Object : Owner(o)' /\ cdata'[o].gcRef = r
<1>0. registry[r] = NoFunction \/ r \in others \/ \E o \in Object : Has(o)
  BY DEF NothingLeaked
<1>1. ASSUME NEW o \in Object, Has(o), cdata'[o].gcRef = cdata[o].gcRef,
             cdata'[o].st \in {"live", "dying"}
      PROVE  Goal
  BY <1>1 DEF Owner
<1>2. ASSUME registry'[r] = registry[r], others \subseteq others',
             \A o \in Object : Owner(o) => /\ cdata'[o].gcRef = cdata[o].gcRef
                                          /\ cdata'[o].st \in {"live", "dying"}
      PROVE  Goal
  BY <1>0, <1>1, <1>2
<1>3. ASSUME NEW o \in Object, New(o) PROVE Goal
  <2>1. /\ \A p \in Object \ {o} : cdata'[p] = cdata[p]
        /\ cdata'[o].st = "live" /\ cdata[o].st = "none" /\ UNCHANGED others
        /\ registry'[r] = registry[r] \/ cdata'[o].gcRef = r
    BY <1>3 DEF New, IInv, TypeOK
  <2>2. CASE registry'[r] = registry[r]
    BY <1>2, <2>1, <2>2 DEF Owner
  <2>3. CASE cdata'[o].gcRef = r
    BY <2>1, <2>3, NullAssumption DEF Owner
  <2>. QED  BY <2>1, <2>2, <2>3
<1>4. ASSUME NEW o \in Object, NEW fn \in Closures, GcSet(o, fn) PROVE Goal
  <2>1. cdata[o].gcRef = Null /\ cdata[o].st \in {"live", "dying"}
    BY <1>4, UsableSafe DEF GcSet
  <2>2. PICK q \in Ref : /\ registry' = [registry EXCEPT ![q] = fn]
                         /\ cdata' = [cdata EXCEPT ![o].gcRef = q]
    BY <1>4 DEF GcSet
  <2>3. /\ \A p \in Object \ {o} : cdata'[p] = cdata[p]
        /\ cdata'[o].st = cdata[o].st /\ cdata'[o].gcRef = q /\ UNCHANGED others
    BY <1>4, <2>2 DEF GcSet, IInv, TypeOK, CdataState
  <2>4. CASE q = r
    BY <2>1, <2>3, <2>4, NullAssumption DEF Owner
  <2>5. CASE q # r
    <3>1. registry'[r] = registry[r]
      BY <2>2, <2>5 DEF IInv, TypeOK
    <3>. QED  BY <1>2, <2>1, <2>3, <3>1 DEF Owner
  <2>. QED  BY <2>4, <2>5
<1>5. ASSUME NEW o \in Object, GcClear(o) PROVE Goal
  <2>1. cdata[o].st # "destroyed"
    BY <1>5, UsableSafe DEF GcClear
  <2>2. /\ registry' = [registry EXCEPT ![cdata[o].gcRef] = NoFunction]
        /\ \A p \in Object \ {o} : cdata'[p] = cdata[p]
        /\ UNCHANGED others
    BY <1>5, <2>1 DEF GcClear, Unref, IInv, TypeOK, CdataState
  <2>3. cdata[o].gcRef # r /\ registry'[r] = registry[r]
    BY <2>2 DEF IInv, TypeOK
  <2>. QED  BY <1>0, <1>1, <2>2, <2>3 DEF Owner
<1>6. ASSUME NEW q \in Ref, NEW fn \in Closures, CallbackRef(q, fn) PROVE Goal
  BY <1>0, <1>1, <1>6 DEF CallbackRef, Owner, IInv, TypeOK
<1>7. ASSUME NEW q \in Ref, CallbackUnref(q) PROVE Goal
  <2>1. q # r /\ registry'[r] = registry[r] /\ others' = others \ {q} /\ UNCHANGED cdata
    BY <1>7 DEF CallbackUnref, Unref, IInv, TypeOK
  <2>. QED  BY <1>0, <1>1, <2>1 DEF Owner
<1>8. ASSUME NEW o \in Object, Drop(o) \/ Store(o) PROVE Goal
  <2>1. PICK b \in BOOLEAN : cdata' = [cdata EXCEPT ![o].held = b]
    BY <1>8 DEF Drop, Store
  <2>2. \A p \in Object : cdata'[p].st = cdata[p].st /\ cdata'[p].gcRef = cdata[p].gcRef
    BY <2>1 DEF IInv, TypeOK, CdataState
  <2>3. UNCHANGED <<registry, others>>
    BY <1>8 DEF Drop, Store
  <2>. QED  BY <1>2, <2>2, <2>3 DEF Owner
<1>9. ASSUME NEW o \in Object, Collect(o) PROVE Goal
  <2>1. /\ UNCHANGED <<registry, others>>
        /\ \A p \in Object : cdata'[p].gcRef = cdata[p].gcRef
        /\ \A p \in Object \ {o} : cdata'[p] = cdata[p]
        /\ cdata'[o].st = "dying" \/ cdata[o].gcRef = Null
    BY <1>9 DEF Collect, BeginDestroy, IInv, TypeOK, CdataState
  <2>. QED  BY <1>2, <2>1 DEF Owner
<1>10. CASE EndDestroy
  <2>. DEFINE o == Top.obj
  <2>1. /\ cdata' = [cdata EXCEPT ![o].st = "destroyed"]
        /\ registry' = IF cdata[o].gcRef = Null THEN registry ELSE Unref(cdata[o].gcRef)
        /\ UNCHANGED others
    BY <1>10 DEF EndDestroy
  <2>2. o \in Object
    BY <1>10, PopFrame, FrameAt DEF EndDestroy, IInv, TypeOK, Top
  <2>3. \A p \in Object \ {o} : cdata'[p] = cdata[p]
    BY <2>1, <2>2 DEF IInv, TypeOK
  <2>4. cdata[o].gcRef # r
    BY <2>1, NullAssumption DEF Unref, IInv, TypeOK
  <2>5. registry'[r] = registry[r]
    BY <2>1, <2>4 DEF Unref, IInv, TypeOK
  <2>. QED  BY <1>0, <1>1, <2>1, <2>3, <2>4, <2>5 DEF Owner
<1>11. ASSUME NEW o \in Object, Use(o) PROVE Goal
  BY <1>11, UsableSafe DEF Use
<1>12. ~CloseState /\ \A i \in DOMAIN born : ~CloseNext(i)
  BY DEF CloseState, CloseNext, SafeInv
<1>13. CASE UNCHANGED vars
  BY <1>2, <1>13 DEF vars, Owner
<1>. QED
  BY <1>3, <1>4, <1>5, <1>6, <1>7, <1>8, <1>9, <1>10, <1>11, <1>12, <1>13 DEF Next

(* A program that neither replaces a finalizer nor resurrects a cdata, and *)
(* does not close the state, leaks no slot: gc_f and destroy_cdata give    *)
(* back each one that gc_f and make_cdata take.                            *)
THEOREM NoLeaks ==
  ASSUME Liberty = {}
  PROVE  Spec => []NothingLeaked
<1>1. Init => SafeInv /\ NothingLeaked
  BY DEF Init, SafeInv, NoFault, Kept, NoFunction, NothingLeaked
<1>2. IInv /\ SafeInv /\ NothingLeaked /\ [Next]_vars => SafeInv' /\ NothingLeaked'
  BY SafeNext, LeakNext
<1>. QED  BY <1>1, <1>2, Inductive, PTL DEF Spec
=============================================================================
