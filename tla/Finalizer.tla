----------------------------- MODULE Finalizer -----------------------------
(***************************************************************************)
(* Finalizers of cdata (src/ffilib.cc, gc_f; src/ffi.cc, destroy_cdata and *)
(* make_cdata).                                                            *)
(*                                                                         *)
(* The finalizer of a cdata is anchored by a slot of the Lua registry,     *)
(* whose number is in gc_ref.  The registry is a root of the garbage       *)
(* collector, so whatever a finalizer refers to stays alive as long as the *)
(* cdata has it, although the cdata itself may be unreachable.  The        *)
(* collector calls destroy_cdata(), which calls the finalizer and then     *)
(* destroys the type in the cdata.  The finalizer is Lua code: it may do   *)
(* what any Lua code does, with the very cdata that is being destroyed.    *)
(*                                                                         *)
(* Lua calls the __gc of a userdata once.  When the Lua state is closed it *)
(* calls that of every userdata that is left, the youngest first, whether  *)
(* something refers to it or not.                                          *)
(***************************************************************************)
EXTENDS Naturals, Sequences

CONSTANTS
  Object,      \* addresses of cdata (bound: the cdata of a behaviour)
  Ref,         \* slots of the registry (bound: the functions anchored at once)
  Function,    \* code of Lua functions
  Null,        \* no slot, no function
  Unborn,      \* for the refinement: a cdata not made yet
  Gone,        \* for the refinement: a cdata that was collected
  Liberty,     \* what the Lua program does beyond careful use, see below
  MaxDepth     \* bound: finalizers that run inside finalizers

(***************************************************************************)
(*   replace    associate a finalizer with a cdata that has one            *)
(*   resurrect  let a finalizer store its cdata where it is found later    *)
(*   close      close the Lua state                                        *)
(***************************************************************************)
Liberties == {"replace", "resurrect", "close"}

ASSUME LibertyAssumption == Liberty \subseteq Liberties
ASSUME NullAssumption == Null \notin Ref
ASSUME DepthAssumption == MaxDepth \in Nat

(* A Lua closure: its code and the cdata it refers to. *)
Closures == [code : Function, uses : SUBSET Object]
NoFunction == [code |-> Null, uses |-> {}]
ASSUME FunctionAssumption == NoFunction \notin Closures
ASSUME TableAssumption ==
  /\ Unborn # Gone
  /\ {Unborn, Gone} \cap (Closures \cup {NoFunction}) = {}

VARIABLES
  cdata,       \* the cdata: state, gc_ref, whether the program can name it
  registry,    \* the function in each slot
  others,      \* the slots that belong to callbacks
  born,        \* the cdata in the order they were made
  finalizing,  \* finalizers in progress, innermost last
  closing,     \* lua_close() is running
  ran,         \* the finalizer called last, with its cdata
  fault        \* "none", or what went wrong for good

vars == <<cdata, registry, others, born, finalizing, closing, ran, fault>>

Maybe(S) == S \cup {Null}

(* live; dying: its finalizer runs; destroyed: ~c_type() was run *)
CdataState ==
  [st : {"none", "live", "dying", "destroyed"}, gcRef : Maybe(Ref), held : BOOLEAN]
Frame == [obj : Object, fn : Closures]
Faults == {"none", "destroyed cdata", "slot given back twice"}

Init ==
  /\ cdata = [o \in Object |-> [st |-> "none", gcRef |-> Null, held |-> FALSE]]
  /\ registry = [r \in Ref |-> NoFunction]
  /\ others = {}
  /\ born = <<>>
  /\ finalizing = <<>>
  /\ closing = FALSE
  /\ ran = <<>>
  /\ fault = "none"

Top == finalizing[Len(finalizing)]
Pop == SubSeq(finalizing, 1, Len(finalizing) - 1)

(* While the state is closed only finalizers run. *)
LuaRuns == fault = "none" /\ (closing => finalizing # <<>>)

(* What Lua code that runs now can name. *)
Usable(o) ==
  /\ LuaRuns
  /\ \/ cdata[o].held
     \/ finalizing # <<>> /\ (o = Top.obj \/ o \in Top.fn.uses)

(* What the collector finds. *)
Reachable(o) ==
  \/ cdata[o].held
  \/ \E r \in Ref : o \in registry[r].uses
  \/ \E i \in DOMAIN finalizing : o = finalizing[i].obj \/ o \in finalizing[i].fn.uses

FreeRef(r) == r \in Ref /\ registry[r] = NoFunction

(* luaL_unref() of a slot of one's own; a second time breaks its free list. *)
Unref(r) == [registry EXCEPT ![r] = NoFunction]

(* A function the running code can make.  One that refers to a cdata whose *)
(* finalizer runs resurrects it.                                           *)
Makes(fn) ==
  /\ fn \in Closures
  /\ \A o \in fn.uses : Usable(o) /\ ("resurrect" \in Liberty \/ cdata[o].st = "live")

-----------------------------------------------------------------------------
(* mutant: gc_ref is not initialized *)
NewUnset(o) ==
  /\ LuaRuns /\ ~closing
  /\ cdata[o].st = "none"
  /\ cdata' = [cdata EXCEPT ![o] = [st |-> "live", gcRef |-> 0, held |-> TRUE]]
  /\ born' = Append(born, o)
  /\ UNCHANGED <<registry, others, finalizing, closing, ran, fault>>

(* make_cdata(): a record whose metatype has __gc gets it as its finalizer. *)
New(o) ==
  /\ LuaRuns /\ ~closing
  /\ cdata[o].st = "none"
  /\ \/ /\ cdata' = [cdata EXCEPT ![o] = [st |-> "live", gcRef |-> Null, held |-> TRUE]]
        /\ UNCHANGED registry
     \/ \E r \in Ref, fn \in Closures :
          /\ Makes(fn) /\ FreeRef(r)
          /\ cdata' = [cdata EXCEPT ![o] = [st |-> "live", gcRef |-> r, held |-> TRUE]]
          /\ registry' = [registry EXCEPT ![r] = fn]
  /\ born' = Append(born, o)
  /\ UNCHANGED <<others, finalizing, closing, ran, fault>>

(* cffi.gc(o, fn): the slot of a finalizer that is replaced is not given   *)
(* back.                                                                   *)
GcSet(o, fn) ==
  /\ Usable(o) /\ Makes(fn)
  /\ "replace" \in Liberty \/ cdata[o].gcRef = Null
  /\ \E r \in Ref :
       /\ FreeRef(r)
       /\ registry' = [registry EXCEPT ![r] = fn]
       /\ cdata' = [cdata EXCEPT ![o].gcRef = r]
  /\ UNCHANGED <<others, born, finalizing, closing, ran, fault>>

Break(what) ==
  /\ fault' = what
  /\ UNCHANGED <<cdata, registry, others, born, finalizing, closing, ran>>

(* mutant: gc_ref keeps the slot that was given back *)
GcClearStale(o) ==
  /\ Usable(o)
  /\ cdata[o].gcRef # Null
  /\ registry' = Unref(cdata[o].gcRef)
  /\ UNCHANGED <<cdata, others, born, finalizing, closing, ran, fault>>

(* cffi.gc(o, nil).  A destroyed cdata still has the number of its slot. *)
GcClear(o) ==
  /\ Usable(o)
  /\ cdata[o].gcRef # Null
  /\ IF cdata[o].st = "destroyed" THEN Break("slot given back twice")
     ELSE /\ registry' = Unref(cdata[o].gcRef)
          /\ cdata' = [cdata EXCEPT ![o].gcRef = Null]
          /\ UNCHANGED <<others, born, finalizing, closing, ran, fault>>

(* Anything else done with a cdata reads its type. *)
Use(o) ==
  /\ Usable(o)
  /\ cdata[o].st = "destroyed"
  /\ Break("destroyed cdata")

Drop(o) ==
  /\ Usable(o) /\ cdata[o].held
  /\ cdata' = [cdata EXCEPT ![o].held = FALSE]
  /\ UNCHANGED <<registry, others, born, finalizing, closing, ran, fault>>

(* Lua code stores a cdata it can name. *)
Store(o) ==
  /\ Usable(o) /\ ~cdata[o].held
  /\ "resurrect" \in Liberty \/ cdata[o].st = "live"
  /\ cdata' = [cdata EXCEPT ![o].held = TRUE]
  /\ UNCHANGED <<registry, others, born, finalizing, closing, ran, fault>>

(* Callbacks take slots of the same registry and give them back. *)
CallbackRef(r, fn) ==
  /\ LuaRuns /\ Makes(fn) /\ FreeRef(r)
  /\ registry' = [registry EXCEPT ![r] = fn]
  /\ others' = others \cup {r}
  /\ UNCHANGED <<cdata, born, finalizing, closing, ran, fault>>

CallbackUnref(r) ==
  /\ LuaRuns /\ r \in others
  /\ registry' = Unref(r)
  /\ others' = others \ {r}
  /\ UNCHANGED <<cdata, born, finalizing, closing, ran, fault>>

-----------------------------------------------------------------------------
(* mutant: the slot is given back before the finalizer is called *)
BeginUnref(o) ==
  IF cdata[o].gcRef = Null
  THEN /\ cdata' = [cdata EXCEPT ![o].st = "destroyed"]
       /\ UNCHANGED <<registry, others, born, finalizing, closing, ran, fault>>
  ELSE /\ Len(finalizing) < MaxDepth
       /\ cdata' = [cdata EXCEPT ![o].st = "dying"]
       /\ registry' = Unref(cdata[o].gcRef)
       /\ finalizing' = Append(finalizing, [obj |-> o, fn |-> registry[cdata[o].gcRef]])
       /\ ran' = <<o, registry[cdata[o].gcRef]>>
       /\ UNCHANGED <<others, born, closing, fault>>

(* mutant: the type is destroyed before the finalizer is called *)
BeginDestroyed(o) ==
  IF cdata[o].gcRef = Null
  THEN /\ cdata' = [cdata EXCEPT ![o].st = "destroyed"]
       /\ UNCHANGED <<registry, others, born, finalizing, closing, ran, fault>>
  ELSE /\ Len(finalizing) < MaxDepth
       /\ cdata' = [cdata EXCEPT ![o].st = "destroyed"]
       /\ finalizing' = Append(finalizing, [obj |-> o, fn |-> registry[cdata[o].gcRef]])
       /\ ran' = <<o, registry[cdata[o].gcRef]>>
       /\ UNCHANGED <<registry, others, born, closing, fault>>

(* destroy_cdata(), until it calls the finalizer *)
BeginDestroy(o) ==
  IF cdata[o].gcRef = Null
  THEN /\ cdata' = [cdata EXCEPT ![o].st = "destroyed"]
       /\ UNCHANGED <<registry, others, born, finalizing, closing, ran, fault>>
  ELSE /\ Len(finalizing) < MaxDepth
       /\ cdata' = [cdata EXCEPT ![o].st = "dying"]
       /\ finalizing' = Append(finalizing, [obj |-> o, fn |-> registry[cdata[o].gcRef]])
       /\ ran' = <<o, registry[cdata[o].gcRef]>>
       /\ UNCHANGED <<registry, others, born, closing, fault>>

(* The collector; within a finalizer too, if that asks for a collection. *)
Collect(o) ==
  /\ fault = "none" /\ ~closing
  /\ cdata[o].st = "live" /\ ~Reachable(o)
  /\ BeginDestroy(o)

CloseState ==
  /\ fault = "none" /\ "close" \in Liberty
  /\ ~closing /\ finalizing = <<>>
  /\ closing' = TRUE
  /\ UNCHANGED <<cdata, registry, others, born, finalizing, ran, fault>>

(* lua_close(): the youngest cdata that is left. *)
CloseNext(i) ==
  /\ fault = "none" /\ closing /\ finalizing = <<>>
  /\ cdata[born[i]].st = "live"
  /\ \A j \in DOMAIN born : j > i => cdata[born[j]].st = "destroyed"
  /\ BeginDestroy(born[i])

(* mutant: the slot is not given back *)
EndKeepingRef ==
  /\ fault = "none" /\ finalizing # <<>>
  /\ cdata' = [cdata EXCEPT ![Top.obj].st = "destroyed"]
  /\ finalizing' = Pop
  /\ UNCHANGED <<registry, others, born, closing, ran, fault>>

(* mutant: the cdata is not marked as destroyed when its finalizer raises  *)
(* an error                                                                *)
EndAborted ==
  /\ fault = "none" /\ finalizing # <<>>
  /\ registry' = IF cdata[Top.obj].gcRef = Null THEN registry ELSE Unref(cdata[Top.obj].gcRef)
  /\ cdata' = [cdata EXCEPT ![Top.obj].gcRef = Null]
  /\ finalizing' = Pop
  /\ UNCHANGED <<others, born, closing, ran, fault>>

(* The finalizer has returned, or raised an error, which is ignored.  The  *)
(* slot given back is the one gc_ref names now.                            *)
EndDestroy ==
  /\ fault = "none" /\ finalizing # <<>>
  /\ registry' = IF cdata[Top.obj].gcRef = Null THEN registry ELSE Unref(cdata[Top.obj].gcRef)
  /\ cdata' = [cdata EXCEPT ![Top.obj].st = "destroyed"]
  /\ finalizing' = Pop
  /\ UNCHANGED <<others, born, closing, ran, fault>>

Next ==
  \/ \E o \in Object : New(o) \/ GcClear(o) \/ Use(o) \/ Drop(o) \/ Store(o) \/ Collect(o)
  \/ \E o \in Object, fn \in Closures : GcSet(o, fn)
  \/ \E r \in Ref : CallbackUnref(r) \/ \E fn \in Closures : CallbackRef(r, fn)
  \/ CloseState
  \/ \E i \in DOMAIN born : CloseNext(i)
  \/ EndDestroy

Spec == Init /\ [][Next]_vars

(* lua_close() goes on to the next cdata, and a finalizer that was called  *)
(* returns.                                                                *)
FairSpec == Spec /\ WF_vars(\E i \in DOMAIN born : CloseNext(i)) /\ WF_vars(EndDestroy)

-----------------------------------------------------------------------------
TypeOK ==
  /\ cdata \in [Object -> CdataState]
  /\ registry \in [Ref -> Closures \cup {NoFunction}]
  /\ others \subseteq Ref
  /\ born \in Seq(Object)
  /\ finalizing \in Seq(Frame)
  /\ closing \in BOOLEAN
  /\ ran \in {<<>>} \cup (Object \X Closures)
  /\ fault \in Faults

(***************************************************************************)
(* A cdata that is not destroyed and has a finalizer owns the slot in      *)
(* gc_ref: there is a function in it, and neither another cdata nor a      *)
(* callback has the same slot (gc_f and destroy_cdata give slots back by   *)
(* their number).                                                          *)
(***************************************************************************)
Owner(o) == cdata[o].st \in {"live", "dying"} /\ cdata[o].gcRef # Null

RefsOwned ==
  /\ \A o \in Object : Owner(o) => /\ registry[cdata[o].gcRef] # NoFunction
                                  /\ cdata[o].gcRef \notin others
  /\ \A o, p \in Object : Owner(o) /\ Owner(p) /\ cdata[o].gcRef = cdata[p].gcRef => o = p

(***************************************************************************)
(* Nothing that is done with finalizers, and no collection, changes the    *)
(* function of a callback, which is in the same registry.                  *)
(***************************************************************************)
CallbacksUntouched ==
  [][\A r \in others : registry'[r] # registry[r] => r \notin others']_vars

(***************************************************************************)
(* Before the state is closed Lua code never finds a cdata destroyed: what *)
(* a finalizer refers to is kept alive by the registry until the finalizer *)
(* has returned and its slot is given back (destroy_cdata).                *)
(***************************************************************************)
NoFault == fault = "none"

(***************************************************************************)
(* A function is anchored only as long as a callback or a cdata that is    *)
(* not destroyed has its slot.                                             *)
(***************************************************************************)
NothingLeaked ==
  \A r \in Ref : registry[r] # NoFunction =>
    r \in others \/ \E o \in Object : Owner(o) /\ cdata[o].gcRef = r

(***************************************************************************)
(* A state that is closed destroys every cdata, whatever the finalizers do *)
(* to cdata that are yet to come: replace and clear their finalizers, or   *)
(* resurrect what was destroyed.  The only way out is an access to a       *)
(* destroyed cdata.  (destroy_cdata, called by lua_close)                  *)
(***************************************************************************)
StateCloses ==
  closing ~> (fault # "none" \/ \A o \in Object : cdata[o].st \in {"none", "destroyed"})

(***************************************************************************)
(* Seen from Lua, finalizers are the table of FinalizerTable: the one      *)
(* called is the one last associated with that cdata, at most once.        *)
(***************************************************************************)
Fin ==
  [o \in Object |->
     IF cdata[o].st = "none" THEN Unborn
     ELSE IF cdata[o].st # "live" THEN Gone
     ELSE IF cdata[o].gcRef = Null THEN NoFunction ELSE registry[cdata[o].gcRef]]

Table == INSTANCE FinalizerTable WITH
           Finalizer <- Closures, NoFinalizer <- NoFunction,
           fin <- Fin

ImplementsFinalizerTable == Table!Spec
=============================================================================
