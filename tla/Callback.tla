------------------------------ MODULE Callback ------------------------------
(***************************************************************************)
(* Callbacks: C function pointers that run Lua functions (src/ffi.cc,      *)
(* make_cdata_func, cb_bind, make_cdata, from_lua; src/ffilib.cc, cb_free, *)
(* cb_set, call).                                                          *)
(*                                                                         *)
(* Four kinds of memory are involved, with lifetimes of their own:         *)
(*   - a handle is a cdata, in Lua memory, collected when unreachable;     *)
(*   - a closure is a closure_data together with the trampoline libffi     *)
(*     allocated for it, freed by cb:free() only.  The trampoline was told *)
(*     the address of the handle it was created with, its owner;           *)
(*   - a Lua function is anchored by a slot of the Lua registry;           *)
(*   - C keeps the addresses of trampolines wherever it likes.             *)
(*                                                                         *)
(* Lua code and C code alternate on one stack: a call through a trampoline *)
(* runs Lua code, which may do anything a Lua program may do, including    *)
(* calling C again, before the trampoline returns.  The garbage collector  *)
(* may run whenever Lua does.  Code that reads memory which is gone may do *)
(* anything; the model stops there and says in fault what was read.        *)
(***************************************************************************)
EXTENDS Naturals, Sequences

CONSTANTS
  Handle,      \* addresses of cdata (bound: the handles of a behaviour)
  Closure,     \* addresses of closures (bound: the closures of a behaviour)
  Ref,         \* slots of the registry (bound: the functions anchored at once)
  Function,    \* Lua functions
  Place,       \* where C keeps function pointers: a struct member, a variable
  Null,        \* no handle, no closure, no slot, no function
  Liberty,     \* what the Lua program does beyond careful use, see below
  MaxDepth     \* bound: nesting of calls through trampolines

(***************************************************************************)
(* A careful program converts Lua functions with cffi.cast or cffi.new,    *)
(* keeps the handle until it has freed the callback, and frees it when C   *)
(* no longer has its address.  The liberties are things the documentation  *)
(* allows as well, except "reckless":                                      *)
(*   copy      convert a handle to another handle                          *)
(*   implicit  store a Lua function in a C location                        *)
(*   pass      pass a Lua function for a function pointer argument         *)
(*   drop      lose the handle of a callback that is not freed             *)
(*   reckless  free a callback that C, or a call in progress, still uses   *)
(* and one thing it cannot help:                                           *)
(*   fail      setting up the closure fails, for want of memory or because *)
(*             the function type is variadic                               *)
(***************************************************************************)
Liberties == {"copy", "implicit", "pass", "drop", "reckless", "fail"}

ASSUME LibertyAssumption == Liberty \subseteq Liberties
ASSUME NullAssumption == Null \notin Handle \cup Closure \cup Ref \cup Function
ASSUME DepthAssumption == MaxDepth \in Nat

VARIABLES
  handle,    \* the cdata: kind, closure pointer, C address, reachability
  closure,   \* the closures: owner and fref
  registry,  \* the functions the registry holds for callbacks
  place,     \* the trampoline whose address is stored in each place
  stack,     \* calls through trampolines in progress, innermost last
  ran,       \* the function the last such call ran
  fault      \* "none", or the bad access that was made

vars == <<handle, closure, registry, place, stack, ran, fault>>

Maybe(S) == S \cup {Null}

(* kind "callback": decl.closure(); "pointer": any other function cdata.   *)
(* sym is the address in fdata.sym, as the closure whose trampoline it is. *)
HandleState ==
  [kind : {"none", "callback", "pointer", "collected"},
   cd : Maybe(Closure), sym : Maybe(Closure), held : BOOLEAN]
ClosureState ==
  [st : {"none", "live", "freed"}, owner : Maybe(Handle), fref : Maybe(Ref)]
(* via is the cdata the Lua side of the call has on its stack, if any *)
Call == [closure : Closure, via : Maybe(Handle)]

Faults == {"none", "collected handle", "freed closure", "null pointer", "no value"}

Init ==
  /\ handle = [h \in Handle |-> [kind |-> "none", cd |-> Null, sym |-> Null, held |-> FALSE]]
  /\ closure = [c \in Closure |-> [st |-> "none", owner |-> Null, fref |-> Null]]
  /\ registry = [r \in Ref |-> Null]
  /\ place = [p \in Place |-> Null]
  /\ stack = <<>>
  /\ ran = Null
  /\ fault = "none"

IsCallback(h) == handle[h].kind = "callback"
IsPointer(h)  == handle[h].kind = "pointer"
Live          == {c \in Closure : closure[c].st = "live"}
OnStack(h)    == \E i \in DOMAIN stack : stack[i].via = h

(* What the Lua program can name. *)
Usable(h) == fault = "none" /\ handle[h].held /\ (IsCallback(h) \/ IsPointer(h))

Fault(what) ==
  /\ fault' = what
  /\ UNCHANGED <<handle, closure, registry, place, stack, ran>>

-----------------------------------------------------------------------------
(***************************************************************************)
(* Making function cdata                                                   *)
(***************************************************************************)

(* luaL_ref(): some free slot.  Null stands for a callback whose fref      *)
(* names no function (LUA_REFNIL, or 0 where nothing was converted).       *)
FreeRef(r) == r \in Ref /\ registry[r] = Null

(* mutant: the trampoline is not told its owner *)
MakeUnbound(h, c, r, held) ==
  /\ handle[h].kind = "none" /\ closure[c].st = "none"
  /\ handle' = [handle EXCEPT ![h] =
                  [kind |-> "callback", cd |-> c, sym |-> c, held |-> held]]
  /\ closure' = [closure EXCEPT ![c] = [st |-> "live", owner |-> Null, fref |-> r]]

(* make_cdata_func() without a C address: a handle, and the closure that   *)
(* is bound to it.                                                         *)
MakeCallback(h, c, r, held) ==
  /\ handle[h].kind = "none" /\ closure[c].st = "none"
  /\ handle' = [handle EXCEPT ![h] =
                  [kind |-> "callback", cd |-> c, sym |-> c, held |-> held]]
  /\ closure' = [closure EXCEPT ![c] = [st |-> "live", owner |-> h, fref |-> r]]

(* make_cdata_func() with a C address. *)
MakePointer(h, s) ==
  /\ handle[h].kind = "none"
  /\ handle' = [handle EXCEPT ![h] =
                  [kind |-> "pointer", cd |-> Null, sym |-> s, held |-> TRUE]]
  /\ UNCHANGED closure

(* cffi.cast("cb_t", f) or cffi.new("cb_t", f). *)
CastFunction(h, c, f) ==
  /\ fault = "none"
  /\ \E r \in Ref : /\ FreeRef(r)
                    /\ registry' = [registry EXCEPT ![r] = f]
                    /\ MakeCallback(h, c, r, TRUE)
  /\ UNCHANGED <<place, stack, ran, fault>>

(* make_cdata_func() raises an error when the function is anchored already *)
(* and there is no closure yet to give the slot back.                      *)
ConvertFails(f) ==
  /\ fault = "none" /\ "fail" \in Liberty
  /\ \E r \in Ref : FreeRef(r) /\ registry' = [registry EXCEPT ![r] = f]
  /\ UNCHANGED <<handle, closure, place, stack, ran, fault>>

(* cffi.new("cb_t") or cffi.cast("cb_t", nil): a null address makes a new  *)
(* callback.                                                               *)
NewCallback(h, c) ==
  /\ fault = "none"
  /\ MakeCallback(h, c, Null, TRUE)
  /\ UNCHANGED <<registry, place, stack, ran, fault>>

(* cffi.cast("cb_t", k) of a callback handle: a second handle of the same  *)
(* closure, whose C address is left null.                                  *)
CopyHandle(h, k) ==
  /\ Usable(k) /\ IsCallback(k) /\ "copy" \in Liberty
  /\ handle[k].cd # Null
  /\ handle[h].kind = "none"
  /\ handle' = [handle EXCEPT ![h] =
                  [kind |-> "callback", cd |-> handle[k].cd, sym |-> Null, held |-> TRUE]]
  /\ UNCHANGED <<closure, registry, place, stack, ran, fault>>

(* The same conversion of a handle that was freed makes a new callback. *)
CopyFreed(h, k, c) ==
  /\ Usable(k) /\ IsCallback(k) /\ "copy" \in Liberty
  /\ handle[k].cd = Null
  /\ MakeCallback(h, c, Null, TRUE)
  /\ UNCHANGED <<registry, place, stack, ran, fault>>

(* A function pointer of C, read by Lua: a struct member, a global         *)
(* variable, a return value.                                               *)
ReadPlace(h, p) ==
  /\ fault = "none"
  /\ \/ place[p] # Null /\ MakePointer(h, place[p])
     \/ place[p] = Null /\ \E c \in Closure : MakeCallback(h, c, Null, TRUE)
  /\ UNCHANGED <<registry, place, stack, ran, fault>>

-----------------------------------------------------------------------------
(***************************************************************************)
(* Function pointers on their way to C                                     *)
(***************************************************************************)

(* The address in a cdata is stored in C memory; C can also be passed it   *)
(* and keep it.  A careful program does not do so with a freed callback.   *)
StoreHandle(k, p) ==
  /\ Usable(k)
  /\ "reckless" \in Liberty \/ handle[k].sym \in Maybe(Live)
  /\ place' = [place EXCEPT ![p] = handle[k].sym]
  /\ UNCHANGED <<handle, closure, registry, stack, ran, fault>>

(* A Lua function is stored in C memory: the handle of the new callback is *)
(* popped off the stack, and nothing else refers to it.                    *)
StoreFunction(h, c, f, p) ==
  /\ fault = "none" /\ "implicit" \in Liberty
  /\ \E r \in Ref : /\ FreeRef(r)
                    /\ registry' = [registry EXCEPT ![r] = f]
                    /\ MakeCallback(h, c, r, FALSE)
  /\ place' = [place EXCEPT ![p] = c]
  /\ UNCHANGED <<stack, ran, fault>>

(* A Lua function is passed for a function pointer argument: the function  *)
(* is anchored, the argument's value pointer is null, and libffi reads it. *)
PassFunction(f) ==
  /\ fault = "none" /\ "pass" \in Liberty
  /\ \E r \in Ref : FreeRef(r) /\ registry' = [registry EXCEPT ![r] = f]
  /\ fault' = "no value"
  /\ UNCHANGED <<handle, closure, place, stack, ran>>

ClearPlace(p) ==
  /\ fault = "none"
  /\ place' = [place EXCEPT ![p] = Null]
  /\ UNCHANGED <<handle, closure, registry, stack, ran, fault>>

-----------------------------------------------------------------------------
(***************************************************************************)
(* Calls                                                                   *)
(***************************************************************************)

(* cb_bind() up to its lua_call(): reads the owner, then the closure. *)
Trampoline(c, via) ==
  IF closure[c].st = "freed" THEN Fault("freed closure")
  ELSE IF handle[closure[c].owner].kind = "collected" THEN Fault("collected handle")
  ELSE /\ Len(stack) < MaxDepth
       /\ ran' = IF closure[c].fref = Null THEN Null ELSE registry[closure[c].fref]
       /\ stack' = Append(stack, [closure |-> c, via |-> via])
       /\ UNCHANGED <<handle, closure, registry, place, fault>>

(* C calls a function pointer it has kept; it may be called from Lua or    *)
(* from a callback.                                                        *)
CallPlace(p) ==
  /\ fault = "none"
  /\ place[p] # Null
  /\ "reckless" \in Liberty \/ place[p] \in Live
  /\ Trampoline(place[p], Null)

(* mutant: no check of fdata.cd *)
CallUnchecked(k) ==
  /\ Usable(k)
  /\ "reckless" \in Liberty \/ IsCallback(k) \/ handle[k].sym \in Live
  /\ IF handle[k].sym = Null THEN Fault("null pointer")
     ELSE Trampoline(handle[k].sym, k)

(* A handle is called in Lua; an error is raised for a handle that was     *)
(* used to free the callback.                                              *)
CallHandle(k) ==
  /\ Usable(k)
  /\ IsCallback(k) => handle[k].cd # Null
  /\ "reckless" \in Liberty \/ IsCallback(k) \/ handle[k].sym \in Live
  /\ IF handle[k].sym = Null THEN Fault("null pointer")
     ELSE Trampoline(handle[k].sym, k)

(* A handle is passed to a C function that calls it (a null argument it    *)
(* does not call).                                                         *)
PassHandle(k) ==
  /\ Usable(k) /\ handle[k].sym # Null
  /\ "reckless" \in Liberty \/ handle[k].sym \in Live
  /\ Trampoline(handle[k].sym, k)

Top == stack[Len(stack)]
Pop == SubSeq(stack, 1, Len(stack) - 1)

(* The Lua function has returned.  Its result is converted by the type in  *)
(* the owner, with the Lua state in the closure.                           *)
ReturnValue ==
  /\ fault = "none" /\ stack # <<>>
  /\ IF handle[closure[Top.closure].owner].kind = "collected" THEN Fault("collected handle")
     ELSE IF closure[Top.closure].st = "freed" THEN Fault("freed closure")
     ELSE /\ stack' = Pop
          /\ UNCHANGED <<handle, closure, registry, place, ran, fault>>

(* A callback without a result reads nothing after the call.  The same     *)
(* happens when the Lua function raises an error: the frames are unwound,  *)
(* one by one down to the pcall.                                           *)
ReturnNothing ==
  /\ fault = "none" /\ stack # <<>>
  /\ stack' = Pop
  /\ UNCHANGED <<handle, closure, registry, place, ran, fault>>

-----------------------------------------------------------------------------
(***************************************************************************)
(* The end of callbacks                                                    *)
(***************************************************************************)

(* Nothing but callback handles refers to the closure. *)
Quiet(c) ==
  /\ \A p \in Place : place[p] # c
  /\ \A i \in DOMAIN stack : stack[i].closure # c
  /\ \A h \in Handle : IsPointer(h) => handle[h].sym # c

(* luaL_unref() *)
Unref(r) == [registry EXCEPT ![r] = Null]

(* mutant: the function stays anchored *)
FreeKeepingRef(k) ==
  /\ Usable(k) /\ IsCallback(k) /\ handle[k].cd # Null
  /\ LET c == handle[k].cd
     IN  IF closure[c].st = "freed" THEN Fault("freed closure")
         ELSE /\ "reckless" \in Liberty \/ Quiet(c)
              /\ closure' = [closure EXCEPT ![c].st = "freed"]
              /\ handle' = [handle EXCEPT ![k].cd = Null]
              /\ UNCHANGED <<registry, place, stack, ran, fault>>

(* mutant: the handle keeps the closure pointer *)
FreeKeepingHandle(k) ==
  /\ Usable(k) /\ IsCallback(k) /\ handle[k].cd # Null
  /\ LET c == handle[k].cd
     IN  IF closure[c].st = "freed" THEN Fault("freed closure")
         ELSE /\ "reckless" \in Liberty \/ Quiet(c)
              /\ registry' = IF closure[c].fref = Null THEN registry ELSE Unref(closure[c].fref)
              /\ closure' = [closure EXCEPT ![c].st = "freed"]
              /\ UNCHANGED <<handle, place, stack, ran, fault>>

(* cb:free(); an error is raised when this handle was freed before. *)
CbFree(k) ==
  /\ Usable(k) /\ IsCallback(k) /\ handle[k].cd # Null
  /\ LET c == handle[k].cd
     IN  IF closure[c].st = "freed" THEN Fault("freed closure")
         ELSE /\ "reckless" \in Liberty \/ Quiet(c)
              /\ registry' = IF closure[c].fref = Null THEN registry ELSE Unref(closure[c].fref)
              /\ closure' = [closure EXCEPT ![c].st = "freed"]
              /\ handle' = [handle EXCEPT ![k].cd = Null]
              /\ UNCHANGED <<place, stack, ran, fault>>

(* mutant: the new slot is not stored *)
SetKeepingRef(k, f) ==
  /\ Usable(k) /\ IsCallback(k) /\ handle[k].cd # Null
  /\ LET c   == handle[k].cd
         old == closure[c].fref
         reg == IF old = Null THEN registry ELSE Unref(old)
     IN  IF closure[c].st = "freed" THEN Fault("freed closure")
         ELSE /\ \E r \in Ref : /\ reg[r] = Null
                                /\ registry' = [reg EXCEPT ![r] = f]
              /\ UNCHANGED <<handle, closure, place, stack, ran, fault>>

(* mutant: the new slot is given back, not the old one *)
SetThenUnref(k, f) ==
  /\ Usable(k) /\ IsCallback(k) /\ handle[k].cd # Null
  /\ LET c == handle[k].cd
     IN  IF closure[c].st = "freed" THEN Fault("freed closure")
         ELSE /\ \E r \in Ref : FreeRef(r) /\ closure' = [closure EXCEPT ![c].fref = r]
              /\ UNCHANGED <<handle, registry, place, stack, ran, fault>>

(* cb:set(f): the old slot is given back before the new one is taken. *)
CbSet(k, f) ==
  /\ Usable(k) /\ IsCallback(k) /\ handle[k].cd # Null
  /\ LET c   == handle[k].cd
         old == closure[c].fref
         reg == IF old = Null THEN registry ELSE Unref(old)
     IN  IF closure[c].st = "freed" THEN Fault("freed closure")
         ELSE /\ \E r \in Ref : /\ reg[r] = Null
                                /\ registry' = [reg EXCEPT ![r] = f]
                                /\ closure' = [closure EXCEPT ![c].fref = r]
              /\ UNCHANGED <<handle, place, stack, ran, fault>>

(* The program loses its last reference to a cdata. *)
Drop(k) ==
  /\ Usable(k)
  /\ IsPointer(k) \/ handle[k].cd = Null \/ "drop" \in Liberty
  /\ handle' = [handle EXCEPT ![k].held = FALSE]
  /\ UNCHANGED <<closure, registry, place, stack, ran, fault>>

(* The garbage collector takes a cdata nothing in Lua refers to            *)
(* (destroy_cdata() leaves the closure alone).                             *)
Collect(h) ==
  /\ fault = "none"
  /\ IsCallback(h) \/ IsPointer(h)
  /\ ~handle[h].held /\ ~OnStack(h)
  /\ handle' = [handle EXCEPT ![h] =
                  [kind |-> "collected", cd |-> Null, sym |-> Null, held |-> FALSE]]
  /\ UNCHANGED <<closure, registry, place, stack, ran, fault>>

Next ==
  \/ \E h \in Handle, c \in Closure :
        \/ NewCallback(h, c)
        \/ \E f \in Function : CastFunction(h, c, f)
        \/ \E k \in Handle : CopyFreed(h, k, c)
        \/ \E f \in Function, p \in Place : StoreFunction(h, c, f, p)
  \/ \E h, k \in Handle : CopyHandle(h, k)
  \/ \E h \in Handle, p \in Place : ReadPlace(h, p) \/ StoreHandle(h, p)
  \/ \E f \in Function : ConvertFails(f) \/ PassFunction(f)
  \/ \E p \in Place : ClearPlace(p) \/ CallPlace(p)
  \/ \E k \in Handle : CallHandle(k) \/ PassHandle(k) \/ CbFree(k) \/ Drop(k) \/ Collect(k)
  \/ \E k \in Handle, f \in Function : CbSet(k, f)
  \/ ReturnValue
  \/ ReturnNothing

Spec == Init /\ [][Next]_vars

-----------------------------------------------------------------------------
(* Closure pointers and trampoline addresses are those of closures that    *)
(* were made.                                                              *)
Made == {c \in Closure : closure[c].st # "none"}

Pointers ==
  /\ \A c \in Made : closure[c].owner \in Handle
  /\ \A h \in Handle : handle[h].cd \in Maybe(Made) /\ handle[h].sym \in Maybe(Made)
  /\ \A p \in Place : place[p] \in Maybe(Made)
  /\ \A i \in DOMAIN stack : stack[i].closure \in Made

TypeOK ==
  /\ handle \in [Handle -> HandleState]
  /\ closure \in [Closure -> ClosureState]
  /\ registry \in [Ref -> Maybe(Function)]
  /\ place \in [Place -> Maybe(Closure)]
  /\ stack \in Seq(Call)
  /\ ran \in Maybe(Function)
  /\ fault \in Faults
  /\ Pointers

(***************************************************************************)
(* No call through a function pointer and no callback method reads memory  *)
(* that is gone, as long as the program is careful: in cb_bind() both the  *)
(* handle and the closure are there, before the Lua function runs and      *)
(* after it.                                                               *)
(***************************************************************************)
NoFault == fault = "none"

(***************************************************************************)
(* docs/api.md, cb:free(): once a callback is freed its handle must not be *)
(* called any more, "an error will be raised".  call(), cb_free() and      *)
(* cb_set() raise it when fdata.cd is null, so no handle of a freed        *)
(* callback may still have a closure pointer.                              *)
(***************************************************************************)
FreedHandleRaises ==
  \A h \in Handle : IsCallback(h) /\ handle[h].cd # Null => handle[h].cd \in Live

(***************************************************************************)
(* A callback that was given a function owns one slot of the registry,     *)
(* which holds a function, and no two callbacks own the same one, so that  *)
(* giving a slot back takes it from nobody else (closure_data, cb_set).    *)
(***************************************************************************)
WithFunction == {c \in Live : closure[c].fref # Null}

RefsOwned ==
  /\ \A c \in WithFunction : registry[closure[c].fref] # Null
  /\ \A c, d \in WithFunction : closure[c].fref = closure[d].fref => c = d

(***************************************************************************)
(* Nothing is leaked: a function is anchored only as long as a callback    *)
(* that is not freed runs it (docs/api.md, cb:free(), cb:set(): the old    *)
(* function is unanchored).                                                *)
(***************************************************************************)
NothingLeaked ==
  \A r \in Ref : registry[r] # Null => \E c \in Live : closure[c].fref = r

(***************************************************************************)
(* docs/semantics.md: "callbacks are permanent".  One that is not freed    *)
(* can be called by C at any time, whatever became of its handle.          *)
(***************************************************************************)
CallbacksPermanent == fault # "collected handle"

(***************************************************************************)
(* docs/semantics.md: a callback may be created implicitly, by passing a   *)
(* Lua function, and C can call the resulting function pointer.            *)
(***************************************************************************)
PassedFunctionCallable == fault # "no value"

(***************************************************************************)
(* make_cdata_func(): "copying existing callback reference".  The copy of  *)
(* a callback handle can be called like the handle.                        *)
(***************************************************************************)
CopiedHandleCallable == fault # "null pointer"

(***************************************************************************)
(* Seen from Lua, callbacks are the table of CallbackTable: a call runs    *)
(* the function last associated with that very callback, and creating,     *)
(* setting or freeing one changes no other, although all of them share the *)
(* slots of the registry.                                                  *)
(***************************************************************************)
Assoc == [c \in Live |-> IF closure[c].fref = Null THEN Null ELSE registry[closure[c].fref]]

Table == INSTANCE CallbackTable WITH
           Callback <- Closure, NoFunction <- Null, assoc <- Assoc

ImplementsCallbackTable == Table!Spec
=============================================================================
