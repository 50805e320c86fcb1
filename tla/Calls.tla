-------------------------------- MODULE Calls -------------------------------
(***************************************************************************)
(* Calls of C functions (src/ffi.cc, make_cdata_func, prepare_cif_var,     *)
(* call_cif, to_lua, destroy_cdata; src/ffilib.cc, cdata_meta::call), with *)
(* the namespaces the functions come from.                                 *)
(*                                                                         *)
(* A function cdata holds the address of the function, room for one        *)
(* result, and a buffer for its arguments; that of a variadic function is  *)
(* allocated for the call with most arguments so far.  These are shared by *)
(* all calls made with that cdata, and calls nest: C may call back into    *)
(* Lua, and so may the collector, which runs finalizers when the cdata is  *)
(* made that a result is copied to.  Converting arguments runs no Lua code.*)
(***************************************************************************)
EXTENDS Library, ArgBuffer, Sequences

CONSTANTS
  Handle,      \* addresses of function cdata (bound: those at once)
  Value,       \* values that C and Lua pass each other
  NoValue,     \* none of them
  Signature,   \* of each symbol, see below
  MaxDepth     \* bound: nesting of calls

(***************************************************************************)
(* kind      "function" or "variable"                                      *)
(* fixed     parameters of a function, the variable part aside             *)
(* result    words of its result                                           *)
(* late      the result is copied after a cdata was made for it, which is  *)
(*           the case for records and long doubles                         *)
(***************************************************************************)
Signatures == [kind : {"function", "variable"}, fixed : Nat, variadic : BOOLEAN,
               result : Nat, late : BOOLEAN]

ASSUME SignatureAssumption ==
  Signature \in [Symbol -> Signatures] /\ \A n \in Symbol : Signature[n].fixed <= MaxArgs
ASSUME ValueAssumption == NoValue \notin Value
ASSUME BoundsAssumption == MaxDepth \in Nat

VARIABLES
  fdata,    \* the cdata
  stack,    \* calls in progress, innermost last
  fault     \* "none", or what went wrong for good

callVars == <<fdata, stack, fault>>
vars == <<space, object, scope, fdata, stack, fault>>

(* from and sym say where the address was found; aux is the number of      *)
(* arguments a variadic function has a buffer for; intact, that its types  *)
(* and its buffer are what they were made.                                 *)
FdataState ==
  [live : BOOLEAN, held : BOOLEAN, from : Space, sym : Symbol,
   addr : Address \cup {NoAddress}, rarg : Value \cup {NoValue},
   allocated : BOOLEAN, aux : 0..MaxArgs, intact : BOOLEAN]

(* phase "c": C runs; "copy": it has returned own, and a cdata is being    *)
(* made for it; again, that the room for the result was used since.        *)
Frame == [handle : Handle, phase : {"c", "copy"}, own : Value \cup {NoValue}, again : BOOLEAN]

Fdata(s, n, addr) ==
  [live |-> addr # NoAddress, held |-> addr # NoAddress, from |-> s, sym |-> n, addr |-> addr,
   rarg |-> NoValue, allocated |-> FALSE, aux |-> 0, intact |-> TRUE]
NoFdata == Fdata(Default, CHOOSE n \in Symbol : TRUE, NoAddress)

CallsInit ==
  /\ fdata = [h \in Handle |-> NoFdata]
  /\ stack = <<>>
  /\ fault = [what |-> "none", from |-> Default]

Init == LibraryInit /\ CallsInit

Top == stack[Len(stack)]
OnStack(h) == \E i \in DOMAIN stack : stack[i].handle = h
Sound == fault.what = "none"

Usable(h) == Sound /\ fdata[h].held
Sig(h) == Signature[fdata[h].sym]

Fault(what, from) ==
  /\ fault' = [what |-> what, from |-> from]
  /\ UNCHANGED <<space, object, scope, fdata, stack>>

-----------------------------------------------------------------------------
(***************************************************************************)
(* Symbols                                                                 *)
(***************************************************************************)

(* get_global() of a function.  One that is not found is an error.         *)
GetGlobal(s, n, h) ==
  /\ Sound /\ space[s].held /\ ~fdata[h].live
  /\ Signature[n].kind = "function"
  /\ \E a \in GetSym(s, n) :
       Remember(s, n, a) /\ fdata' = [fdata EXCEPT ![h] = Fdata(s, n, a)]
  /\ UNCHANGED <<object, scope, stack, fault>>

(* get_global() and set_global() of a variable, which is at its address. *)
AccessGlobal(s, n) ==
  /\ Sound /\ space[s].held
  /\ Signature[n].kind = "variable"
  /\ \E a \in GetSym(s, n) :
       IF IsMapped(a) THEN Remember(s, n, a) /\ UNCHANGED <<object, scope, callVars>>
       ELSE Fault("unmapped variable", s)

Drop(h) ==
  /\ Usable(h)
  /\ fdata' = [fdata EXCEPT ![h].held = FALSE]
  /\ UNCHANGED <<libraryVars, stack, fault>>

(* destroy_cdata(): the buffer of a variadic function is freed. *)
Collect(h) ==
  /\ Sound /\ fdata[h].live /\ ~fdata[h].held /\ ~OnStack(h)
  /\ IF fdata[h].allocated /\ ~fdata[h].intact
     THEN Fault("overwritten buffer", fdata[h].from)
     ELSE /\ fdata' = [fdata EXCEPT ![h] = NoFdata]
          /\ UNCHANGED <<libraryVars, stack, fault>>

-----------------------------------------------------------------------------
(***************************************************************************)
(* Calls                                                                   *)
(***************************************************************************)
Max2(a, b) == IF a >= b THEN a ELSE b

(* mutant: the fixed arguments are counted again *)
CountBoth(h, given) == Sig(h).fixed + given

(* The arguments a call lays its buffer out for: all of those given in the *)
(* case of a variadic function.                                            *)
Count(h, given) == IF Sig(h).variadic THEN Max2(given, Sig(h).fixed) ELSE Sig(h).fixed

(* mutant: a buffer is kept however small it is *)
CapacityKept(h, given) == IF fdata[h].allocated THEN fdata[h].aux ELSE Count(h, given)

(* The arguments there is room for: prepare_cif_var() allocates a buffer   *)
(* that is larger when it has to.                                          *)
Capacity(h, given) ==
  IF Sig(h).variadic /\ fdata[h].allocated THEN Max2(fdata[h].aux, Count(h, given)) ELSE Count(h, given)

Prepared(h, given) ==
  [fdata EXCEPT ![h].aux = IF Sig(h).variadic THEN Capacity(h, given) ELSE @,
                ![h].allocated = Sig(h).variadic]

CanCall(h) == Usable(h) /\ Signature[fdata[h].sym].kind = "function"

(* call_cif() with so many arguments, up to where C runs.  libffi reads    *)
(* every argument before, so that what a call within this one does to the  *)
(* buffer comes too late.                                                  *)
Invoke(h, given) ==
  /\ CanCall(h) /\ Len(stack) < MaxDepth
  /\ given >= Sig(h).fixed
  /\ IF ~fdata[h].intact THEN Fault("overwritten buffer", fdata[h].from)
     ELSE IF ~IsMapped(fdata[h].addr) THEN Fault("unmapped function", fdata[h].from)
     ELSE /\ fdata' = Prepared(h, given)
          /\ stack' = Append(stack, [handle |-> h, phase |-> "c", own |-> NoValue, again |-> FALSE])
          /\ UNCHANGED <<libraryVars, fault>>

(* An error leaves the calls in progress inside the Lua code that handles  *)
(* it; the one of a finalizer goes no further than the finalizer.          *)
Unwind ==
  \E k \in 0..Len(stack) : /\ \A j \in (k + 1)..Len(stack) : stack[j].phase = "c"
                           /\ stack' = SubSeq(stack, 1, k)

(* call_cif() when an argument is missing or cannot be converted: the      *)
(* buffer has been prepared, and some of the arguments may be in it.       *)
InvokeFails(h, given) ==
  /\ CanCall(h) /\ Count(h, given) > 0
  /\ IF ~fdata[h].intact THEN Fault("overwritten buffer", fdata[h].from)
     ELSE /\ fdata' = Prepared(h, given)
          /\ Unwind
          /\ UNCHANGED <<libraryVars, fault>>

(* Lua code that C has called back raises an error. *)
Raise ==
  /\ Sound /\ stack # <<>>
  /\ Unwind
  /\ UNCHANGED <<libraryVars, fdata, fault>>

(* The calls whose result is in the room that h has for one. *)
Overtaken(h) ==
  [i \in DOMAIN stack |->
     IF stack[i].handle = h /\ stack[i].phase = "copy" THEN [stack[i] EXCEPT !.again = TRUE] ELSE stack[i]]

(* mutant: all functions share the room for a result *)
WithResultShared(h, v) == [g \in Handle |-> [fdata[g] EXCEPT !.rarg = v]]

(* libffi stores the result.  After the room for it come the arguments and *)
(* types of a function, then other memory; or the address of the buffer of *)
(* a variadic one.                                                         *)
WithResult(h, v) ==
  LET n == Sig(h).fixed
      needed == IF Sig(h).variadic THEN {0} ELSE {TypeAt(n, i) : i \in 0..(n - 1)} \cup {Size(n)}
  IN  [fdata EXCEPT ![h].rarg = v, ![h].intact = @ /\ \A w \in needed : Sig(h).result <= StorWords + w]

(* C returns v, if its code is still there; call_cif() and to_lua(). *)
CReturns(v) ==
  /\ Sound /\ stack # <<>> /\ Top.phase = "c"
  /\ LET h == Top.handle
     IN  IF ~IsMapped(fdata[h].addr) THEN Fault("unmapped function", fdata[h].from)
         ELSE /\ fdata' = WithResult(h, v)
              /\ stack' = IF Sig(h).late
                          THEN [Overtaken(h) EXCEPT ![Len(stack)] = [@ EXCEPT !.phase = "copy", !.own = v]]
                          ELSE SubSeq(Overtaken(h), 1, Len(stack) - 1)
              /\ UNCHANGED <<libraryVars, fault>>

(* to_lua(): the result is copied to the cdata that was made for it. *)
Copy ==
  /\ Sound /\ stack # <<>> /\ Top.phase = "copy"
  /\ stack' = SubSeq(stack, 1, Len(stack) - 1)
  /\ UNCHANGED <<libraryVars, fdata, fault>>

Next ==
  \/ Sound /\ LibraryStep /\ UNCHANGED callVars
  \/ \E s \in Space, n \in Symbol : AccessGlobal(s, n) \/ \E h \in Handle : GetGlobal(s, n, h)
  \/ \E h \in Handle : \/ Drop(h) \/ Collect(h)
                       \/ \E given \in 0..MaxArgs : Invoke(h, given) \/ InvokeFails(h, given)
  \/ Raise
  \/ \E v \in Value : CReturns(v)
  \/ Copy

Spec == Init /\ [][Next]_vars

-----------------------------------------------------------------------------
Faults == {"none", "unmapped variable", "unmapped function", "overwritten buffer"}

TypeOK ==
  /\ LibraryTypeOK
  /\ fdata \in [Handle -> FdataState]
  /\ stack \in Seq(Frame)
  /\ fault \in [what : Faults, from : Space]

(***************************************************************************)
(* As long as a namespace is open, what was found through it is there:     *)
(* code and variables go away only behind the back of cffi.C, or when the  *)
(* program has lost the namespace, however many namespaces of one library  *)
(* there are, and in whatever order they are closed.  (lib::close)         *)
(***************************************************************************)
OpenNamespacesServe ==
  fault.what \in {"unmapped variable", "unmapped function"} =>
    fault.from = Default \/ space[fault.from].st = "closed"

(***************************************************************************)
(* C gets the arguments that a call is made with, through whatever buffer  *)
(* earlier calls, calls that failed and calls in progress have left; the   *)
(* exception is a record in the variable part.  (call_cif)                 *)
(***************************************************************************)
ArgumentsArrive ==
  \A h \in Handle : CanCall(h) =>
    \A given \in Sig(h).fixed..MaxArgs : Delivers[Count(h, given)][Capacity(h, given)][Sig(h).fixed]

(***************************************************************************)
(* A result that waits to be copied is the one its own C function returned,*)
(* unless the function was called again, from a finalizer, since then.     *)
(* (call_cif, to_lua)                                                      *)
(***************************************************************************)
ResultsWait ==
  \A i \in DOMAIN stack :
    stack[i].phase = "copy" => fdata[stack[i].handle].rarg = stack[i].own \/ stack[i].again

(***************************************************************************)
(* The types and the buffer of a function are overwritten only by a result *)
(* that has no room in the place for a scalar and those for the arguments, *)
(* which follow it.  (make_cdata_func)                                     *)
(***************************************************************************)
StorageHolds ==
  \A h \in Handle :
    fdata[h].intact \/ Sig(h).result > StorWords * (IF Sig(h).variadic THEN 1 ELSE 1 + Sig(h).fixed)
=============================================================================
