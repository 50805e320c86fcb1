--------------------------- MODULE FinalizerTable ---------------------------
(***************************************************************************)
(* What cffi.gc promises to a Lua program (docs/api.md): each cdata has at *)
(* most one finalizer, the one associated with it last; it is called when  *)
(* the cdata is collected, and a cdata is collected once.                  *)
(***************************************************************************)
CONSTANTS
  Object,      \* the cdata
  Finalizer,   \* the Lua functions
  NoFinalizer,
  Unborn,      \* a cdata that was not made yet
  Gone         \* a cdata that was collected

VARIABLES
  fin,   \* for each cdata its finalizer, or what it is instead
  ran    \* the finalizer that was called last, with its cdata

tablevars == <<fin, ran>>

Alive(o) == fin[o] \notin {Unborn, Gone}

Init ==
  /\ fin = [o \in Object |-> Unborn]
  /\ ran = <<>>

New(o, f) ==
  /\ fin[o] = Unborn
  /\ fin' = [fin EXCEPT ![o] = f]
  /\ UNCHANGED ran

Associate(o, f) ==
  /\ Alive(o)
  /\ fin' = [fin EXCEPT ![o] = f]
  /\ UNCHANGED ran

Collect(o) ==
  /\ Alive(o)
  /\ ran' = IF fin[o] = NoFinalizer THEN ran ELSE <<o, fin[o]>>
  /\ fin' = [fin EXCEPT ![o] = Gone]

Next ==
  \E o \in Object :
     \/ \E f \in Finalizer \cup {NoFinalizer} : New(o, f) \/ Associate(o, f)
     \/ Collect(o)

Spec == Init /\ [][Next]_tablevars
=============================================================================
