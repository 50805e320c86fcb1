----------------------------- MODULE Namespace -----------------------------
(***************************************************************************)
(* What cffi.cdef promises to a Lua program (docs/api.md, "Declaring and   *)
(* accessing symbols"): one global namespace of C declarations, in which a *)
(* call either adds all of its declarations or, when it raises an error,   *)
(* changes nothing.  A name, once declared, is never dropped or turned     *)
(* into something else; an opaque struct, union or enum may be completed   *)
(* once.                                                                   *)
(***************************************************************************)
VARIABLES
  ns,        \* the declared names: name -> [kind, complete]
  outcome    \* how the last call ended: "ok" or "error", "none" during one

nsvars == <<ns, outcome>>

(***************************************************************************)
(* new keeps every declaration of old, up to the completion of opaque ones *)
(***************************************************************************)
Extends(old, new) ==
  /\ DOMAIN old \subseteq DOMAIN new
  /\ \A n \in DOMAIN old :
        /\ new[n].kind = old[n].kind
        /\ old[n].complete => new[n].complete

Init == ns = [n \in {} |-> {}] /\ outcome = "none"

Call ==
  /\ outcome' = "none"
  /\ ns' = ns

Succeed ==
  /\ outcome = "none"
  /\ Extends(ns, ns')
  /\ outcome' = "ok"

Fail ==
  /\ outcome = "none"
  /\ outcome' = "error"
  /\ ns' = ns

Next == Call \/ Succeed \/ Fail

Spec == Init /\ [][Next]_nsvars
=============================================================================
