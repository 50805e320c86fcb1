--------------------------- MODULE CallbackTable ---------------------------
(***************************************************************************)
(* What a callback is to a Lua program (docs/semantics.md, "Callbacks",    *)
(* and docs/api.md, "Callback methods"): a C function pointer that runs    *)
(* the Lua function last associated with it, until it is freed.            *)
(***************************************************************************)
CONSTANTS
  Callback,   \* the identities callbacks can have
  Function,   \* the Lua functions
  NoFunction  \* a callback that was created without a function

VARIABLES
  assoc,   \* the callbacks that exist, each with its Lua function
  ran      \* what the last call through a callback ran

tablevars == <<assoc, ran>>

Init ==
  /\ assoc = [c \in {} |-> NoFunction]
  /\ ran = NoFunction

Create(c, f) ==
  /\ c \notin DOMAIN assoc
  /\ assoc' = [k \in DOMAIN assoc \cup {c} |-> IF k = c THEN f ELSE assoc[k]]
  /\ UNCHANGED ran

Set(c, f) ==
  /\ c \in DOMAIN assoc
  /\ assoc' = [assoc EXCEPT ![c] = f]
  /\ UNCHANGED ran

Free(c) ==
  /\ c \in DOMAIN assoc
  /\ assoc' = [k \in DOMAIN assoc \ {c} |-> assoc[k]]
  /\ UNCHANGED ran

Run(c) ==
  /\ c \in DOMAIN assoc
  /\ ran' = assoc[c]
  /\ UNCHANGED assoc

Next ==
  \E c \in Callback :
     \/ \E f \in Function \cup {NoFunction} : Create(c, f)
     \/ \E f \in Function : Set(c, f)
     \/ Free(c)
     \/ Run(c)

Spec == Init /\ [][Next]_tablevars
=============================================================================
