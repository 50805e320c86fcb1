CONSTANTS
  Handle = {h1, h2, h3}
  Closure = {c1, c2}
  Ref = {r1, r2}
  Function = {f1, f2}
  Place = {p1}
  Null = Null
  Liberty = {"copy", "implicit", "pass", "drop", "reckless", "fail"}
  MaxDepth = 1
SPECIFICATION Spec
SYMMETRY Symmetry
INVARIANTS RefsOwned
PROPERTIES ImplementsCallbackTable
\* the model stops at a bad access
CHECK_DEADLOCK FALSE
