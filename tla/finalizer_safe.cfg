CONSTANTS
  Object = {o1, o2, o3}
  Ref = {r1, r2}
  Function = {f1}
  Null = Null
  Unborn = Unborn
  Gone = Gone
  Liberty = {}
  MaxDepth = 2
SPECIFICATION Spec
SYMMETRY Symmetry
INVARIANTS TypeOK NoFault NothingLeaked
PROPERTIES CallbacksUntouched
\* a finalizer that refers to its own cdata keeps it for ever
CHECK_DEADLOCK FALSE
