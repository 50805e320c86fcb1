CONSTANTS
  Object = {o1, o2}
  Ref = {r1, r2}
  Function = {f1}
  Null = Null
  Unborn = Unborn
  Gone = Gone
  Liberty = {"replace", "resurrect", "close"}
  MaxDepth = 2
SPECIFICATION FairSpec
INVARIANTS RefsOwned
PROPERTIES ImplementsFinalizerTable StateCloses
\* the state is closed, or the model stops at a fault
CHECK_DEADLOCK FALSE
