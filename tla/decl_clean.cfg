CONSTANTS
  RecTags = {S}
  EnumTags = {}
  Idents = {x}
  MaxObj = 3
  MaxDepth = 1
SPECIFICATION CleanSpec
INVARIANTS NoDangling
PROPERTIES ImplementsNamespace
\* a parse that may not fail stops when the bounded heap is used up
CHECK_DEADLOCK FALSE
