CONSTANTS
  s1 = s1
  s2 = s2
  o1 = o1
  Default = C
  Null = Null
  NoValue = NoValue
  Handle = {h1, h2}
  Value = {v1, v2}
  MaxLoads = 2
  MaxArgs = 2
  MaxDepth = 2
  StorWords = 2
  Space <- MCSpace
  Object <- MCObject
  Symbol <- MCSymbol
  Exports <- MCExports
  Signature <- MCSignature
SPECIFICATION Spec
CONSTRAINT Few
SYMMETRY Symmetry
INVARIANTS TypeOK OpenNamespacesServe CacheInvisible OpensCounted ArgumentsArrive ResultsWait StorageHolds
\* the model stops at a bad access
CHECK_DEADLOCK FALSE
