CONSTANTS
  Handle = {h1, h2, h3, h4}
  Closure = {c1, c2}
  Ref = {r1, r2}
  Function = {f1, f2}
  Place = {p1}
  Null = Null
  Liberty = {}
  MaxDepth = 2
SPECIFICATION Spec
SYMMETRY Symmetry
INVARIANTS TypeOK NoFault NothingLeaked
