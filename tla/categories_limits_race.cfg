SPECIFICATION Spec
CONSTANTS
  Categories = {c1, c2, c3}
  Requests = {r1, r2}
  MaxDepth = 2
  MaxSize = 3
  Root = Root
  None = None
SYMMETRY Symmetry
INVARIANT TreeAsDocumented
