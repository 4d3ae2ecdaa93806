SPECIFICATION Spec
CONSTANTS
  Categories = {c1, c2, c3, c4}
  Requests = {r1, r2}
  MaxDepth = 2
  MaxSize = 3
  Root = Root
  None = None
SYMMETRY Symmetry
INVARIANT TypeOK
INVARIANT NoDanglingReference
INVARIANT DepthOvershoot
PROPERTY CategoriesImplementLimit
PROPERTY NoResurrection
PROPERTY DepthKept
