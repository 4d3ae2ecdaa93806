SPECIFICATION Spec
CONSTANTS
  EventIds = {e1}
  MovementIds = {m1, m2, m3}
  Accounts = {a1, a2}
  Categories = {c1}
  Requests = {r1, r2}
  Inputs <- ValidInputs
  MaxEvents = 1
  MaxMovements = 2
  None = None
SYMMETRY Symmetry
INVARIANT StructureAsDocumented
