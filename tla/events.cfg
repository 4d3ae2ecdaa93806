SPECIFICATION Spec
CONSTANTS
  EventIds = {e1}
  MovementIds = {m1, m2, m3}
  Accounts = {a1, a2}
  Categories = {c1}
  Requests = {r1, r2}
  Inputs <- AllInputs
  MaxEvents = 1
  MaxMovements = 2
  None = None
SYMMETRY Symmetry
INVARIANT TypeOK
INVARIANT ReferentialIntegrity
INVARIANT MainMovements
INVARIANT MainsAsRead
PROPERTY EventsImplementLimit
PROPERTY StableIdentity
PROPERTY StructureKept
