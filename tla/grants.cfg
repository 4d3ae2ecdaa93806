SPECIFICATION Spec
CONSTANTS
  Users = {u1, u2}
  Accesses = {x1, x2}
  Ledgers = {l1}
  GrantIds = {g1, g2, g3}
  Requests = {r1, r2}
  Calls <- AllCalls
  MaxLedgers = 1
  MaxAccesses = 1
  None = None
SYMMETRY Symmetry
INVARIANT TypeOK
INVARIANT OneActiveEach
INVARIANT AccessesAreGuests
INVARIANT GrantsRefer
PROPERTY OwnersImplementLimit
PROPERTY AccessesImplementLimit
PROPERTY OwnerKept
PROPERTY HistoryKept
