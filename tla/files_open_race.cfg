SPECIFICATION Spec
CONSTANTS
  Ledgers = {l1, l2}
  Requests = {r1, r2}
  Commands = {c1}
  Server = Server
  None = None
PROPERTY OpeningCreatesNoFile
