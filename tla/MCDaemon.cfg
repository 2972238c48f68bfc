SPECIFICATION Spec
CONSTANTS
  Procs = {p1, p2}
  MaxID = 2
  MaxCred = 3
  Locals = {x}
  Cls = {c1, c2, c3}
  Disks <- MCDisks
  MaxCalls = 3
  MaxCrashes = 1
  Nil = Nil
  Torn = Torn
  Gone = Gone
SYMMETRY Symmetry
INVARIANTS
  TypeOK
  Durable
  ForwardsAgree
  ClientsOwned
PROPERTIES
  CredIDsFresh
CHECK_DEADLOCK FALSE
