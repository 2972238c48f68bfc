SPECIFICATION Spec
CONSTANTS
  Callers = {p1, p2}
  IDs = {r1}
  Addrs = {a1, a2}
  Conns = {k1, k2}
  Lsns = {l1, l2}
  MaxCalls = 3
  Cap = 2
  Ops = {"lose", "crash"}
  Nil = Nil
SYMMETRY Symmetry
CHECK_DEADLOCK FALSE
INVARIANTS TypeOK RulesAgree PublicOwned
