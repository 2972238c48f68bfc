SPECIFICATION FairSpec
CONSTANTS
  Callers = {p1}
  IDs = {r1}
  Addrs = {a1}
  Conns = {k1, k2}
  Lsns = {l1}
  MaxCalls = 2
  Cap = 2
  Ops = {"cancel", "close"}
  Nil = Nil
CHECK_DEADLOCK FALSE
PROPERTIES RunReturns HandlersReturn
