SPECIFICATION FairSpec
CONSTANTS
  Callers = {p1}
  IDs = {r1}
  Contents = {v1}
  Conns = {k1, k2}
  Ents = {e1, e2}
  Ops = {"add", "remove", "shutdown", "cancel"}
  Nil = Nil
CHECK_DEADLOCK FALSE
PROPERTIES RunReturns LoopsExit
