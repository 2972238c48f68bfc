SPECIFICATION Spec
CONSTANTS
  Callers = {p1, p2}
  IDs = {r1}
  Contents = {v1, v2}
  Conns = {k1, k2}
  Ents = {e1, e2}
  Ops = {"add", "remove", "shutdown", "cancel"}
  Nil = Nil
SYMMETRY Symmetry
CHECK_DEADLOCK FALSE
INVARIANTS TypeOK NothingForgotten ListenersAgree ListenersOwned
  OneConnection StopsOnce
