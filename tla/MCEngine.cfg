SPECIFICATION Spec
CONSTANTS
  Procs = {p1, p2}
  Objs = {o1, o2, o3}
  Lsns = {l1, l2}
  a1 = a1
  t1 = t1
  Addrs = {a1, a2}
  Targets = {t1}
  MaxID = 2
  Saved <- OneLocal
  Backend = FALSE
  Ops = {"add", "remove", "update"}
  Nil = Nil
SYMMETRY Symmetry
CHECK_DEADLOCK FALSE
INVARIANTS TypeOK PortsOwned NoPanic StatusHonest
PROPERTY IDsNotReused
