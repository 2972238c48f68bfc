SPECIFICATION Spec
CONSTANTS
  Procs = {p1, p2}
  Objs = {o1, o2, o3}
  Lsns = {l1}
  a1 = a1
  t1 = t1
  Addrs = {a1}
  Targets = {t1, t2}
  MaxID = 3
  Saved <- LocalAndRemote
  Backend = TRUE
  Ops = {"add", "remove", "update", "report"}
  Nil = Nil
SYMMETRY Symmetry
CHECK_DEADLOCK FALSE
INVARIANT BackendAgrees
