SPECIFICATION FairSpec
CONSTANTS
  Procs = {p1, p2}
  Objs = {o1, o2}
  Lsns = {l1}
  a1 = a1
  t1 = t1
  Addrs = {a1}
  Targets = {t1}
  MaxID = 2
  Saved <- NoRules
  Backend = FALSE
  Ops = {"add", "remove", "update", "restart"}
  Nil = Nil
CHECK_DEADLOCK FALSE
PROPERTIES CallsReturn LoopsExit
INVARIANTS PortsOwned StatusHonest
