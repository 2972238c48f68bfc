SPECIFICATION FairSpec
CONSTANTS
  Procs = {p1}
  Objs = {o1}
  Lsns = {l1, l2}
  a1 = a1
  t1 = t1
  Addrs = {a1}
  Targets = {t1}
  MaxID = 2
  Saved <- OneLocal
  Backend = TRUE
  Ops = {"restart"}
  Nil = Nil
CHECK_DEADLOCK FALSE
PROPERTY RestartReturns
