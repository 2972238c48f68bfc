SPECIFICATION FairSpec
CONSTANTS
  MaxPub = 2
  MaxOpen = 2
  MaxSess = 2
  MaxConns = 2
  Ports = {1, 2}
  Nil = Nil
INVARIANTS TypeOK Matched DataOwned
PROPERTIES PublicServed EndsTogether
CHECK_DEADLOCK FALSE
