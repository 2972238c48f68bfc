SPECIFICATION FairSpec
CONSTANTS
  MaxBytes = 3
  Cap = 1
CHECK_DEADLOCK FALSE
INVARIANTS TypeOK InOrder NothingLost EOFIsLast NoneLeftOpen
PROPERTIES RelayReturns ImplementsDuplex
