SPECIFICATION Spec
CONSTANTS
  MaxBytes = 3
  Cap = 1
CHECK_DEADLOCK FALSE
INVARIANT ReadHalfCompletes
