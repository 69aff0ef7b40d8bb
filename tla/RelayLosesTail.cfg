CONSTANTS
  BufSize = 2
  MaxBytes = 1
  PeerMayReset = FALSE
SPECIFICATION Spec
INVARIANT NormalTerminationDelivers
CHECK_DEADLOCK FALSE
