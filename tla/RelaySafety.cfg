CONSTANTS
  BufSize = 2
  MaxBytes = 3
  PeerMayReset = TRUE
  Builds = {"poll", "select", "splice"}
SPECIFICATION MCSpec
INVARIANT TypeOK
INVARIANT FinNotForgotten
PROPERTY ForwardsToProxy
PROPERTY ForwardsToClient
PROPERTY TimeoutCutsNothing
CHECK_DEADLOCK FALSE
