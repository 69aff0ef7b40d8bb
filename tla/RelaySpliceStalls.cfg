CONSTANTS
  BufSize = 1
  MaxBytes = 2
  PeerMayReset = FALSE
  Builds = {"splice"}
SPECIFICATION MCFairSpec
PROPERTY BytesArrive
CHECK_DEADLOCK FALSE
