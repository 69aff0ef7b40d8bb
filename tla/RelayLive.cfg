CONSTANTS
  BufSize = 1
  MaxBytes = 2
  PeerMayReset = TRUE
  Builds = {"poll", "select"}
SPECIFICATION MCFairSpec
PROPERTY BytesArrive
 
CHECK_DEADLOCK FALSE
