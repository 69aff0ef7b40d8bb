CONSTANTS
  MaxConn = 3
  QBacklog = 2
  MaxLinks = 2
  MaxUrls = 8
SPECIFICATION FairSpec
INVARIANT TypeOK
INVARIANT AtMostMaxConn
INVARIANT EndsDrained
PROPERTY EveryUrlEnds
CHECK_DEADLOCK FALSE
