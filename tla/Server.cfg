CONSTANTS
  Threads = {t1, t2, t3}
  Conns = {c1, c2, c3}
  Stdin = Stdin
  Free = Free
  MaxFd = 3
  SelectConnect = TRUE
SPECIFICATION EndingSpec
INVARIANT TypeOK
INVARIANT NothingLeaks
PROPERTY ConnectionsEnd
CHECK_DEADLOCK FALSE
