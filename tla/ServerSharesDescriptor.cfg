CONSTANTS
  Threads = {t1, t2}
  Conns = {c1, c2, c3, c4}
  Stdin = Stdin
  Free = Free
  MaxFd = 3
  SelectConnect = FALSE
SPECIFICATION Spec
CHECK_DEADLOCK FALSE
INVARIANT OneThreadPerConnection
