CONSTANTS
  t1 = t1  t2 = t2 
  Threads = {t1, t2}
  NoThread = NoThread
  MaxJobs = 3
  CreateMayFail = TRUE
  MaxPauses = 2
SPECIFICATION PauseFairSpec
INVARIANT PauseTypeOK
INVARIANT JobNeverStranded
INVARIANT DestroyWaitsForThreads
PROPERTY WaitMeansIdle
PROPERTY ImplementsJobService
PROPERTY EveryJobStarts
PROPERTY WaitReturns
PROPERTY DestroyReturns
PROPERTY InitReturns
 
CHECK_DEADLOCK FALSE
