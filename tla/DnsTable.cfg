CONSTANTS
  t1 = t1  t2 = t2
  Threads = {t1, t2}
  NoThread = NoThread
  Names = {"a", "b", "d"}
  Hash <- MCHash
  Size = 2
  TTL = 1
  MaxTime = 2
SPECIFICATION FairSpec
INVARIANT TypeOK
INVARIANT EntriesPartitioned
INVARIANT OneEntryPerHash
PROPERTY HitIsFresh
PROPERTY LiveEntryStays
PROPERTY LookupEnds
CHECK_DEADLOCK FALSE
