SPECIFICATION FairSpec
CONSTANTS
  Total = 3
  Workers = {w1, w2}
  MaxCrashes = 2
  MaxFaults = 2
  CrashWhileSaving = FALSE
INVARIANTS
  TypeOK
  OnlyUnfinishedWork
  AtLeastOnce
  StatusMatchesRows
PROPERTIES
  ResumableJobSpec
  RunEnds
CHECK_DEADLOCK FALSE
