SPECIFICATION Spec
CONSTANTS
  Total = 2
  Workers = {w1}
  MaxCrashes = 1
  MaxFaults = 0
  CrashWhileSaving = TRUE
INVARIANT CompletedMeansAll
CHECK_DEADLOCK FALSE
