SPECIFICATION Spec
CONSTANTS
  Envelopes = {e1, e2}
  Consumers = {c1, c2}
  NoEnvelope = none
  QueueSize = 2
  MaxAttempts = 2
  StoreFaults = TRUE
  DrainPatient = FALSE
SYMMETRY Symmetry
INVARIANTS
  TypeOK
  JoinAccounting
  OnePlace
  NothingVanishes
  JoinBarrier
  DeadLetteredOnce
  StatsBalance
PROPERTY SettledIsFinal
CHECK_DEADLOCK FALSE
