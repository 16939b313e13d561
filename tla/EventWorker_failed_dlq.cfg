SPECIFICATION Spec
CONSTANTS
  Envelopes = {e1}
  Consumers = {c1}
  NoEnvelope = none
  QueueSize = 4
  MaxAttempts = 2
  StoreFaults = FALSE
  DrainPatient = TRUE
INVARIANT FailuresReachDeadLetter
CHECK_DEADLOCK FALSE
