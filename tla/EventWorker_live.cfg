SPECIFICATION FairSpec
CONSTANTS
  Envelopes = {e1, e2}
  Consumers = {c1, c2}
  NoEnvelope = none
  QueueSize = 4
  MaxAttempts = 2
  StoreFaults = FALSE
  DrainPatient = FALSE
PROPERTIES
  EventuallySettled
  StopTerminates
CHECK_DEADLOCK FALSE
