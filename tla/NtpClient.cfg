SPECIFICATION Spec
CONSTANTS
  Offset <- Slightly
  Requests = 2
  RetryA = 1
  Retries = 1
  Plausible = 1
  Junk <- Zeros
  MaxNow = 5
INVARIANTS
  OffsetIsWithinBias
PROPERTIES
  CallEnds
CHECK_DEADLOCK FALSE
