SPECIFICATION FairSpec
CONSTANTS
  Callers = {c1, c2}
  Background = {c2}
  NumBuckets = 2
  Unit = 2
  Capacity <- MCCapacity
  Rate <- MCRate
  maxRetries = 3
  BaseDelay = 1
  Cooldown = 3
  MaxFetches = 2
  MaxDbFaults = 1
  MaxShutdowns = 1
CHECK_DEADLOCK FALSE
INVARIANTS TypeOK CooldownBound AuditTrail FailureExplained
PROPERTY FetchEnds
