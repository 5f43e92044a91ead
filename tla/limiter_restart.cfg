SPECIFICATION Spec
CONSTANTS
  Callers = {c1}
  Background <- NoBackground
  NumBuckets = 2
  Unit = 2
  Capacity <- MCCapacity
  Rate <- MCRate
  MaxNow = 4
  MaxDbFaults = 0
  MaxShutdowns = 1
  MaxStops = 2
INVARIANTS RequestBound DrainSurvives
CHECK_DEADLOCK FALSE
