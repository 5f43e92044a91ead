SPECIFICATION Spec
CONSTANTS
  Callers = {c1, c2}
  Background <- NoBackground
  NumBuckets = 2
  Unit = 2
  Capacity <- MCCapacity
  Rate <- MCRate
  MaxNow = 1
  MaxDbFaults = 0
  MaxShutdowns = 0
  MaxStops = 1
SYMMETRY AnyCaller
INVARIANT RequestBound
CHECK_DEADLOCK FALSE
