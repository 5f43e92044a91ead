SPECIFICATION Spec
CONSTANTS
  Callers = {c1, c2}
  Background <- NoBackground
  NumBuckets = 2
  Unit = 2
  Capacity <- MCCapacity
  Rate <- MCRate
  MaxNow = 2
  MaxDbFaults = 1
  MaxShutdowns = 1
  MaxStops = 0
SYMMETRY AnyCaller
INVARIANTS TypeOK GrantBound DrainRespected
PROPERTY BucketSpec
CHECK_DEADLOCK FALSE
