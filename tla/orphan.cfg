SPECIFICATION Spec
CONSTANTS
  Schemes <- MCOneScheme
  Position <- MCPositionOne
  Startup = startup
  Scheduler = scheduler
  Triggers = {}
  NumWindows = 1
  Broken <- NoneBroken
  History = 1
  FirstPhase = 2
  MaxNow = 2
  MaxApiFaults = 0
  MaxDbFaults = 0
  MaxSeedFaults = 0
  MaxAges = 0
  MaxStops = 1
CHECK_DEADLOCK FALSE
INVARIANT StartupResumes
