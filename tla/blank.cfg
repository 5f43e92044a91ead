SPECIFICATION Spec
CONSTANTS
  Schemes <- MCOneScheme
  Position <- MCPositionOne
  Startup = startup
  Scheduler = scheduler
  Triggers = {}
  NumWindows = 1
  Broken <- NoneBroken
  History = 2
  FirstPhase = 2
  MaxNow = 3
  MaxApiFaults = 0
  MaxDbFaults = 0
  MaxSeedFaults = 0
  MaxAges = 0
  MaxStops = 0
CHECK_DEADLOCK FALSE
INVARIANT BlankMeansUnsynced
