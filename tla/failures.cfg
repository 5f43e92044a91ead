SPECIFICATION Spec
CONSTANTS
  Schemes <- MCOneScheme
  Position <- MCPositionOne
  Startup = startup
  Scheduler = scheduler
  Triggers = {}
  NumWindows = 2
  Broken <- NoneBroken
  History = 1
  FirstPhase = 2
  MaxNow = 5
  MaxApiFaults = 0
  MaxDbFaults = 1
  MaxSeedFaults = 1
  MaxAges = 1
  MaxStops = 1
CHECK_DEADLOCK FALSE
INVARIANTS NoGap NavCountExact CheckpointStored AnalyticsFromHistory CheckpointFloor OverlapKeepsDays
PROPERTIES LedgerSpec NewDayIsCheckpoint
