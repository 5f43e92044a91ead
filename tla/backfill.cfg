SPECIFICATION FairSpec
CONSTANTS
  Schemes <- MCSchemes
  Position <- MCPosition
  Startup = startup
  Scheduler = scheduler
  Triggers = {t1}
  NumWindows = 2
  Broken <- NoneBroken
  History = 1
  FirstPhase = 2
  MaxNow = 2
  MaxApiFaults = 2
  MaxDbFaults = 0
  MaxSeedFaults = 1
  MaxAges = 0
  MaxStops = 0
CHECK_DEADLOCK FALSE
INVARIANTS TypeOK BackfillExclusive OrphanExplained
PROPERTY DoneReopensAsRunning PendingGetsDone
