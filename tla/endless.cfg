SPECIFICATION FairSpec
CONSTANTS
  Schemes <- MCSchemes
  Position <- MCPosition
  Startup = startup
  Scheduler = scheduler
  Triggers = {}
  NumWindows = 1
  Broken <- FirstSeeded
  History = 1
  FirstPhase = 2
  MaxNow = 2
  MaxApiFaults = 0
  MaxDbFaults = 0
  MaxSeedFaults = 0
  MaxAges = 0
  MaxStops = 0
CHECK_DEADLOCK FALSE
PROPERTY BackfillEnds
