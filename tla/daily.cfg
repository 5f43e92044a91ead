SPECIFICATION DailySpec
CONSTANTS
  Schemes <- MCSchemes
  Position <- MCPosition
  Startup = startup
  Scheduler = scheduler
  Triggers = {}
  NumWindows = 2
  Broken <- NoneBroken
  History = 1
  FirstPhase = 2
  MaxNow = 5
  MaxApiFaults = 1
  MaxDbFaults = 0
  MaxSeedFaults = 0
  MaxAges = 0
  MaxStops = 0
  Clients = {c1}
  WindowDays <- MCWindowDays
  Score <- MCScore
  Limits = {1, 2}
CHECK_DEADLOCK FALSE
INVARIANTS ApiTypeOK NamedHasDate RankCoversDays UsableWindows AnalyticsCurrent CheckpointIsMax
PROPERTY NeverOlder
ACTION_CONSTRAINT StartupFirst
