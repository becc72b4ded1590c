CONSTANTS
  Runs = {"r1", "job"}
  SessionOf <- MCSessionOf
  GivenLane <- MCGivenLane
  ManualRuns = {"job"}
  TimedRuns = {"r1", "job"}
  ConfiguredCap <- CapOne
  MaxGeneration = 1
SPECIFICATION FairSpec
INVARIANT OverlapOnlyWhenForced
PROPERTY EveryCallSettles
CHECK_DEADLOCK FALSE
