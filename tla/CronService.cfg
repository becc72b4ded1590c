CONSTANTS
  j1 = j1
  j2 = j2
  j3 = j3
  m1 = m1
  Jobs = {j1, j2, j3}
  Addable = {j3}
  KindOf <- MCKindOf
  Period <- MCPeriod
  AgentJobs = {j1}
  DeleteAfterRun = {}
  ManualRuns = {m1}
  Outcomes = {"ok", "transient"}
  MaxConcurrent = 1
  MaxImmediate = 1
  MaxAttempts = 1
  Backoff = 1
  Stuck = 1
  MaxTime = 2
  MaxEdits = 1
  MaxTroubles = 1
SPECIFICATION Spec
INVARIANTS TypeOK OverlapOnlyAfterRelease NoOrphanMarker SchedulerAlive
PROPERTIES OneShotOnce SlotKept
CHECK_DEADLOCK FALSE
