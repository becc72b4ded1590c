CONSTANTS
  t1 = t1
  t2 = t2
  None = None
  Targets = {t1, t2}
  MaxPriority = 2
  Requests <- MCRequests
  Coalesce = 1
  Retry = 2
  MaxSets = 2
  MaxBatches = 2
  MaxHangs = 1
SPECIFICATION FairSpec
INVARIANTS TypeOK NoWakeLost OneBatch
PROPERTIES CooldownKept WakeServed
CHECK_DEADLOCK FALSE
