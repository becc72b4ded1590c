CONSTANTS
  e1 = e1
  e2 = e2
  boot = boot
  wa = wa
  Entries <- TwoEntries
  Notices = {e2}
  Recoveries = {boot}
  Reconnects = {}
  Selects <- SelectsNone
  None = None
  Parts = 1
  MaxRetries = 1
  Prompt = FALSE
  Budgeted = TRUE
  MaxCrashes = 0
  MaxFaults = 0
SPECIFICATION FairSpec
PROPERTY Pruned
CHECK_DEADLOCK FALSE
