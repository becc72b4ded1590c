CONSTANTS
  e1 = e1
  e2 = e2
  boot = boot
  wa = wa
  Entries <- TwoEntries
  Notices = {}
  Recoveries = {boot}
  Reconnects = {wa}
  Selects <- SelectsOne
  None = None
  Parts = 2
  MaxRetries = 2
  Prompt = TRUE
  Budgeted = FALSE
  MaxCrashes = 1
  MaxFaults = 1
SPECIFICATION Spec
INVARIANTS
  TypeOK
  OneOwner
  ClaimsExact
  NotLost
PROPERTY KeepsPromise
CHECK_DEADLOCK FALSE
