CONSTANTS
  a1 = a1
  a2 = a2
  b1 = b1
  gateway = gateway
  doctor = doctor
  None = None
  Acquirers = {a1, a2, b1}
  Procs = {gateway, doctor}
  ProcOf <- MCProcOf
  Reentrant = {a2}
  Cleaners = {doctor}
  MaxAge = 2
  MaxTroubles = 2
SPECIFICATION FairSpec
INVARIANTS TypeOK LockKept NoLeakedFile
PROPERTY WaiterServed
CHECK_DEADLOCK FALSE
