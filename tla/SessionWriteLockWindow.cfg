CONSTANTS
  a1 = a1
  a2 = a2
  b1 = b1
  gateway = gateway
  doctor = doctor
  None = None
  Acquirers = {a1, a2, b1}
  Procs = {gateway, doctor}
  ProcOf <- MCProcOf
  Reentrant = {}
  Cleaners = {}
  MaxAge = 0
  MaxTroubles = 0
SPECIFICATION Spec
INVARIANT SingleWriter
CHECK_DEADLOCK FALSE
