CONSTANTS
  main = main
  t1 = t1
  t2 = t2
  t3 = t3
  w1 = w1
  Lanes = {main}
  Tasks = {t1, t2, t3}
  LaneOf <- AllMain
  Timed = {t1, t2, t3}
  Waiters = {w1}
  Requested = {0, 2}
  MaxGeneration = 1
SPECIFICATION FairSpec
INVARIANTS TypeOK NoIdleBacklog ActiveExact NoStrandedCaller StartOrder
PROPERTIES AcceptedSettles WaitEnds
CHECK_DEADLOCK FALSE
