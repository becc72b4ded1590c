CONSTANTS
  m1 = m1
  m2 = m2
  m3 = m3
  None = None
  Messages <- ThreeMessages
  RouteOf <- OneRoute
  AuthOf <- TwoSenders
  Settings <- SummarizeOrOld
  Objects = {"q1", "q2"}
  RunKinds = {"other"}
  Forgettable = {m2}
  MaxAccepted = 2
  MaxClears = 1
SPECIFICATION Spec
INVARIANT AtMostOnce
CHECK_DEADLOCK FALSE
