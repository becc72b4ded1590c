CONSTANTS
  m1 = m1
  m2 = m2
  m3 = m3
  None = None
  Messages <- ThreeMessages
  RouteOf <- OneRoute
  AuthOf <- OneSender
  Settings <- FollowupSummarize
  Objects = {"q1"}
  RunKinds = {"reply"}
  Forgettable = {}
  MaxAccepted = 0
  MaxClears = 0
SPECIFICATION Spec
INVARIANT EveryMessageAccounted
CHECK_DEADLOCK FALSE
