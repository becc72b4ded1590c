CONSTANTS
  m1 = m1
  m2 = m2
  m3 = m3
  None = None
  Messages <- ThreeMessages
  RouteOf <- TwoRoutes
  AuthOf <- TwoSenders
  Settings <- RefuseNewest
  Objects = {"q1"}
  RunKinds = {"reply"}
  Forgettable = {}
  MaxAccepted = 0
  MaxClears = 0
SPECIFICATION FairSpec
INVARIANTS
  TypeOK
  EveryMessageAccounted
  NoStrandedFollowup
  RunOrder
PROPERTY EveryMessageRuns
CHECK_DEADLOCK FALSE
