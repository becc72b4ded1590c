CONSTANTS
  k1 = k1
  k2 = k2
  o1 = o1
  o2 = o2
  o3 = o3
  i1 = i1
  i2 = i2
  w1 = w1
  None = None
  Keys = {k1, k2}
  Ids = {i1, i2}
  Ops = {o1, o2, o3}
  KeyOf <- MCKeyOf
  Waiters = {w1}
SPECIFICATION Spec
SYMMETRY Symmetry
VIEW LiveView
INVARIANTS TypeOK Consistent WaitersSound AbortReaches
CHECK_DEADLOCK FALSE
