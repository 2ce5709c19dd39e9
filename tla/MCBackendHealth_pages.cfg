SPECIFICATION Spec
CONSTANTS
  b1 = b1
  b2 = b2
  p1 = p1
  p2 = p2
  Order <- TwoBackends
  Default = b1
  Page = {p1, p2}
  Kinds <- MCKinds
  Ttl = 0
  LastTick = 1
INVARIANTS
  TypeOK
  ReachableWasTrue
CHECK_DEADLOCK FALSE
