SPECIFICATION Spec
CONSTANTS
  User = {u1}
  ClientName = {n1}
  Key = {k1, k2, k3}
  NoKey = NoKey
  Server = server
  Cli = {cli}
  Request = {r1}
  Never = Never
  LastTick = 1
SYMMETRY Symmetry
INVARIANTS
  TypeOK
  DeadKeysServeNobody
  LimitsFromTheStart
  AnswersHold
PROPERTIES
  RevokedForGood
  RotationReplaces
CHECK_DEADLOCK FALSE
