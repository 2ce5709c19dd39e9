SPECIFICATION Spec
CONSTANTS
  Key = {k1, k2}
  Scale = 2
  WindowSeconds = 2
  Limits = {0, 1, 2}
  LastTick = 5
SYMMETRY Symmetry
INVARIANTS
  TypeOK
  CountExact
  SpanBound
PROPERTIES
  WithinLimit
  RetryAfterClose
  RefusedOnlyWhenFull
CHECK_DEADLOCK FALSE
