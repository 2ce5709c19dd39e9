SPECIFICATION Spec
CONSTANTS
  Req = {r1, r2, s1}
  Streaming = {s1}
  MaxActive = 1
  MaxQueue = 1
  MaxChunks = 1
  MaxLost = 0
INVARIANT OutcomeNamesCause
CHECK_DEADLOCK FALSE
