SPECIFICATION Spec
CONSTANTS
  r1 = r1
  r2 = r2
  r3 = r3
  k1 = k1
  k2 = k2
  c1 = c1
  m1 = m1
  m2 = m2
  b1 = b1
  NULL = NULL
  Req = {r1, r2, r3}
  Key = {k1, k2}
  Client = {c1}
  KeyOf <- MCKeyOf
  ClientOf <- MCClientOf
  ModelOf <- MCModelOf
  BackendOf <- MCBackendOf
  Took <- MCTook
  KeyPolicy <- MCKeyPolicy
  DefaultPolicy <- MCDefaultPolicy
  PolicyValues <- MCPolicyValues
  Fates = {"completed", "rejected"}
  MaxTokens = 1
  LastDay = 1
  Scale = 1
  WindowSeconds = 1
  LastTick = 1
  MaxSample = 5
  MaxMs = 4

PROPERTY TurnedAwayDoNotCount
CHECK_DEADLOCK FALSE
