SPECIFICATION FairSpec
CONSTANTS
  Req = {r1, r2, s1, s2}
  Streaming = {s1, s2}
  MaxActive = 1
  MaxQueue = 2
  MaxChunks = 1
  MaxLost = 1
INVARIANTS
  TypeOK
  SlotHeldWhileServing
  RecordTellsFate
  LedgerBalances
PROPERTIES
  EveryRequestEnds
CHECK_DEADLOCK FALSE
