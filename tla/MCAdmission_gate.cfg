SPECIFICATION FairSpec
CONSTANTS
  Req = {r1, r2, r3, r4, r5}
  MaxActive = 2
  MaxQueue = 2
INVARIANTS
  TypeOK
  SlotConservation
  ActiveCountExact
  QueueWellFormed
  NoStrandedWaiter
  StallOnlyByLostGrant
PROPERTIES
  GrantsInQueueOrder
  ImplementsContract
CHECK_DEADLOCK FALSE
