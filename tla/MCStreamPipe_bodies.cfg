SPECIFICATION FairSpec
CONSTANTS
  Symbols <- MCSymbols
  MaxBody = 6
INVARIANTS
  TypeOK
  DeliveredAsSent
  UpstreamWithinSlot
PROPERTY ParsingEnds
CHECK_DEADLOCK FALSE
