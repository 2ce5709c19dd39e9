SPECIFICATION FairSpec
CONSTANTS
  Symbols <- MCSymbols
  MaxBody = 4
PROPERTY PromptDelivery
CHECK_DEADLOCK FALSE
