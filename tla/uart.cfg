SPECIFICATION FairSpec
CONSTANTS
  Word = 8
  MaxSize = 3
  Timeouts = {0, 2}
  MaxTick = 4
INVARIANT TypeOK
PROPERTIES
  PrintedAll
  ImplementsTransfer
  CallReturns
