SPECIFICATION FairSpec
CONSTANTS
  Word = 16
  Counter = 4
  Sizes = {0, 1, 3, 4, 5}
  Timeouts = {0, 2}
  FifoDepth = 2
  MaxTick = 3
INVARIANT TypeOK
PROPERTIES
  WholeMessages
  TooLong
  ImplementsTransfer
  CallReturns
