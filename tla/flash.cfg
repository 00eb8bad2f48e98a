SPECIFICATION FairSpec
CONSTANTS
  Word = 16
  Byte = 4
  Timeout = 1
  MaxTick = 2
INVARIANT ReadFits
PROPERTY OnlyReadsHang
CHECK_DEADLOCK FALSE
