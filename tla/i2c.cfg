SPECIFICATION FairSpec
CONSTANTS
  Functions = {"write", "read", "write_reg", "read_reg"}
  Sizes = {0, 1, 5}
  RegSizes = {2}
  Timeouts = {0, 1}
  Block = 3
  Word = 16
  HoldOff = 1
  MaxTick = 2
INVARIANT TypeOK
PROPERTIES
  OffByOne
  EndedOnBus
  FreshBytes
  LongReadTimesOut
  ImplementsTransfer
  CallReturns
  BusReleased
