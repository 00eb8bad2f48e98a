SPECIFICATION Spec
CONSTANTS
  Word = 8
  MaxSize = 1
  Timeouts = {0}
  MaxTick = 1
PROPERTY NUnprocessed
