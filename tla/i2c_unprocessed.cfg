SPECIFICATION Spec
CONSTANTS
  Functions = {"read_reg"}
  Sizes = {1}
  RegSizes = {1}
  Timeouts = {1}
  Block = 3
  Word = 16
  HoldOff = 1
  MaxTick = 2
PROPERTY NUnprocessed
