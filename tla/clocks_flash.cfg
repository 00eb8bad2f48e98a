SPECIFICATION KernelSpec
CONSTANTS
  Configurations <- LowVoltage
  HseRate = 25000000
  Chosen = {0}
  Programs = {}
INVARIANT FlashKeepsUp
CHECK_DEADLOCK FALSE
