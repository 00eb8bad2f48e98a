SPECIFICATION KernelSpec
CONSTANTS
  Configurations <- Various
  HseRate = 25000000
  Chosen = {0, 1}
  Programs <- Sharing
INVARIANT TypeOK
INVARIANT FlashKeepsUp
INVARIANT FrequenciesFollow
INVARIANT KernelFollows
PROPERTY InitReturns
CHECK_DEADLOCK FALSE
