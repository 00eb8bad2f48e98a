SPECIFICATION KeyboardSpec
CONSTANTS
  Requests <- RacingRequests
  Prompt <- Events
  RxBound = 3
  FifoDepth = 1
  Undisturbed = FALSE
INVARIANT DescriptorsServed
PROPERTY SpoiltByWriting
