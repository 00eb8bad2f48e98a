SPECIFICATION FairSpec
CONSTANTS
  Requests <- Enumeration
  Prompt <- Timely
  RxBound = 3
  FifoDepth = 1
INVARIANT EndpointFollowsConfiguration
PROPERTY ImplementsChapter9
PROPERTY TransferEnds
