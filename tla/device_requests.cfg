SPECIFICATION Spec
CONSTANTS
  Requests <- AnyRequest
  Prompt <- Events
  RxBound = 3
  FifoDepth = 2
INVARIANT TypeOK
INVARIANT AddressFollowsState
INVARIANT FreshAnswer
INVARIANT NoHang
INVARIANT StagesAgree
