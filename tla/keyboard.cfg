SPECIFICATION FairKeyboardSpec
CONSTANTS
  Requests <- KeyboardRequests
  Prompt <- Events
  RxBound = 3
  FifoDepth = 2
  Undisturbed = TRUE
INVARIANT KeyboardTypeOK
INVARIANT FreshReport
INVARIANT StateTellsTransfer
INVARIANT NoHang
PROPERTY NeverStuck
PROPERTY HaltEndsWithReset
