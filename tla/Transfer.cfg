SPECIFICATION FairSpec
CONSTANTS
  Xfers = {x1, x2, x3}
  Sems = {s1, s2}
  NoXfer = NoXfer
  NoSem = NoSem
  MaxChunks = 2
INVARIANTS OwnershipInv CallbacksTouchLiveMemory WokenByItsOwnTransfer NothingLeaks EndpointsComeBack
PROPERTIES LateSuccessCounts CallReturns
\* After the terminal fault the driver waits for a reboot.
CHECK_DEADLOCK FALSE
