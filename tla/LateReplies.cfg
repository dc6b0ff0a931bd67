SPECIFICATION Spec
CONSTANTS
  Strategies = {"strict"}
  FrameLimit = 4
  InvalidLimit = 2
  MaxRequests = 5
  MaxLabels = 2
  MaxNotices = 0
  MaxUnread = 2
CHECK_DEADLOCK FALSE
INVARIANTS
  ConfirmedLabelsPrinted
