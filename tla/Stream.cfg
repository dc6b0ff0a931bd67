SPECIFICATION Spec
CONSTANTS
  Strategies = {"strict", "jobStatus"}
  FrameLimit = 4
  InvalidLimit = 2
  MaxRequests = 4
  MaxLabels = 2
  MaxNotices = 2
  MaxUnread = 1
CHECK_DEADLOCK FALSE
INVARIANTS
  TypeOK
  ConfirmedLabelsPrinted
PROPERTIES
  NoStatusDuringPrinting
