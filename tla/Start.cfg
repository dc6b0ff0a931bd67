SPECIFICATION FairSpec
CONSTANTS
  Starters = {a, b}
  QueueLen = 2
  HasCallback = TRUE
INVARIANTS OneDriverOrNothing FailedHostIsUndone HostUpIsTheBarrier
PROPERTIES StartIsAnswered
