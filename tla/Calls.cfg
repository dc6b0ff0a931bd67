SPECIFICATION Spec
CONSTANTS
  a = a
  b = b
  p710 = p710
  p1950 = p1950
  recipe = recipe
  Profiles = {p1950, recipe}
  NoProfile = NoProfile
  Allowed = {p1950, recipe}
  HasCallback = FALSE
  QueueLen = 1
  MaxPlugs = 1
  Usb = Usb
  NoTask = NoTask
  Callers = {a, b}
  Ops = {"snapshot", "job", "bulk", "status", "inspect"}
  Validated = {p1950}
  Chainable = {p1950}
  Framed = {p1950, recipe}
  Legacy = NoProfile
  MaxFrames = 2
SYMMETRY CallerSymmetry
INVARIANTS
  IInv
  AmbiguityQuarantined
  StatusOnlyToSettledPrinter
  OutputOnlyThroughOpenGates
  ChainOnlyAfterConfirmation
PROPERTIES
  NothingSubmittedAfterFault
  GateOpensOnlyWhenSettled
  KeepsLedger
