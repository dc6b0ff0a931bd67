SPECIFICATION Spec
CONSTANTS
  a = a
  b = b
  p710 = p710
  p1950 = p1950
  recipe = recipe
  Profiles = {p710}
  NoProfile = NoProfile
  Allowed = {p710}
  HasCallback = FALSE
  QueueLen = 1
  MaxPlugs = 2
  Usb = Usb
  NoTask = NoTask
  Callers = {a}
  Ops = {"snapshot", "job"}
  Validated = {p710}
  Chainable = {p710}
  Framed = {}
  Legacy = NoProfile
  MaxFrames = 1
INVARIANTS
  ContinuationStaysOnItsAttachment
