SPECIFICATION FairSpec
CONSTANTS
  a = a
  b = b
  p710 = p710
  p1950 = p1950
  recipe = recipe
  Profiles = {p710}
  NoProfile = NoProfile
  Allowed = {p710}
  HasCallback = FALSE
  QueueLen = 1
  MaxPlugs = 1
  Usb = Usb
  NoTask = NoTask
  Callers = {a, b}
  Ops = {"legacy", "poll"}
  Validated = {p710}
  Chainable = {}
  Framed = {}
  Legacy = p710
  MaxFrames = 2
PROPERTIES
  CallsReturn
  RemovedDeviceReleased
