SPECIFICATION Spec
CONSTANTS
  a = a
  b = b
  p710 = p710
  p1950 = p1950
  recipe = recipe
  Profiles = {p710, recipe}
  NoProfile = NoProfile
  Allowed = {p710}
  HasCallback = TRUE
  QueueLen = 2
  MaxPlugs = 2
  Usb = Usb
  NoTask = NoTask
  Callers = {a}
  Ops = {"snapshot", "job", "ready", "cached", "poll"}
  Validated = {p710}
  Chainable = {p710}
  Framed = {recipe}
  Legacy = NoProfile
  MaxFrames = 1
INVARIANTS
  TypeOK
  RasterReachesItsTarget
  DeviceHeldDuringTransfer
  PolledCacheIsCurrent
  EventsDescribeTheirAttachment
