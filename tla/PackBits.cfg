SPECIFICATION Spec
CONSTANTS
  MaxRun = 3
  Bytes = {0, 7}
  MaxLen = 11
  Slack = 6
CHECK_DEADLOCK FALSE
INVARIANTS
  TypeOK
  RoundTrip
  EncodedFits
