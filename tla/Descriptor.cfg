SPECIFICATION Spec
CONSTANTS
  Numbers = {1, 2}
  Alternates = {0, 1}
  MaxItems = 6
CHECK_DEADLOCK FALSE
INVARIANTS
  SelectsTheOnlyPair
