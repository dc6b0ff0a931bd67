SPECIFICATION StreamSpec
CONSTANTS
  IntMax = 9
  Requests <- MCRequests
  SizeBits = 8
  SizeMax = 255
  FirstCapacity = 32
  FirstTable = 4
  WordSize = 8
  PackedSizes <- MCPackedSizes
CHECK_DEADLOCK FALSE
INVARIANTS
  AnnouncedRowsSent
  WholeOrEmpty
  LayoutFits
  ImageInWindow
  CompatibleTapePrints
  BuiltJobIsFramed
  WritesWithinMemory
