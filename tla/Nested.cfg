SPECIFICATION NestedSpec
CONSTANTS
  N = 2
  Kind <- FileUpper
  MultiStreams = FALSE
  MaxConcurrentStreams = 1
  Payloads = 2
  MaxStreams = 1
  Drivers <- AllDrivers
CHECK_DEADLOCK FALSE
INVARIANTS
  NestedInv
  ReadsAll
PROPERTIES
  Returns
  NothingLeft
