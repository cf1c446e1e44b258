SPECIFICATION Spec
CONSTANTS
  N = 4
  Kind <- CopyLine
  MultiStreams = TRUE
  MaxConcurrentStreams = 2
  Payloads = 3
  MaxStreams = 1
INVARIANTS
  TerminateIsLast
  EndsByTerminate
  CopyInv
PROPERTIES
  CopiesStdin
