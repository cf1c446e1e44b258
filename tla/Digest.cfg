SPECIFICATION Spec
CONSTANTS
  N = 4
  Kind <- DigestLine
  MultiStreams = FALSE
  MaxConcurrentStreams = 1
  Payloads = 2
  MaxStreams = 2
INVARIANTS
  NoPanic
  ClosedBehind
  IInv
PROPERTIES
  CallbackReturns
  SilentAfterTerminate
  Exits
