SPECIFICATION ServerSpec
CONSTANTS
  N = 2
  Kind <- Offload
  MultiStreams = FALSE
  MaxConcurrentStreams = 2
  Payloads = 1
  MaxStreams = 2
  MaxConns = 1
  TimedOut = {1}
CHECK_DEADLOCK FALSE
INVARIANTS
  ServerInv
  ReceiverInv
  SingleReceiver
  ServerClosedBehind
