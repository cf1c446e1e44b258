SPECIFICATION ServerSpec
CONSTANTS
  N = 2
  Kind <- TcpEcho
  MultiStreams = FALSE
  MaxConcurrentStreams = 2
  Payloads = 1
  MaxStreams = 2
  MaxConns = 2
  TimedOut = {1}
CHECK_DEADLOCK FALSE
INVARIANTS
  SingleReceiver
PROPERTIES
  OneConnection
  
