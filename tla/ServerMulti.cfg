SPECIFICATION ServerSpec
CONSTANTS
  N = 2
  Kind <- SocketEcho
  MultiStreams = TRUE
  MaxConcurrentStreams = 2
  Payloads = 1
  MaxStreams = 2
  MaxConns = 3
  TimedOut = {}
CHECK_DEADLOCK FALSE
INVARIANTS
  StreamsClosedOnce
  OneConnPerStream

  
  
  
