SPECIFICATION ServerSpec
CONSTANTS
  N = 2
  Kind <- NullEcho
  MultiStreams = TRUE
  MaxConcurrentStreams = 2
  Payloads = 1
  MaxStreams = 2
  MaxConns = 2
  TimedOut = {}
CHECK_DEADLOCK FALSE
INVARIANTS
  StreamsClosedOnce
