SPECIFICATION Spec
CONSTANTS
  Kinds <- Corrupt
  Payloads = 2
  Replies = 1
CHECK_DEADLOCK FALSE
PROPERTY HandlerEnds
