SPECIFICATION Spec
CONSTANTS
  Kinds <- Sound
  Payloads = 3
  Replies = 2
INVARIANTS
  TypeOK
  Complete
  TerminatesLast
  SentBeforeClosed
PROPERTIES
  KeepsContract
