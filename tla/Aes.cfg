SPECIFICATION Spec
CONSTANTS
  MaxCounter = 1
  Payloads = 5
INVARIANTS
  NonceUsedOnce
  InOrder
  Lossless
  IInv
PROPERTY Ends
