SPECIFICATION Spec
CONSTANTS
  Kinds <- Sound
  Newlines <- LastNewline
  Lengths <- AllLengths
  HexLengths <- OneParity
  Limit = 12
  Size = 2
  Skips = {0, 1, 2}
  Maxima = {0, 1, 3}
  MinPower = 1
  MaxPower = 2
  MaxUint = 7
INVARIANTS
  IInv
  Contiguous
  Complete
PROPERTY StraysOnce
