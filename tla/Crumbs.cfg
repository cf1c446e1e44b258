SPECIFICATION Spec
CONSTANTS
  Kinds = {"hex"}
  Newlines = {}
  Lengths <- AllLengths
  HexLengths <- BothParities
  Limit = 6
  Size = 2
  Skips = {0, 1, 2}
  Maxima = {0, 1, 3}
  MinPower = 1
  MaxPower = 2
  MaxUint = 7
INVARIANT Contiguous
