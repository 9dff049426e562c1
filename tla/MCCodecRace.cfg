SPECIFICATION EncodeSpec
CONSTANTS
  NumThreads = 2
  EncodeRing = 2
  NumItems = 5
INVARIANT
  SharesWhole
