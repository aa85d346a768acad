SPECIFICATION Spec
CONSTANTS
  MaxU64 = 7
  MaxInflated = 4
  Chunk = 3
  Lengths <- MCFewLengths
  Caps <- MCWidestCap
INVARIANT OkIsWhole
CHECK_DEADLOCK FALSE
