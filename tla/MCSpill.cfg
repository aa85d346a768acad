SPECIFICATION Spec
CONSTANTS
  MaxU64 = 7
  MaxInflated = 4
  Chunk = 3
  Lengths <- MCLengths
  Caps <- MCCaps
INVARIANTS TypeOK OkIsWhole TooLargeIsTrue SinkBounded NoOrphan
PROPERTIES Returns OneStep
CHECK_DEADLOCK FALSE
