SPECIFICATION Spec
CONSTANTS
  b1 = b1
  b2 = b2
  b3 = b3
  Piece <- MCPiece
  EmptyPiece = ""
  NoBlob = NoBlob
  Blob = {b1, b2, b3}
  MaxInflated = 4
  MaxU64 = 12
  Worlds <- MCMultiWorlds
  Roots <- MCRoot
  Names <- MCWrapperNames
  LimitSet <- MCLimits
INVARIANT WholeLayer
CHECK_DEADLOCK FALSE
