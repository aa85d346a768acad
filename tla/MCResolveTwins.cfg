SPECIFICATION Spec
CONSTANTS
  b1 = b1
  b2 = b2
  b3 = b3
  Piece <- MCPiece
  EmptyPiece = ""
  NoBlob = NoBlob
  Blob = {b1, b2, b3}
  MaxInflated = 4
  MaxU64 = 12
  Worlds <- MCTwinWorlds
  Roots <- MCRoot
  Names <- MCNoName
  LimitSet <- MCLimits
INVARIANT ReadsMemberAtIndex
CHECK_DEADLOCK FALSE
