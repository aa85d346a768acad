SPECIFICATION Spec
CONSTANTS
  b1 = b1
  b2 = b2
  b3 = b3
  b4 = b4
  Piece <- MCPieces
  EmptyPiece = ""
  NoBlob = NoBlob
  Blob = {b1, b2, b3, b4}
  Shape <- MCShape
  MaxInflated = 4
  MaxU64 = 12
  Worlds <- MCArchives
  Roots <- MCRoot
  Names <- MCNames
  LimitSet <- MCLimitSet
  CheckpointInterval = 2
  CheckpointBytes = 1
INVARIANTS EveryExtractionCapped
CHECK_DEADLOCK FALSE
