SPECIFICATION Spec
CONSTANTS
  b1 = b1
  b2 = b2
  b3 = b3
  b4 = b4
  b5 = b5
  Piece <- MCPiece
  EmptyPiece = ""
  NoBlob = NoBlob
  Blob = {b1, b2, b3, b4, b5}
  MaxInflated = 4
  MaxU64 = 40
  MaxOpens = 4
  Worlds <- MCWorlds
  Sources <- MCSources
  Names <- MCNames
INVARIANT NeverTruncated
CHECK_DEADLOCK FALSE
