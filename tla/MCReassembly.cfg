SPECIFICATION MCSpec
CONSTANTS
  b1 = b1
  b2 = b2
  b3 = b3
  b4 = b4
  Piece <- MCPieces
  EmptyPiece = ""
  NoBlob = NoBlob
  Blob = {b1, b2, b3, b4}
  Shape <- MCShape
  MaxInflated = 4
  MaxU64 = 12
  Worlds <- MCAllWorlds
  Roots <- MCRoot
  Names <- MCNames
  LimitSet <- MCLimitSet
  CheckpointInterval = 2
  CheckpointBytes = 1
  Missing = Missing
  Wants <- MCWants
  Seeks <- MCSeeks
INVARIANTS TypeOK TempsOwned SetIsWhole LengthsAreTrue IndexGateKept TwinsAgree
PROPERTY ReadsTheSplitImage
CHECK_DEADLOCK FALSE
