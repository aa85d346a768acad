SPECIFICATION MCSpec
CONSTANTS
  b1 = b1
  b2 = b2
  b3 = b3
  Piece <- MCPiece
  EmptyPiece = ""
  NoBlob = NoBlob
  Blob = {b1, b2, b3}
  MaxInflated = 4
  MaxU64 = 12
  Worlds <- MCWorlds
  Roots <- MCRoot
  Names <- MCWrapperNames
  LimitSet <- MCLimits
INVARIANTS TypeOK BudgetKept EmittedIsCharged NodesAreCounted OvershootBounded
           ReadsMemberAtIndex Transparent
PROPERTIES Terminates AnswersAsPromised
CHECK_DEADLOCK FALSE
