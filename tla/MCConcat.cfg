SPECIFICATION Spec
CONSTANTS
  MaxU64 = 7
  Byte <- MCByte
  Missing = Missing
  SourceLists <- MCSourceLists
  Wants <- MCWants
  Seeks <- MCSeeks
INVARIANTS TypeOK PosInImage Stitched EofIsEnd SegmentFound
PROPERTY AnswersAsPromised
CHECK_DEADLOCK FALSE
