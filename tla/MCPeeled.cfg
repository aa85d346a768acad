SPECIFICATION Spec
CONSTANTS
  MaxU64 = 7
  MaxI64 = 3
  Byte <- MCByte
  Missing = Missing
  Opened <- MCOpened
  Wants <- MCWants
  Seeks <- MCSeeks
INVARIANTS TypeOK PosInWindow Contiguous
PROPERTY AnswersAsPromised
CHECK_DEADLOCK FALSE
