SPECIFICATION ViewSpec
CONSTANTS
  LINE_BUFFER_NUM = 8
  LINE_BUFFER_MASK_SIZE = 4
  LINE_BUFFER_CONTENT_MAX_LEN = 2
  BIG_LINE_BUFFER_CONTENT_MAX_LEN = 4
  b1 = b1
  BigBlock <- MCBigBlock
  NULL = NULL
  Output <- MCOutput
  PromptLen <- MCPromptLen
  FlushMsgLen = 1
  MaxLine = 7
  ScreenSize <- MCScreenSize
INVARIANTS
  EndOnScreen
  FaultNeeds
  ViewConsistent
  PagingMoves
PROPERTY PageUpRises
CHECK_DEADLOCK FALSE
