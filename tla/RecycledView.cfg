SPECIFICATION ViewSpec
CONSTANTS
  LINE_BUFFER_NUM = 8
  LINE_BUFFER_MASK_SIZE = 4
  LINE_BUFFER_CONTENT_MAX_LEN = 2
  BIG_LINE_BUFFER_CONTENT_MAX_LEN = 4
  b1 = b1
  BigBlock <- MCBigBlock
  NULL = NULL
  Output <- MCOutput
  PromptLen <- WrappedPromptLen
  FlushMsgLen = 1
  MaxLine = 10
  ScreenSize <- OneScreenSize
INVARIANT EndOnScreen
CHECK_DEADLOCK FALSE
