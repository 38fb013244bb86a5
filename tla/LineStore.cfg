SPECIFICATION Spec
CONSTANTS
  LINE_BUFFER_NUM = 4
  LINE_BUFFER_MASK_SIZE = 2
  LINE_BUFFER_CONTENT_MAX_LEN = 2
  BIG_LINE_BUFFER_CONTENT_MAX_LEN = 3
  b1 = b1
  b2 = b2
  b3 = b3
  BigBlock <- MCBigBlock
  NULL = NULL
  Output <- MCOutput
  PromptLen <- MCPromptLen
  FlushMsgLen = 1
  MaxLine = 6
SYMMETRY BlockSymmetry
INVARIANTS
  StoreConsistent
  HoldsLines
  RetainsScrollback
PROPERTIES
  NothingLost
  FlushLeavesClean
  KeepsPromise
