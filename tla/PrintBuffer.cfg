SPECIFICATION FairSpec
CONSTANTS
  PRINT_BUFFER_INIT_SIZE = 3
  PRINT_BUFFER_GROW_SIZE = 3
  SHELL_CMD_OUTPUT_BUF_SIZE = 2
  UINT_SPAN = 64
  ConvertedLen = {5, 9}
  TextLen = {0, 1, 3, 4, 7}
  NULL = NULL
  MaxTotal = 24
INVARIANTS
  BufferConsistent
  OutputWhole
PROPERTY PrintbReturns
CHECK_DEADLOCK FALSE
