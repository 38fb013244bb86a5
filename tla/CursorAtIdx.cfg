SPECIFICATION Spec
CONSTANTS
  a = a
  Blank = Blank
  Char <- MCChar
  Fill <- MCFill
  CMD_MAX_LEN = 2
  CMD_HISTORY_MAX_SIZE = 2
  PS_LEN = 1
  SLOT_ROOM = 2
  COLS = 5
INVARIANT CursorAtIdx
CHECK_DEADLOCK FALSE
