SPECIFICATION Spec
CONSTANTS
  a = a
  Blank = Blank
  Char <- MCChar
  Fill <- MCFill
  CMD_MAX_LEN = 2
  CMD_HISTORY_MAX_SIZE = 3
  PS_LEN = 1
  SLOT_ROOM = 1
  COLS = 4
INVARIANTS EditorConsistent ShownIsRun
PROPERTY KeepsPromise
CHECK_DEADLOCK FALSE
