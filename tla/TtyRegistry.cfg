SPECIFICATION Spec
CONSTANTS
  t1 = t1
  t2 = t2
  b1 = b1
  b2 = b2
  Caller <- MCCaller
  Block <- MCBlock
  Main = Main
  gvd_tty = gvd_tty
  NULL = NULL
  ID_SPAN = 5
  FIRST_ID = 2
  MaxCreate = 3
SYMMETRY Interchange
INVARIANTS
  OneCommand
  IdsUnique
PROPERTY KeepsPromise
CHECK_DEADLOCK FALSE
