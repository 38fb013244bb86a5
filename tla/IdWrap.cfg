SPECIFICATION FairSpec
CONSTANTS
  t1 = t1
  t2 = t2
  b1 = b1
  b2 = b2
  Caller <- MCCaller
  Block <- MCBlock
  Main = Main
  gvd_tty = gvd_tty
  NULL = NULL
  ID_SPAN = 2
  FIRST_ID = 1
  MaxCreate = 3
INVARIANTS
  RegistryConsistent
PROPERTY Released
CHECK_DEADLOCK FALSE
