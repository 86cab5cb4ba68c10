SPECIFICATION BothSpec
CONSTANTS
  a1 = a1
  a2 = a2
  b1 = b1
  armed = armed
  plain = plain
  Cap = 2
  Attempts = 2
  Sweepers = {"home", "other"}
  Disturbances = {"faults", "crashes", "stalls", "holds", "lapses"}
  MaxSpent = 2
CHECK_DEADLOCK FALSE
INVARIANTS
  TypesOK
  BooksHold
  CapsHold
  HoldsCloseOnce
  OneAgent
  EndIsTold
  VerdictIsTrue
