SPECIFICATION Spec
CONSTANTS
  First = j0
  Replies = {c1}
  Foreign = {}
  Askers = {j0}
  Timed = {}
  Attempts = 2
  None = none
  Disturbances = {"failures", "unreadable"}
  MaxSpent = 2
CHECK_DEADLOCK FALSE
INVARIANTS
  RefusalCloses
