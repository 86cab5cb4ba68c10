SPECIFICATION Spec
CONSTANTS
  Ops = {o1}
  Attempts = 2
  Disturbances = {"timer"}
  MaxSpent = 1
  Held = FALSE
INVARIANTS
  Recorded
CHECK_DEADLOCK FALSE
