SPECIFICATION MCSpec
CONSTANTS
  Ops = {o1, o2}
  Held = TRUE
  Attempts = 2
  Disturbances = {"faults", "deaths", "timer", "slow"}
  MaxSpent = 2
  j1 = j1
  j2 = j2
  None = none
  r1 = r1
  r2 = r2
  p1 = p1
  p2 = p2
  v1 = v1
  w1 = w1
  w2 = w2
  h1 = h1
  h2 = h2
  e0 = e0
  e1 = e1
  e2 = e2
CHECK_DEADLOCK FALSE
INVARIANTS
  TypesOK
  CancelAnswersTrue
  HeldOnce
  ChecksBounded
  IssueKept
  FindingKept
  PlanToldTrue
PROPERTIES
  NeverAgain
  DecidingCheck
  PlanReplacesWhatItRead
