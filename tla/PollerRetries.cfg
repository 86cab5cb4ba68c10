SPECIFICATION Spec
CONSTANTS
  EventKinds = {"label", "close", "other"}
  Pulls = {}
  None = none
  PageSize = 1
  EventPages = 2
  PullPages = 1
  GateAttempts = 2
  MaxEvents = 2
  MaxComments = 0
  MaxPushes = 1
  MaxReviews = 0
  MaxClock = 1
  MaxMoves = 0
  Disturbances = {"breaks"}
  MaxSpent = 1
CHECK_DEADLOCK FALSE
INVARIANT FailedIsRetried
