SPECIFICATION PartsSpec
CONSTANTS
  j0 = j0
  r0 = r0
  c1 = c1
  c2 = c2
  o1 = o1
  NoRun = NoRun
  First = j0
  Replies = {c1, c2}
  Foreign = {c2}
  Askers = {j0, c1}
  Timed = {j0}
  Attempts = 2
  None = none
  Disturbances = {"failures", "faults", "crashes", "edits", "unreadable", "retries"}
  MaxSpent = 1
  Comments = {c1, c2}
  Ops = {}
  Armed = {r0, c1}
  Resumable = {c1}
  Withdrawable = {}
  Limit <- Once
  MaxMessages = 2
  MaxFallbacks = 2
  MaxDeliveries = 1
  MaxRetries = 0
  MaxFaults = 1
  MaxCrashes = 0
  MaxLapses = 0
CHECK_DEADLOCK FALSE
INVARIANTS
  TypesOK
  MessageEnds
  SaidIsTrue
  RunIsReachable
  OneContinuation
  DecisionIsActedOn
PROPERTIES
  NeverEnqueuedBeside
