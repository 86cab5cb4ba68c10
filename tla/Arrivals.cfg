SPECIFICATION MCSpec
CONSTANTS
  r0 = r0
  c1 = c1
  c2 = c2
  c3 = c3
  NoRun = NoRun
  None = None
  First = r0
  Comments = {c1, c2}
  Phrase = {c1}
  Askers = {r0}
  MaxEntries = 2
  Attempts <- MCAttempts
  MaxDeliveries <- MCDeliveries
  Disturbances = {"faults", "crashes", "lapses", "retries"}
  MaxSpent = 1
CHECK_DEADLOCK FALSE
INVARIANTS
  TypesOK
  RepliesEnd
  RepliesMeetTheRun
  ArmedWithoutReplay
  NothingPassedOver
