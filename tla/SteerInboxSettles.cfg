SPECIFICATION QuietSpec
CONSTANTS
  r0 = r0
  c1 = c1
  c2 = c2
  NoRun = NoRun
  First = r0
  Comments = {c1, c2}
  Ops = {}
  Armed = {r0, c1}
  Resumable = {c1}
  Withdrawable = {}
  Limit <- MCOnce
  MaxMessages = 2
  MaxFallbacks = 2
  MaxDeliveries = 1
  MaxRetries = 0
  MaxFaults = 0
  MaxCrashes = 0
  MaxLapses = 0
CHECK_DEADLOCK FALSE
PROPERTIES
  AcceptedSettles
