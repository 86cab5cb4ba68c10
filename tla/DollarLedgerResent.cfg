SPECIFICATION TightSpec
CONSTANTS
  a1 = a1
  a2 = a2
  b1 = b1
  armed = armed
  plain = plain
  Order <- MCTwoWindows
  Deployment <- MCBothDeployment
  ByModel <- MCNone
  Daily <- MCDaily
  Cap <- MCCap
  Runs = {armed, plain}
  Amount <- MCAmount
  Armed = {armed}
  Attempts = {a1, b1}
  RunOf <- MCRunOf
  Overshoot = 0
  MaxDay = 0
  MaxFaults = 0
  MaxResends = 1
  MaxEvicted = 0
CHECK_DEADLOCK FALSE
INVARIANTS
  FloorHolds
