SPECIFICATION MCSpec
CONSTANTS
  Jobs = {j1}
  None = none
  Tier = "polled"
  MaxChecks = 2
  MaxFaults = 2
  Slots = 1
  Fleet = FALSE
  Disturbances = {"faults", "deaths"}
  MaxSpent = 1
  h1 = h1
  h2 = h2
  p1 = p1
  p3 = p3
  Nobody = Nobody
  a = a
  big = big
CHECK_DEADLOCK FALSE
PROPERTIES
  WaitEnds
  ClaimsEnd
  RoomComes
