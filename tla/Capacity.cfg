SPECIFICATION MCSpec
CONSTANTS
  h1 = h1
  h2 = h2
  p1 = p1
  p2 = p2
  p3 = p3
  Nobody = Nobody
  Hosts = {h1, h2}
  Pickups = {p1, p2, p3}
  HostOf <- MCHostOf
  JobOf <- MCJobOf
  Slots = 2
  TTL = 2
  JobTimeout = 1
  MaxWire = 1
  MaxFaults = 1
  a = a
  b = b
  big = big
  p = p
  q = q
  v1 = v1
  v2 = v2
  None = none
CHECK_DEADLOCK FALSE
INVARIANTS
  TypeOK
  HeldWhileRunning
  PerHostBound
  Counted
PROPERTIES
  FleetBound
  FreedOnlyWhenOver
  LineKept
