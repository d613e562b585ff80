SPECIFICATION Spec
CONSTANTS
  k1 = k1
  k2 = k2
  v1 = v1
  v2 = v2
  None = None
  Clean = Clean
  Broken = Broken
  Keys = {k1}
  Values = {v1, v2}
  Cached = TRUE
  Pace = 1
  MaxClock = 2
  MaxFails = 1
INVARIANTS
  RemovesOnlySaved
SYMMETRY Interchangeable
CHECK_DEADLOCK FALSE
