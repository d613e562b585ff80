SPECIFICATION SafeSpec
CONSTANTS
  k1 = k1
  k2 = k2
  v1 = v1
  v2 = v2
  None = None
  Clean = Clean
  Broken = Broken
  Keys = {k1}
  Values = {v1, v2}
  Cached = FALSE
  Pace = 0
  MaxClock = 2
  MaxFails = 0
INVARIANTS
  FlushedIsSafe
SYMMETRY Interchangeable
CHECK_DEADLOCK FALSE
