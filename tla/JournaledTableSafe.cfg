SPECIFICATION SafeSpec
CONSTANTS
  k1 = k1
  k2 = k2
  v1 = v1
  v2 = v2
  None = None
  Clean = Clean
  Broken = Broken
  Keys = {k1, k2}
  Values = {v1, v2}
  Cached = TRUE
  Pace = 1
  MaxClock = 3
  MaxFails = 1
INVARIANTS
  TypeOK
  FlushedIsSafe
  ScanFindsNewest
PROPERTY
  ImplementsDurableTable
SYMMETRY Interchangeable
CHECK_DEADLOCK FALSE
