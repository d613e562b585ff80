SPECIFICATION UntimedSpec
CONSTANTS
  m1 = m1
  m2 = m2
  p1 = p1
  p2 = p2
  Off = Off
  Maps = {m1, m2}
  Players = {p1}
  Items = {1}
  Fds = {4, 5}
  Barred = {}
  LinkCap = 1
  MaxDrops = 0
INVARIANTS
  LastFdIsCurrent

CHECK_DEADLOCK FALSE
