SPECIFICATION CalmSpec
CONSTANTS
  m1 = m1
  m2 = m2
  p1 = p1
  p2 = p2
  Off = Off
  Maps = {m1, m2}
  Players = {p1, p2}
  Items = {1}
  Fds = {4, 5}
  Barred = {}
  LinkCap = 3
  MaxDrops = 1
INVARIANTS
  MutualExclusion
  LastFdIsCurrent
PROPERTY
  OpensFresh
  ImplementsLockedStorage
SYMMETRY Interchangeable
CHECK_DEADLOCK FALSE
