SPECIFICATION FairSpec
CONSTANTS
  m1 = m1
  m2 = m2
  p1 = p1
  p2 = p2
  Off = Off
  Maps = {m1}
  Players = {p1}
  Items = {}
  Fds = {4, 5}
  Barred = {}
  LinkCap = 2
  MaxDrops = 2
INVARIANTS
  TypeOK
PROPERTY
  LockComesBack
CHECK_DEADLOCK FALSE
