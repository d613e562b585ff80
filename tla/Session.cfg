SPECIFICATION MCSpec

CONSTANTS
  None = None
  k1 = k1
  k2 = k2
  m1 = m1
  m2 = m2
  c1 = c1
  c2 = c2
  Clients = {k1, k2}
  Chars = {c1, c2}
  Maps = {m1, m2}
  Homes <- MCHomes
  Seats = {1, 2}
  Fds = {1, 2}
  MaxLogins = 2
  LinkCap = 2
  MaxValue = 1
  MaxDrops = 1



INVARIANTS
  TypeOK
  OnePlayer
  OnlineNamesPlayer
  NoGhost
  PlaysNewest

CHECK_DEADLOCK FALSE
