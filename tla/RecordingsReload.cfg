CONSTANTS
  d1 = d1
  d2 = d2
  s1 = s1
  s2 = s2
  r1 = r1
  r2 = r2
  r3 = r3
  r4 = r4
  Devices = {d1, d2}
  Series = {s1, s2}
  Recs = {r1, r2, r3, r4}
  Home <- MCHome
  Edited = {r1, r2}
  Played = {r1}
  Positions <- MCPositions
  Watched = 1
  Users = {u1}
  Duplicates = FALSE
  MaxEdits = 2
  MaxLost = 0
  Worker = worker
  Nobody = nobody
SPECIFICATION Spec
INVARIANT ReloadsAreAnnounced
CHECK_DEADLOCK FALSE
