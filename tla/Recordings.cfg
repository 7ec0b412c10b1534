CONSTANTS
  d1 = d1
  d2 = d2
  s1 = s1
  s2 = s2
  r1 = r1
  r2 = r2
  r3 = r3
  r4 = r4
  Devices = {d1, d2}
  Series = {s1, s2}
  Recs = {r1, r2, r3, r4}
  Home <- MCHome
  Edited = {r1, r4}
  Played = {r1}
  Positions <- MCPositions
  Watched = 1
  Users = {u1}
  Duplicates = TRUE
  MaxEdits = 2
  MaxLost = 2
  Worker = worker
  Nobody = nobody
SPECIFICATION FairSpec
INVARIANTS KodiIsTold DeletedStaysDeleted PositionsAgree
PROPERTY Converges
CHECK_DEADLOCK FALSE
