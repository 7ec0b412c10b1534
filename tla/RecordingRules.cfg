CONSTANTS
  Rules = {r1}
  Series = {s1}
  SeriesOf <- MCSeriesOf
  Expirable = {r1}
  Shared = {r1}
  Users = {u1}
  MaxEdits = 3
  MaxLost = 1
  Worker = Worker
  Nobody = Nobody
SPECIFICATION FairSpec
INVARIANTS TypeOK KodiIsTold
PROPERTY Converges
