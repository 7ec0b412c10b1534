CONSTANTS
  n1 = n1
  n2 = n2
  BufferSize = 4
  ChunkSizes = {1, 3}
  ReadSizes = {2}
  Docs <- MCDocs
  Lineup = {n1, n2}
  Viewed = {n1}
  ForceAge = 2
  Period = 4
  Jitter = 1
  Days <- MCDays
  FirstDays = 2
  Month = 8
  Pages = FALSE
  MaxClock = 6
  MaxEdits = 2
  MaxLost = 1
SPECIFICATION Spec
INVARIANTS InOrder EndMeansOver WholeDocument EpgComplete Fresh
CHECK_DEADLOCK FALSE
