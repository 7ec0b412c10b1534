CONSTANTS
  Clients = {c1, c2}
  Worker = worker
  Nobody = nobody
  NowCallers = {c1, c2}
  Names = {n1, n2}
  Unnamed = unnamed
  MaxTasks = 3
  MaxTime = 1
SPECIFICATION Spec
SYMMETRY ClientSymmetry
INVARIANTS TypeOK OneEntryPerName StoppedMeansGone MutualExclusion
PROPERTY ImplementsBoard
CHECK_DEADLOCK FALSE
