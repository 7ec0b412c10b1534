CONSTANTS
  Clients = {c1, c2}
  Worker = worker
  Nobody = nobody
  NowCallers = {c1}
  Names = {n1}
  Unnamed = unnamed
  MaxTasks = 2
  MaxTime = 0
SPECIFICATION FairSpec
PROPERTY CallsReturn
CHECK_DEADLOCK FALSE

