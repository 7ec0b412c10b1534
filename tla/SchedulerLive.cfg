CONSTANTS
  Clients = {c1, c2}
  Worker = worker
  Nobody = nobody
  NowCallers = {}
  Names = {n1}
  Unnamed = unnamed
  MaxTasks = 2
  MaxTime = 1
SPECIFICATION FairSpec
PROPERTIES CallsReturn QueuedTaskLeaves

