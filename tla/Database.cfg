CONSTANTS
  Users = {u1, u2, u3}
  PoolSize = 2
  Conns = {1, 2, 3, 4, 5}
  MaxFaults = 4
SPECIFICATION DbFairSpec
INVARIANTS NothingLeaks ReadyWhenLoaded
PROPERTIES ImplementsPool Loads
