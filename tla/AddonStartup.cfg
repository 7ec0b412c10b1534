CONSTANTS
  Data = {"devices", "lineups", "recordings", "rules", "episodes", "listings"}
  Requested = {}
  Postponed = {}
  PowerCalls = {"sleep", "wake"}
  MayStream = FALSE
  MayProxy = FALSE
  DbMayFail = FALSE
SPECIFICATION Spec
INVARIANT StartupCompletes
CHECK_DEADLOCK FALSE
