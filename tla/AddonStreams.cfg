CONSTANTS
  Data = {"rules", "episodes", "recordings", "listings"}
  Requested = {"listings"}
  Postponed = {"recordings"}
  PowerCalls = {"destroy"}
  MayStream = TRUE
  MayProxy = TRUE
  DbMayFail = TRUE
SPECIFICATION Spec
INVARIANTS PausedOnlyWhileStreaming
CHECK_DEADLOCK FALSE
