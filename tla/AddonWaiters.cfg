CONSTANTS
  Data = {"devices", "lineups", "recordings", "listings"}
  Requested = {}
  Postponed = {}
  PowerCalls = {"sleep", "wake"}
  MayStream = FALSE
  MayProxy = FALSE
  DbMayFail = FALSE
SPECIFICATION FairSpec
INVARIANTS TypeOK PeriodicScheduled StartupInOrder
PROPERTY WaitersReleased
CHECK_DEADLOCK FALSE
