CONSTANTS
  Programs <- RemoteOnly
  CallsFail = FALSE
  Kills = FALSE
SPECIFICATION Spec
INVARIANT RequestsReachHandler
CHECK_DEADLOCK FALSE
