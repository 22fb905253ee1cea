CONSTANTS
  Backends <- BothBackends
  Timeout = 2
  HostReaps = TRUE
  Interrupts = FALSE
  MaxSignals = 2
  MaxCalls = 3
SPECIFICATION Spec
INVARIANTS TypeOK StoppedWhileRead TargetReleased RemoteInv
PROPERTY PollingReturns
CHECK_DEADLOCK FALSE
