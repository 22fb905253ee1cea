CONSTANTS
  Backends <- LibunwindOnly
  Timeout = 2
  HostReaps = TRUE
  Interrupts = FALSE
  MaxSignals = 0
  MaxCalls = 1
SPECIFICATION Spec
PROPERTY RemoteReturns
CHECK_DEADLOCK FALSE
