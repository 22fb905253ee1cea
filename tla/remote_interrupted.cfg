CONSTANTS
  Backends <- LibunwindstackOnly
  Timeout = 2
  HostReaps = FALSE
  Interrupts = TRUE
  MaxSignals = 0
  MaxCalls = 1
SPECIFICATION Spec
INVARIANT StoppedWhileRead
CHECK_DEADLOCK FALSE
