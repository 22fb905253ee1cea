CONSTANTS
  t1 = t1
  t2 = t2
  h1 = h1
  h2 = h2
  Null = Null
  Threads <- TwoThreads
  Handles <- TwoHandles
  WriteOnce <- TwoHandles
  SetsTid <- OneHandle
  Overruns <- OneHandle
  SignLimit = 3
  Slots = 2
  MaxPast = 1
  MaxCalls = 2
SPECIFICATION Spec
INVARIANT RefusedReturnsZero
CHECK_DEADLOCK FALSE
