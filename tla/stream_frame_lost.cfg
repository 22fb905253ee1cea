CONSTANTS
  SizeT = 8
  SizeMax <- MCSizeMax
  Capacities <- AmpleCapacity
  Frames <- BareFrames
  MaxFrames = 14
  MaxEpochs = 1
SPECIFICATION Spec
INVARIANT NoFrameLost
