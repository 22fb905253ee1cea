CONSTANTS
  SizeT = 8
  SizeMax <- MCSizeMax
  Capacities <- EdgeCapacities
  Frames <- MixedFrames
  MaxFrames = 2
  MaxEpochs = 1
SPECIFICATION Spec
INVARIANT WriterInBounds
