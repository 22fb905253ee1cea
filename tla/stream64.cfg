CONSTANTS
  SizeT = 8
  SizeMax <- MCSizeMax
  Capacities <- EdgeCapacities
  Frames <- MixedFrames
  MaxFrames = 3
  MaxEpochs = 2
SPECIFICATION Spec
INVARIANTS TypeOK ReaderInBounds HeaderTrailsStores ReadsPrefix StreamInv
