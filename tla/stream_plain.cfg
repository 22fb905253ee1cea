CONSTANTS
  SizeT = 8
  SizeMax <- MCSizeMax
  Capacities <- TightAndAmple
  Frames <- PlainFrames
  MaxFrames = 13
  MaxEpochs = 1
SPECIFICATION Spec
INVARIANTS NoFrameLost WriterInBounds
