CONSTANTS
  t1 = t1
  t2 = t2
  Null = Null
  Threads <- TwoThreads
  CacheDirs <- OneDir
  TmpDir = "/tmp"
  Failing <- AnyCall
  Signals = 3
  MaxCalls = 5
SYMMETRY ThreadSymmetry
SPECIFICATION Spec
INVARIANTS TypeOK EntryPointsMatch StatePrecomputed DescriptorsAccounted EverySignalHandled TmpPathNotNull
CHECK_DEADLOCK FALSE
