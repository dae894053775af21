SPECIFICATION Spec
CONSTANTS
  NumNodes = 4
  NumThreads = 2
  MaxDegree = 2
  PruneTo = 1
  BucketSize = 2
  MinBatches = 2
  MaxBatch = 100
  Passes = 2
  EntryPoint = 0
INVARIANTS BuilderSound BackedgesKept
PROPERTY ConstructReturns
CHECK_DEADLOCK FALSE
