SPECIFICATION MCSpec
CONSTANTS
  AccumulatorBits = 24
  SelectorBits = 8
  TransformBatch = 2
  Blank = Blank
INVARIANTS
  DistancesAreExact
  EncodingIsNearest
  LeanVecKeepsOrder
  ResultsAreTheirOwn
CHECK_DEADLOCK FALSE
