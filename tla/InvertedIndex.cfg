SPECIFICATION Spec
CONSTANTS
  Size = 5
  NumCentroids = 2
  PickerSorts = TRUE
  Threads = 2
  BatchSize = 3
  Intermediate = 2
  MaxReplicas = 1
  Epsilon = 1
  MaxClusterSize = 2
  Distances = {1, 3}
  QueryDistances = {1, 2}
  RefinementEpsilon = 1
  Window = 2
  NumNeighbors = 3
  Missing = Missing
INVARIANTS
  PointsKept
  SearchFindsNearest
PROPERTIES
  ClusteringEnds
CHECK_DEADLOCK FALSE
