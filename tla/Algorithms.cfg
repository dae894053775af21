SPECIFICATION MCSpec
CONSTANTS
  WindowUpper = 4
  CapacityUpper = 5
  MaxNeighbors = 3
  MaxDegree = 4
  PrefetchSteps = 1
  MaxTime = 2
  Vectors = {a, b}
  Unset = Unset
  Levels = 2
  BlockSize = 2
  MaxData = 4
  BufferSize = 2
  Sentinel = 1000
  Dynamic = Dynamic
  Garbage = Garbage
  MaxSize = 17
  MaxTeam = 8
  MaxDistance = 3
  MaxMethods = 3
  MaxCandidates = 4
  NoIndex = NoIndex
  Refused = Refused
  Pages = 3
  HugePages = {2}
  Clients = {t1, t2}
  Arrays = {x, y, z}
  MaxDim = 2
  Contents = {1}
  Unwritten = 0
  NoBlock = NoBlock
  Pointers = {p, q}
  MaxBytes = 2
  Absent = Absent
  Null = Null
  SharedObjects = {1, 2}
  SharedThreads = {1, 2}
  MaxSharedCalls = 3
INVARIANTS
  CalibrationDelivers
  DataSurvive
  MemoryIsOwned
  MappingsAreHeld
  ValuesAreWhole
  DivisionIsExact
  NearestAreFound
  PruneKeepsReach
  PackingIsExact
  DispatchPicksBest
  LoadsAsSaved
CHECK_DEADLOCK FALSE
