SPECIFICATION Spec
CONSTANTS
  Clients = {c1, c2}
  Resizers = {c2}
  Sizes = {3}
  InitialSize = 2
  MaxIndex = 3
  MaxCalls = 2
  Exceptions = {"std"}
  BuilderFails = FALSE
INVARIANTS
  CallsEndTruthfully
  QuiescentOnReturn
  PoolIsRestored
CHECK_DEADLOCK FALSE
