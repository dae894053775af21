SPECIFICATION Spec
CONSTANTS
  Clients = {c1}
  Resizers = {c1}
  Sizes = {0, 3}
  InitialSize = 2
  MaxIndex = 2
  MaxCalls = 2
  Exceptions = {"std", "other"}
  BuilderFails = TRUE
INVARIANT NothingSwallowed
PROPERTY CallsReturn
CHECK_DEADLOCK FALSE
