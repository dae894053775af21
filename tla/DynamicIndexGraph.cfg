SPECIFICATION Spec
CONSTANTS
  ExternalIds = {e1, e2, e3, e4}
  Points = {p}
  InitialSize = 2
  MaxSlots = 4
  MaxRequest = 1
  MaxDegree = 2
  PruneTo = 1
  BatchSize = 2
  NoPoint = NoPoint
  NoEntry = NoEntry
SYMMETRY Interchangeable
INVARIANTS
  NothingLeadsToEmpty
  SearchFindsOnlyKnown
CHECK_DEADLOCK FALSE
