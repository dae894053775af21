SPECIFICATION AnySpec
CONSTANTS
  ExternalIds = {e1, e2, e3}
  Points = {p, q}
  InitialSize = 2
  MaxSlots = 3
  MaxRequest = 2
  MaxDegree = 2
  PruneTo = 1
  BatchSize = 2
  NoPoint = NoPoint
  NoEntry = NoEntry
PROPERTY CompactKeepsPoints
CHECK_DEADLOCK FALSE
