SPECIFICATION Spec
CONSTANTS
  MaxSize = 3
  MaxGeneration = 3
  MaxSaves = 3
  WritesFail = TRUE
INVARIANTS
  RoundTrip
  PartsAreWhole
CHECK_DEADLOCK FALSE
