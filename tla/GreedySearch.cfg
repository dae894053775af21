SPECIFICATION Spec
CONSTANTS
  Kinds = {"static", "dynamic"}
  Indexes <- MCIndexes
  Queries <- MCQueries
  LaterQueries <- MCLaterQueries
  MaxQueries = 2
  Slots = 2
  Uppers = 4
  CounterLimit = 16
  Entry = 0
  Missing = Missing
INVARIANT BufferSound
PROPERTIES
  KeepsPromise
  SearchEnds
CHECK_DEADLOCK FALSE
