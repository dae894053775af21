SPECIFICATION Spec
CONSTANT MaxAssigns = 3
INVARIANTS
  HandsOverSafely
PROPERTIES
  ShutdownDrains
  ExceptionReportedOnce
  ImplementsJobServer
  CallsReturn
