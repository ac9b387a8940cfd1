SPECIFICATION Spec
INVARIANTS
  TypeOK
  RunAlive
  StopJoinsRun
  OpenIsPinged
  StatusIsTrue
  NoStaleCallback
PROPERTIES
  ImplementsKeepAlive
  StopReturnsUnlessReading
  ReconnectsInTime
CHECK_DEADLOCK FALSE
