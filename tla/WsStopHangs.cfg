SPECIFICATION Spec
PROPERTIES
  StopReturns
CHECK_DEADLOCK FALSE
