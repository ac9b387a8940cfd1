SPECIFICATION Spec
PROPERTIES
  Reconnects
CHECK_DEADLOCK FALSE
