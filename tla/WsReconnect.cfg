SPECIFICATION Spec
PROPERTIES
  LiveIsAsked
CHECK_DEADLOCK FALSE
