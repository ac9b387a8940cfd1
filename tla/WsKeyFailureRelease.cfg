SPECIFICATION Spec
INVARIANTS
  KeyFailureStopsThreadOnly
CHECK_DEADLOCK FALSE
