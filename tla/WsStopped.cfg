SPECIFICATION Spec
INVARIANTS
  IdleIsDisconnected
CHECK_DEADLOCK FALSE
