SPECIFICATION Spec
CONSTANTS
  UI = ui
  Threads = {ui}
  Symbols = {1}
  ExtraTypes = {}
PROPERTIES
  StopReturns
CHECK_DEADLOCK FALSE
