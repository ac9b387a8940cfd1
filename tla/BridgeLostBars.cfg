SPECIFICATION BridgeSpec
CONSTANTS
  UI = ui
  Threads = {ui}
  Symbols = {1}
  ExtraTypes = {}
  FirstDay = 2
  LastDay = 2
  Size = 2
INVARIANTS
  FetchedBarsStay
CHECK_DEADLOCK FALSE
