\* Two callers and one midnight, at any moment of calls, fetches and quotes;
\* AmiBroker may start with a bar of its own and has room for one.
SPECIFICATION BridgeSpec
CONSTANTS
  UI = ui
  Threads = {ui, afl}
  Symbols = {1}
  ExtraTypes = {}
  FirstDay = 1
  LastDay = 2
  Size = 1
INVARIANTS
  BridgeTypeOK
  FetchedBarsWin
  BarsAscend
  PastIsNotRequoted
PROPERTIES
  DaysStay
  ImplementsBarCache
CHECK_DEADLOCK FALSE
