\* The UI thread and one AFL thread, one symbol, and the two kinds of
\* extra data whose lookups may miss again after a fetch.
SPECIFICATION Spec
CONSTANTS
  UI = ui
  Threads = {ui, afl}
  Symbols = {1}
  ExtraTypes = {"FINANCIALS_", "OWN_INDIV_"}
INVARIANTS
  TypeOK
  NoSleepOnWork
  MarksMatchWorker
  WorkerSlotFree
  WorkerAlive
  WindowOutlivesWorker
  Announced
  MissIsAccountedFor
PROPERTIES
  ImplementsTaskQueue
  StopComesCloser
  EventuallyServed
  StopReturnsUnlessParking
  RequestsReturn
CHECK_DEADLOCK FALSE
