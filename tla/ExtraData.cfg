SPECIFICATION Spec
CONSTANTS
  MaxTs = 3
  Values = {1, 2}
  EMPTY_VAL = EMPTY_VAL
  Ownership = {indiv}
  Financials = {fin}
  Items = {roe, pbv}
  Flows = {ritel, broker}
  NoTask = NoTask
  NoFigure = NoFigure
  Charts <- MCCharts
  FlowCharts <- MCFlowCharts
  BarArrays <- MCBarArrays
SYMMETRY MCSymmetry
INVARIANTS
  TypeOK
  FiguresAreWhole
  FlowsAscend
  NoLookAhead
  FillIsLatest
PROPERTIES
  SeriesStay
  ImplementsTaskQueue
CHECK_DEADLOCK FALSE
