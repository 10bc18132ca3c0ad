SPECIFICATION Spec
CONSTANTS
  o1 = o1
  o2 = o2
  o3 = o3
  NoOrder = NoOrder
  NoRow = NoRow
  Ids <- MCIds
  Inputs <- PanicInputs
  Cancelled = {o1}
  QueueSize = 1
  MaxFailures = 1
  MaxCrashes = 0
  PriceScale = 1
INVARIANTS
  FillsWithinAmount
PROPERTIES
  TerminalOrdersFrozen
  EveryTradeResolved
  SubmitReturns
  CancelReturns
CHECK_DEADLOCK FALSE
