SPECIFICATION Spec
CONSTANTS
  o1 = o1
  o2 = o2
  o3 = o3
  NoOrder = NoOrder
  NoRow = NoRow
  Ids <- MCIds
  Inputs <- PanicInputs
  Cancelled = {o1}
  QueueSize = 1
  MaxFailures = 1
  MaxCrashes = 1
  PriceScale = 1
INVARIANTS
  ServiceTypeOK
  RowsLagMemory
  SettlesOnce
  SettledAreMined
  BookUncrossed
CHECK_DEADLOCK FALSE
