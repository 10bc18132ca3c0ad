SPECIFICATION Spec
CONSTANTS
  o1 = o1
  o2 = o2
  o3 = o3
  NoOrder = NoOrder
  NoRow = NoRow
  Ids <- PairIds
  Inputs <- RoundedInputs
  Cancelled = {}
  QueueSize = 1
  MaxFailures = 0
  MaxCrashes = 0
  PriceScale = 1
INVARIANTS
  TradesSettleable
CHECK_DEADLOCK FALSE
