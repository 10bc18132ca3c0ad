SPECIFICATION MCSpec
CONSTANTS
  o1 = o1
  o2 = o2
  o3 = o3
  o4 = o4
  o5 = o5
  o6 = o6
  o7 = o7
  NoOrder = NoOrder
  Ids <- MCIds
  Inputs <- MCInputs
  PriceScale = 2
INVARIANTS
  EngineTypeOK
  HeapsOrdered
  IndexAgrees
  SnapshotFaithful
  TradesNearLimits
PROPERTIES
  BookImplemented
  PriceTimePriority
  AddOrderReturns
CHECK_DEADLOCK FALSE
