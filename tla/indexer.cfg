SPECIFICATION Spec
CONSTANTS
  MaxBlocks = 3
  MaxFaults = 5
INVARIANTS
  IndexerTypeOK
  EachEventOnce
PROPERTY
  EveryBlockRead
CHECK_DEADLOCK FALSE
