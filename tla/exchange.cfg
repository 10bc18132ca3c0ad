SPECIFICATION ExchangeSpec
CONSTANTS
  o1 = o1
  o2 = o2
  o3 = o3
  alice = alice
  bob = bob
  base = base
  quote = quote
  NoOrder = NoOrder
  NoRow = NoRow
  Ids <- MCIds
  Inputs <- MCInputs
  Terms <- MCTerms
  Cancelled = {}
  QueueSize = 1
  MaxFailures = 1
  MaxCrashes = 1
  MaxMoves = 1
  PriceScale = 1
  Users = {alice, bob}
  Owner = bob
  Tokens = {base, quote}
  Supply = 2
  MaxUint = 5
  MaxTime = 1
INVARIANTS
  RestingExactlyLive
  MeetingLimitsSettle
  SettledAsRecorded
PROPERTIES
  RevertsExplained
CHECK_DEADLOCK FALSE
