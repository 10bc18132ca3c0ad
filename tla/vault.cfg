SPECIFICATION Spec
CONSTANTS
  alice = alice
  bob = bob
  base = base
  quote = quote
  Users = {alice, bob}
  Owner = bob
  Tokens = {base, quote}
  Orders <- MCOrders
  Amounts = {3}
  Fills = {0, 1, 2, 3}
  Supply = 3
  MaxUint = 12
  MaxNonce = 1
  MaxTime = 1
INVARIANTS
  VaultTypeOK
  Solvency
  NoOverfill
  LimitPrice
PROPERTIES
  DeadOrdersFrozen
  DebitAuthorised
CHECK_DEADLOCK FALSE
