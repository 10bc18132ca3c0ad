SPECIFICATION Spec
CONSTANTS
  Requests = {r1, r2}
  Clients = {c1}
  Loader = Loader
  NoBook = NoBook
  MaxFaults = 1
INVARIANTS
  FeedTypeOK
  StaleOnlyByRace
PROPERTIES
  LoadedBookStays
  Reconnects
CHECK_DEADLOCK FALSE
