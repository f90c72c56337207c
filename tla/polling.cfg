SPECIFICATION FairSpec
CONSTANTS
  p1 = p1
  p2 = p2
  Poller = {p1, p2}
  Endpoints = 2
  Feed <- Feeds
  MaxRecords = 2
  Timeout = 2
  StaleAfter = 1
  Horizon = 3
  MaxFaults = 1
CHECK_DEADLOCK FALSE
INVARIANTS CursorSafe FreshIsComplete
PROPERTIES EventuallyStored
