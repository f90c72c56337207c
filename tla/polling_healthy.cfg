SPECIFICATION Spec
CONSTANTS
  p1 = p1
  p2 = p2
  Poller = {p1}
  Endpoints = 2
  Feed <- Feeds
  MaxRecords = 2
  Timeout = 2
  StaleAfter = 1
  Horizon = 4
  MaxFaults = 0
CHECK_DEADLOCK FALSE
INVARIANTS HealthyIsLastResult
