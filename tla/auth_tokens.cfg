SPECIFICATION Spec
CONSTANTS
  public = public
  analyst = analyst
  Client = {public, analyst}
  AccessTTL = 2
  RefreshTTL = 3
  Capacity = 2
  MaxHistory = 3
  Horizon = 5
  MaxIssued = 5
CHECK_DEADLOCK FALSE
INVARIANTS TypeOK ReplayRevokes OnlyLatestPairWorks NothingLeaks
