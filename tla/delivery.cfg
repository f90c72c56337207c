SPECIFICATION FairDelivery
CONSTANTS
  r1 = r1
  dashboard = dashboard
  w1 = w1
  Row <- Rows
  Relay = {r1}
  ClaimLimit = 2
  LeaseTicks = 1
  DedupeTicks = 1
  MaxFaults = 1
  Durable = {dashboard}
  Worker = {w1}
  Serves <- OneSubscriber
  MaxStream = 4
  MaxErrors = 1
CHECK_DEADLOCK FALSE
PROPERTIES EveryHazardReachesAll EndToEndAtLeastOnce
