SPECIFICATION FairSpec
CONSTANTS
  Row <- Rows
  r1 = r1
  r2 = r2
  Relay = {r1, r2}
  ClaimLimit = 2
  LeaseTicks = 1
  DedupeTicks = 2
  MaxFaults = 2
CHECK_DEADLOCK FALSE
INVARIANTS TypeOK PublishedIsStored DuplicateNeedsLapse
PROPERTIES ImplementsAtLeastOnce EventuallyPublished
