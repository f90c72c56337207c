SPECIFICATION Spec
CONSTANTS
  r1 = r1
  r2 = r2
  q1 = q1
  q2 = q2
  Replica = {r1, r2}
  Request = {q1}
  Configuration <- Deployed
  Versions <- Rollout
  Traffic <- Single
  MaxConcurrent = 1
  Available <- Connections
  DatabaseRows <- Databases
  Watched = {q1}
  MaxBoots = 2
CHECK_DEADLOCK FALSE
INVARIANTS GrantsNeverMerged
