SPECIFICATION FairSpec
CONSTANTS
  t1 = t1
  t2 = t2
  wa = wa
  wb = wb
  Ref <- Refs
  Tx = {t1, t2}
  Batch <- Batches
  MaxBatches = 3
CHECK_DEADLOCK FALSE
INVARIANTS CanonicalInStep OutboxCarriesLatest CirclesNeedMove
PROPERTIES ImplementsSerial EveryCallEnds
