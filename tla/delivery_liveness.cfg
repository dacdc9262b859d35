\* Catalog write: one action, every fault schedule, fair workers and clock.
SPECIFICATION FairSpec
CONSTANTS
  N = 1
  w1 = w1
  w2 = w2
  Workers = {w1, w2}
  NoWorker = NoWorker
  Idempotent = {1}
  AttemptLimit = 2
  Handler = "catalog_write"
  MaxFaults = 2
PROPERTIES
  RunSettles
  CancelledCallsClose
