SPECIFICATION FairSpec
CONSTANTS
  w1 = w1
  w2 = w2
  Workers = {w1, w2}
  Batch = 1
  Minute = 2
  Lease = 1
  AttemptLimit = 2
  ExpiryOrder <- TheOrder
  Legacy <- MayBeOld
  MaxFaults = 1
INVARIANTS TypeOK NothingNeededIsErased CountsAddUp
CHECK_DEADLOCK FALSE
PROPERTY BacklogIsErased
