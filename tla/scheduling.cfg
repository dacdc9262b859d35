SPECIFICATION FairSpec
CONSTANTS
  Workers = {w1, w2}
  Crons = {"every", "even"}
  Walls <- WallsOf
  WallClock <- Zone
  Plans <- TwoPlans
  Initial <- Starts
  Nobody = Nobody
  Admin = Admin
  Grace = 1
  Lease = 1
  MaxCoalesced = 2
  MaxRevision = 2
  MaxTime = 4
  MaxFaults = 1
INVARIANTS
  TypeOK
  EveryInstantOnce
  ProjectionInStep
  StaleClaimsAreNormal
PROPERTIES
  FiresAsConfigured
  DueIsProcessed
CHECK_DEADLOCK FALSE
