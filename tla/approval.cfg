SPECIFICATION FairSpec
CONSTANTS
  a1 = a1
  a2 = a2
  w1 = w1
  Actions = {a1, a2}
  Workers = {w1}
  NoWorker = NoWorker
  MaxGeneration = 2
  MaxFaults = 2
  InternalErrors = TRUE
INVARIANTS TypeOK AllOrNothing VetoCloses NoStrandedApproval
PROPERTY ReleaseIsFresh
PROPERTY ExpiryIsDetected
