SPECIFICATION FairSpec
CONSTANTS
  w1 = w1
  w2 = w2
  Workers = {w1, w2}
  Nobody = Nobody
  Lease = 2
  Interval = 1
  Pause = 1
  MaxStall = 3
  Prompt = FALSE
INVARIANTS TypeOK OutcomeIsOwned
PROPERTIES LiveLeaseIsKept ClaimedAgain
