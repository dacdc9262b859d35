SPECIFICATION FairSpec
CONSTANTS
  r1 = r1
  w1 = w1
  w2 = w2
  Runs = {r1}
  LocalChoices = {TRUE, FALSE}
  Workers = {w1, w2}
  NoRun = NoRun
  NoWorker = NoWorker
  DeadWorker = DeadWorker
  MaxAttempts = 2
  StepTimeout = 1
  RunTimeout = 3
  Lease = 1
  Capacity = 1
  WindowLength = 1
  AdapterResults = {"succeeded", "transient", "permanent"}
  FaultKinds = {"crash", "stall", "stop", "drift", "storage"}
  MaxFaults = 2
INVARIANTS
  TypeOK
  EvidenceIsConsistent
  BudgetsAreHonest
  OneOutput
  RetriesGetTheirTurn
PROPERTIES
  OutcomesAreFinal
  ReadRunsSettle
