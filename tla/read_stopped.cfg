SPECIFICATION Spec
CONSTANTS
  r1 = r1
  w1 = w1
  w2 = w2
  Runs = {r1}
  LocalChoices = {FALSE}
  Workers = {w1, w2}
  NoRun = NoRun
  NoWorker = NoWorker
  DeadWorker = DeadWorker
  MaxAttempts = 1
  StepTimeout = 2
  RunTimeout = 4
  Lease = 2
  Capacity = 1
  WindowLength = 2
  AdapterResults = {"succeeded"}
  FaultKinds = {"stop"}
  MaxFaults = 1
INVARIANT StoppedCallStaysOpen
