\* Two independent writes of the email workflow, the second not idempotent.
SPECIFICATION Spec
CONSTANTS
  N = 2
  w1 = w1
  w2 = w2
  Workers = {w1, w2}
  NoWorker = NoWorker
  Idempotent = {1}
  AttemptLimit = 2
  Handler = "demo_email"
  MaxFaults = 2
SYMMETRY WorkerSymmetry
INVARIANTS
  TypeOK
  NoBlindRetry
  NothingArmedAfterTerminal
  SuccessIsEvidenced
PROPERTIES
  ImplementsContract
