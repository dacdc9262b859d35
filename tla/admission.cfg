SPECIFICATION Spec
CONSTANTS
  good = good
  narrow = narrow
  broken = broken
  Instances = {1, 2}
  Events = {e1}
  Triggers = {t1, t2}
  Bodies = {good, narrow, broken}
  Malformed = {broken}
  SchemaRefuses <- RefusedByAll
  Requests = {r1, r2}
  Profiles = {{}, {"webhook", "manual"}}
  Nobody = Nobody
  MaxRevision = 2
  MaxRelease = 2
  FaultKinds = {"crash", "storage", "erase"}
SYMMETRY RequestSymmetry
INVARIANTS
  TypeOK
  FanOutIsWhole
  OneStory
  DuplicatesAreRecognised
  NoCircularWait
PROPERTIES
  AdmittedAsConfigured
CHECK_DEADLOCK FALSE
