SPECIFICATION Spec
CONSTANTS
  Workers = {w1, w2}
  NoWorker = NoWorker
  Requests = {c1, c2}
  OfferedKinds <- MixedKinds
  Records <- OneRecord
  MaxJobs = 3
  MaxRestarts = 1
  MaxDbFaults = 1
  TimelyHeartbeats = FALSE
SYMMETRY Symmetric
CHECK_DEADLOCK FALSE
INVARIANTS
  UniqueActiveKey
PROPERTIES
  ExecutedAtMostOnce
