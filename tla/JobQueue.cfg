SPECIFICATION FairSpec
CONSTANTS
  Workers = {w1, w2}
  NoWorker = NoWorker
  Requests = {c1}
  OfferedKinds <- MixedKinds
  Records <- OneRecord
  MaxJobs = 3
  MaxRestarts = 2
  MaxDbFaults = 1
  TimelyHeartbeats = TRUE
CHECK_DEADLOCK FALSE
INVARIANTS
  LockGuardsExecution
  NothingLeftBehind
PROPERTIES
  OutcomeIsFinal
  ImplementsExecution
  PendingIsServed
  RunningIsResolved
