SPECIFICATION FairSpec
CONSTANTS
  MaxJobs = 3
  Countdown = 2
  MaxFaults = 1
CHECK_DEADLOCK FALSE
INVARIANTS
  StopIsAnnounced
  EscalationChain
PROPERTIES
  ImplementsCancellation
  EveryJobEnds
