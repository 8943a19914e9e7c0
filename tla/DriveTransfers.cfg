SPECIFICATION DriveFairSpec
CONSTANTS
  MaxBackups = 2
  MaxJobs = 3
  MaxReads = 1
  MaxRetention = 2
  MaxFailures = 1
CHECK_DEADLOCK FALSE
INVARIANTS
  RecordsHaveCopies
  WrongCopiesFollowRemovals
PROPERTIES
  RemoteRetention
  UnrecordedCopiesAreKept
  EveryTransferEnds
