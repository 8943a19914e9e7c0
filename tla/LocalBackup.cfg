SPECIFICATION Spec
CONSTANTS
  MaxJobs = 4
  MaxRetention = 2
  MaxFaults = 2
  MaxCrashes = 2
CHECK_DEADLOCK FALSE
INVARIANTS
  NewestAreKept
  UnrecordedFilesAreExplained
PROPERTIES
  RecordedFilesGoToRetention
