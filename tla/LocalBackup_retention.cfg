SPECIFICATION Spec
CONSTANTS
  MaxJobs = 2
  MaxRetention = 1
  MaxFaults = 1
  MaxCrashes = 0
CHECK_DEADLOCK FALSE
INVARIANTS
  RecordsHaveFiles
