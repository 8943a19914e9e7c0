CONSTANTS
  Records = {}
  OfferedKinds = {"PALWORLD_START", "PALWORLD_STOP", "PALWORLD_RESTART", "LOCAL_RESTORE", "REMOTE_RESTORE", "PALWORLD_UPDATE", "PALWORLD_UPDATE_CHECK", "HOST_REBOOT", "HOST_SHUTDOWN"}
  MaxJobs = 2
  MaxFaults = 2
  MaxCrashes = 1
  MaxTroubles = 1
  Retention = 1
SPECIFICATION Spec
INVARIANTS
  DownWhileChanged
  HalfDoneIsReviewed
  PreventiveProtects
  CancelExcludesStop
  OrphansAreNamed
PROPERTIES
  WorldsSurvive
CHECK_DEADLOCK FALSE
