SPECIFICATION Spec
CONSTANTS
  Zones = {0, 1}
  Times = {1}
  Default <- MCDefault
  Admins = {a1, a2}
  NoPage = NoPage
  MaxSaves = 2
  TicksPerDay = 2
  LastTick = 4
  NoDate = NoDate
  MaxRequests = 1
  MaxSetBacks = 1
  MaxCrashes = 1
CHECK_DEADLOCK FALSE
INVARIANTS
  OncePerDate
PROPERTIES
  EditsAreNotReverted
  DueIsScheduled
