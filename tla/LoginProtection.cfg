SPECIFICATION LoginSpec
CONSTANTS
  Threads = {c1, c2}
  NoAttempt = NoAttempt
  MAXIMUM_FAILED_ATTEMPTS = 3
  LOGIN_BLOCK_DURATION = 2
  MaxWait = 1
  MaxAttempts = 6
  MaxTime = 5
SYMMETRY Symmetric
CHECK_DEADLOCK FALSE
INVARIANTS
  BlocksAreNotProlonged
PROPERTIES
  NoSuccessDuringBlock
  CountIsExact
