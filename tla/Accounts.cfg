SPECIFICATION Spec
CONSTANTS
  Users = {u1, u2}
  Requests = {c1, c2}
  MaxSessions = 3
  NoRequest = NoRequest
  NoReset = NoReset
SYMMETRY Symmetric
CHECK_DEADLOCK FALSE
INVARIANTS
  AdministratorRemains
  SessionsFollowAccounts
