CONSTANTS
  None = None
  Tenants = {t1}
  Repos = {r1}
  Branches = {main, b1}
  Main = main
  FreeNames = {f}
  Requests = {p}
  Reconcilers = {c}
  MaxRequests = 3
  MaxFaults = 1
SPECIFICATION FairSpec
CHECK_DEADLOCK FALSE
INVARIANT NothingLeft
PROPERTY BranchesGetSessions
