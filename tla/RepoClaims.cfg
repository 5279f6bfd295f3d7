CONSTANTS
  None = None
  Tenants = {t1, t2}
  Repos = {r1}
  Branches = {main}
  Main = main
  FreeNames = {}
  Requests = {p, q}
  Reconcilers = {}
  MaxRequests = 4
  MaxFaults = 1
SYMMETRY Interchangeable
SPECIFICATION Spec
CHECK_DEADLOCK FALSE
INVARIANTS TypeOK OneOwner NobodysRepo RowsHaveRepos MainProtected
