CONSTANTS
  None = None
  Submits = {s1, s2}
  Deciders = {d}
  Branches = {main, b1}
  MaxLives = 2
  MaxFaults = 1
SYMMETRY Interchangeable
SPECIFICATION Spec
CHECK_DEADLOCK FALSE
INVARIANTS TypeOK NoStrandedHead OriginIsTrue OwnBranchOnly ReviewerTold
