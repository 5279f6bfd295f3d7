CONSTANTS
  Clients = {c1}
  Sources = {claims}
  Unwatched = {servicePods}
  Empty = nothing
  Contents = {nothing, some}
  Runs = {r1, r2}
  MaxChanges = 2
SPECIFICATION FairSpec
CHECK_DEADLOCK FALSE
PROPERTY FramesFollow
