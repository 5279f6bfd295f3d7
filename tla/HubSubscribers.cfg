CONSTANTS
  Clients = {c1}
  Sources = {claims}
  Unwatched = {servicePods}
  Empty = nothing
  Contents = {nothing, some}
  Runs = {r1, r2}
  MaxChanges = 3
SPECIFICATION FairSpec
CHECK_DEADLOCK FALSE
INVARIANTS TypeOK EverybodyServed
PROPERTY SubscribersCatchUp
