CONSTANTS
  None = None
  Clients = {c1}
  MaxChunks = 3
SPECIFICATION FairSpec
CHECK_DEADLOCK FALSE
INVARIANTS TypeOK Stoppable PollsTrue
PROPERTY ClientLearns
