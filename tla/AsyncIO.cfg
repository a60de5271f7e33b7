SPECIFICATION FairSpec
CONSTANTS
  c1 = c1
  c2 = c2
  c3 = c3
  Listener = Listener
  NoClient = NoClient
  NumThreads = 2
  MaxSends = 1
  Ways = {TRUE, FALSE}
  Clients = {c1, c2}
CHECK_DEADLOCK FALSE
INVARIANTS PoolInv
PROPERTIES PoolServes
