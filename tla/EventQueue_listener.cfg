SPECIFICATION FairSpec
CONSTANTS
  w1 = w1
  w2 = w2
  c1 = c1
  o1 = o1
  o2 = o2
  NoObject = NoObject
  Null = Null
  Waiters = {w1, w2}
  Droppers = {}
  Changers = {c1}
  Handles <- OneHandle
  FdSetSize = 3
  Objects = {o1}
  HasOnDel = TRUE
  Expirable = {}
  MaxSignals = 1
  MaxAborts = 1
CHECK_DEADLOCK FALSE
PROPERTIES ChangeReturns WaitersAreTold
