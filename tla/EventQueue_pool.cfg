SPECIFICATION Spec
CONSTANTS
  w = w
  c1 = c1
  o1 = o1
  o2 = o2
  NoObject = NoObject
  Null = Null
  Waiters = {w}
  Droppers = {w}
  Changers = {c1}
  Handles <- ThreeHandles
  FdSetSize = 3
  Objects = {o1, o2}
  HasOnDel = TRUE
  Expirable = {}
  MaxSignals = 1
  MaxAborts = 1
SYMMETRY Interchangeable
CHECK_DEADLOCK FALSE
INVARIANTS QueueInv NoObjectLost ObjectsSafe
