SPECIFICATION FairSpec
CONSTANTS
  w1 = w1
  w2 = w2

  o1 = o1
  o2 = o2

  NoObject = NoObject
  Null = Null
  Workers = {w1, w2}
  Objects = {o1, o2}
  Quitters = {w1}
  MaxSignals = 7
  MaxAborts = 1
CHECK_DEADLOCK FALSE
INVARIANTS ServerInv
PROPERTIES ServerCompletes KeepsPromise
