SPECIFICATION Spec
CONSTANTS
  t1 = t1
  t2 = t2
  Null = Null
  Threads = {t1, t2}
  Jobs <- SmallJobs
  MaxKey = 6
  Preset = {1}
  MaxCalls = 2
  Settings <- OneOrTwo
CHECK_DEADLOCK FALSE
SYMMETRY Interchangeable
INVARIANTS ConnectionInv TransactionEnds AllOrNothing
PROPERTIES CalmIsComplete
