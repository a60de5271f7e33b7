SPECIFICATION TasksSpec
CONSTANTS
  d1 = d1
  d2 = d2
  b = b
  p1 = p1
  p2 = p2
  x1 = x1
  x2 = x2
  x3 = x3
  x4 = x4
  Nothing = Nothing
  Dispatchers = {d1, d2}
  Callers = {b}
  Peers = {p1, p2}
  Contexts = {x1, x2, x3, x4}
  Settings <- ManyOrOne
  MaxDatagrams = 2
  Kinds = {TRUE, FALSE}
  Sizes = {0, 1, 2, 3}
  BufferSize = 2
  Width = 8
  Ends = {"closed"}
  MaxSent = 6
  t1 = t1
  t2 = t2
  Pool = {t1, t2}
  Capacity = 2
  MaxWrites = 2
  Codes = {0, 1}
  WFiles = 3
  WMaxWatches = 3
  WMaxOps = 4
  WTries = 1
CHECK_DEADLOCK FALSE
INVARIANTS DispatcherInv WorkerInv RunInv ObserverFollows
PROPERTIES BroadcastReturns TasksEnd ChangesTold
