SPECIFICATION FairSpec
CONSTANTS
  t1 = t1
  t2 = t2
  m1 = m1
  m2 = m2
  f1 = f1
  f2 = f2
  Threads = {t1, t2}
  Modules = {m1, m2}
  Methods = {f1, f2}
  Provides <- TwoProvided
  Preset <- OnePreset
  LogMethod = f2
  MaxDepth = 2
CHECK_DEADLOCK FALSE
INVARIANTS RegistryInv
PROPERTIES ReachesAll CallReturns
