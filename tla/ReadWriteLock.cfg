SPECIFICATION FairSpec
CONSTANTS
  t1 = t1
  t2 = t2
  t3 = t3
  Threads = {t1, t2, t3}
  MaxNest = 2
  Nobody = Nobody
INVARIANTS Exclusion ReaderNeverBlocked
PROPERTIES ReaderServed KeepsPromise
