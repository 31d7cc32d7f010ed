CONSTANTS
  m1 = m1
  m2 = m2
  t1 = t1
  t2 = t2
  t3 = t3
  w1 = w1
  w2 = w2
  NoToken = NoToken
  NoWorker = NoWorker
  Ids = {m1, m2}
  Tokens = {t1, t2, t3}
  Workers = {w1, w2}
  Concurrency = 1
  Retries = 0
  MaxFaults = 2
  MaxCuts = 0
SYMMETRY Symmetry
SPECIFICATION Spec
CHECK_DEADLOCK FALSE
INVARIANT ConcurrencyKept
INVARIANT OneHandler
INVARIANT ReleasesTheUnfinished
