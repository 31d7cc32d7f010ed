CONSTANTS
  m1 = m1
  m2 = m2
  m3 = m3
  t1 = t1
  t2 = t2
  t3 = t3
  t4 = t4
  t5 = t5
  w1 = w1
  NoToken = NoToken
  NoWorker = NoWorker
  Ids = {m1, m2, m3}
  Tokens = {t1, t2, t3, t4, t5}
  Workers = {w1}
  Concurrency = 2
  Retries = 1
  MaxFaults = 1
  MaxCuts = 1
SYMMETRY Symmetry
SPECIFICATION Spec
CHECK_DEADLOCK FALSE
INVARIANT ConcurrencyKept
