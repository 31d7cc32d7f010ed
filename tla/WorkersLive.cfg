CONSTANTS
  m1 = m1
  t1 = t1
  t2 = t2
  t3 = t3
  t4 = t4
  t5 = t5
  w1 = w1
  NoToken = NoToken
  NoWorker = NoWorker
  Ids = {m1}
  Tokens = {t1, t2, t3, t4, t5}
  Workers = {w1}
  Concurrency = 1
  Retries = 1
  MaxFaults = 2
  MaxCuts = 1
SPECIFICATION FairSpec
CHECK_DEADLOCK FALSE
INVARIANT TypeOK
INVARIANT NoLostWakeup
INVARIANT ReleasedOrRecorded
PROPERTY EveryMessageSettles
