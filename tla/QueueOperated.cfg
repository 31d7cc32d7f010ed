CONSTANTS
  t1 = t1
  t2 = t2
  t3 = t3
  t4 = t4
  c1 = c1
  NoToken = NoToken
  Ids = {1, 2}
  Tokens = {t1, t2, t3, t4}
  Clients = {c1}
  KeyOf <- MCKeyOf
  Dialect = "postgres"
  OnDuplicate = "skip"
  Serialize = FALSE
  InOrder = FALSE
  Operated = TRUE
  Retries = 1
  Lease = 2
  Backoff = 1
  MaxBackoff = 2
  Retain = 1
  Batch = 2
  MaxWrites = 2
  MaxNow = 3
SYMMETRY Symmetry
SPECIFICATION Spec
CHECK_DEADLOCK FALSE
INVARIANT OneReadyPerKey
INVARIANT FinishedByHolder
INVARIANT DeadSpentItsRetries
PROPERTY ImplementsContract
