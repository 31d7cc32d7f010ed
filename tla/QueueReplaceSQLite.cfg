CONSTANTS
  t1 = t1
  t2 = t2
  t3 = t3
  t4 = t4
  c1 = c1
  c2 = c2
  NoToken = NoToken
  Ids = {1, 2}
  Tokens = {t1, t2, t3, t4}
  Clients = {c1, c2}
  KeyOf <- MCKeyOf
  Dialect = "sqlite"
  OnDuplicate = "replace"
  Serialize = TRUE
  InOrder = FALSE
  Operated = FALSE
  Retries = 1
  Lease = 2
  Backoff = 1
  MaxBackoff = 2
  Retain = 1
  Batch = 2
  MaxWrites = 2
  MaxNow = 3
SYMMETRY Symmetry
SPECIFICATION Spec
CHECK_DEADLOCK FALSE
INVARIANT TypeOK
PROPERTY GivesWayToNewer
