CONSTANTS
  i1 = i1
  i2 = i2
  p1 = p1
  p2 = p2
  w = w
  x = x
  l1 = l1
  l2 = l2
  k1 = k1
  Nobody = Nobody
  Idle = Idle
  NoKid = NoKid
  NoLookup = NoLookup
  Items = {i1, i2}
  Procs = {p1, p2}
  Principals = {w, x}
  TTL = 2
  MaxHold = 3
  MaxExpiries = 2
  Reserve = 1
  Limits = {0, 2}
  Amounts = {2}
  Operated = {i1}
  LastClaim <- MCLastClaim
  MaxTime = 3
  MaxUsed = 2
  MaxToken <- MCMaxToken
  Lookups = {l1, l2}
  Kids = {k1}
  MaxAge = 3
  MinInterval = 2
  FetchTimeout = 1
  MaxClock = 5
  Stages = {"cart", "placed", "shipped", "gone"}
  First = "cart"
  Moves <- MCMoves
  Requires <- MCRequires
  VoidOn = {"gone"}
  CaptureOn = {"placed"}
  AfterRelease = "refund"
  Owed = {1, 2}
  MaxAttempts = 2
  MaxActs = 1
  MaxReports = 5
SYMMETRY Symmetry
SPECIFICATION Spec
CHECK_DEADLOCK FALSE
INVARIANT TypeOK
INVARIANT WorkIsLeased
INVARIANT LeaseTakesItsOwn
INVARIANT HeldAsReserved
INVARIANT ScopeAddsUp
INVARIANT WithinLimit
INVARIANT FetchesShared
INVARIANT AttemptsAddUp
INVARIANT ExcessAskedBack
INVARIANT VoidsWait
PROPERTY FencedInOrder
PROPERTY RetiredKeysGo
PROPERTY RotationNoticed
PROPERTY OpensAlone
