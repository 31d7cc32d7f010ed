CONSTANTS
  Stages = {"cart", "placed", "shipped", "gone"}
  First = "cart"
  Moves <- MCMoves
  Requires <- MCRequires
  VoidOn = {"gone"}
  CaptureOn = {"placed"}
  AfterRelease = "refund"
  Owed = {1, 2}
  MaxAttempts = 2
  MaxActs = 1
  MaxReports = 5
SPECIFICATION PaySpec
CHECK_DEADLOCK FALSE
PROPERTY OwedIsKept
