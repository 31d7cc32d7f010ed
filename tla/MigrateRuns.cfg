CONSTANTS
  r1 = r1
  r2 = r2
  There = There
  Back = Back
  Aside = Aside
  Onward = Onward
  NoRunner = NoRunner
  NoPlan = NoPlan
  Runners = {r1, r2}
  Plans = {There, Back, Aside, Onward}
  NoModel = "none"
  Empty = "empty"
  Drivers = {"postgres", "d1", "sqlite"}
  Applied <- MCApplied
  From <- MCFrom
  To <- MCTo
  Expanded <- MCExpanded
  Expands <- MCExpands
  Length <- MCLength
  Sessions <- MCSessions
  MaxRuns = 3
  MaxFaults = 2
SPECIFICATION FairSpec
CHECK_DEADLOCK FALSE
INVARIANT TypeOK
INVARIANT StepsRunInPlace
INVARIANT RecordedModelHeld
PROPERTY ContractAfterExpand
PROPERTY EveryRunEnds
