CONSTANTS
  r1 = r1
  r2 = r2
  There = There
  Back = Back
  Aside = Aside
  Onward = Onward
  NoRunner = NoRunner
  NoPlan = NoPlan
  Runners = {r1, r2}
  Plans = {There, Back}
  NoModel = "none"
  Empty = "empty"
  Drivers = {"sqlite"}
  Applied <- MCReturning
  From <- MCFrom
  To <- MCTo
  Expanded <- MCExpanded
  Expands <- MCExpands
  Length <- MCLength
  Sessions <- MCSessions
  MaxRuns = 4
  MaxFaults = 1
SYMMETRY Symmetry
SPECIFICATION Spec
CHECK_DEADLOCK FALSE
PROPERTY ContractAfterExpand
