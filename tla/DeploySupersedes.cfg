CONSTANTS
  d1 = d1
  d2 = d2
  d3 = d3
  p1 = p1
  v1 = v1
  v2 = v2
  s1 = s1
  s2 = s2
  Deploys = {d1, d2, d3}
  Persons = {p1}
  Nobody = Nobody
  NoPlan = NoPlan
  NoModel = NoModel
  NoVersion = NoVersion
  Versions = {v1, v2}
  Columns = {"name", "title"}
  Uses <- MCUses
  Servers = {s1, s2}
  WaveOf <- MCWaveOf
  Waves = 2
  Stores = {"gcp"}
  MaxFaults = 1
  MaxUnlocks = 0
  MaxRuns = 20
SYMMETRY Symmetry
SPECIFICATION Spec
CHECK_DEADLOCK FALSE
INVARIANT RunnerTakesPlans
