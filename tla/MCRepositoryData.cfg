CONSTANTS
  Requests = {r1}
  MaxFaults = 2
  MaxCrashes = 1
  Branches = {b1}
  Commits = {k1, k2}
  Events = {e1, e2}
  Readers = {r1}
  None = None
  MaxBranchFaults = 2
  Mirrors = {p1, p2}
  MaxPushes = 2
  MaxPoolFaults = 1
  k1 = k1
  k2 = k2
SPECIFICATION MCSpec
CHECK_DEADLOCK FALSE
INVARIANTS
  DataSurvives
  BranchesAreKept
  PoolHolds
PROPERTIES
  RestoreIsWhole
  BinEmpties
