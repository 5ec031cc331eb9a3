CONSTANTS
  Mirrors = {p1, p2}
  Branches = {b1}
  Commits = {k1, k2}
  None = None
  MaxPushes = 2
  MaxFaults = 0
SPECIFICATION Spec
CHECK_DEADLOCK FALSE
INVARIANT ArchivedIsKept
