CONSTANTS
  IPs = {i1, i2}
  Tokens = {t1}
  Attempts = {a1, a2}
  None = None
  MaxFailed = 2
  Base = 1
  MaxLock = 2
  MaxEntries = 1
  SessionDuration = 2
  MaxTime = 3
  MaxPassword = 1
  MaxFailures = 3
  Browsers = {b1, b2}
  Users = {u1, u2}
  Identities = {g1}
  Emails = {m1, m2}
  States = {n1, n2}
  Requests = {q1, q2}
  MaxPending = 1
  MaxSessions = 3
  AutoActivate = FALSE
  LookupsFail = TRUE
  Buckets = {k1, k2, k3}
  APIRequests = 6
  AuthRequests = 0
  Tiers = {"auth", "search"}
  Minute = 2
  MaxIdle = 2
  Apps = {p1, p2}
  ConfigApp = p0
  Empty = Empty
  MaxFaults = 2
  b1 = b1
  u1 = u1
  u2 = u2
  m1 = m1
  g1 = g1
SPECIFICATION MCSpec
CHECK_DEADLOCK FALSE
INVARIANTS
  FailuresCount
  SessionsEnd
  StatesHold
  BudgetHolds
  PairFits
PROPERTY AccountsHold
