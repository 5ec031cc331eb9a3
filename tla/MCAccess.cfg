CONSTANTS
  s1 = s1
  k1 = k1
  alice = alice
  Streams = {w1}
  Capacity = 1
  MaxLines = 3
  MaxChanges = 1
  MaxFaults = 1
  Repos = {g1, g2, g3}
  MaxMatches = 1
  Limit = 2
  Workers = 2
  Creds <- MCCreds
  Sessions <- MCSessions
  Users <- MCUsers
  Owner <- MCOwner
  Roles = {roleAdmin, roleUser}
  Validators = {v1, v2}
  Revokers = {r1, r2}
  NoEntry = NoEntry
  NoUser = NoUser
  MaxEvictions = 2
SPECIFICATION MCSpec
CHECK_DEADLOCK FALSE
INVARIANTS
  NoStaleEntry
  NoPanic
  SearchIsComplete
PROPERTIES
  RevokedIsGone
  ReadersAreServed
