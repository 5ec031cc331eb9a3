CONSTANTS
  s1 = s1
  k1 = k1
  alice = alice
  Creds <- MCCreds
  Sessions <- MCSessions
  Users <- MCUsers
  Owner <- MCOwner
  Roles = {roleAdmin, roleUser}
  Validators = {v1, v2}
  Revokers = {r1, r2}
  NoEntry = NoEntry
  NoUser = NoUser
  MaxEvictions = 2
SPECIFICATION Spec
INVARIANT
  DisabledStaysOut
