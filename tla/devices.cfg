CONSTANTS
  None = none
  Users = {user, tenant}
  Tenanted = {tenant}
  Ips = {i1, i2}
  Calls = {p1, p2, p3}
  MaxInFlight = 2
  RefreshTokens = {r1, r2, r3}
  DeviceTokens = {d1, d2}
  RefreshLife = 1
  DeviceLife = 1
  MaxTime = 2
SPECIFICATION Spec
CHECK_DEADLOCK FALSE
SYMMETRY MCSymmetry
INVARIANTS TypeOK TwoFactorHasDevice SpentRefused
PROPERTY DeniedForCause
