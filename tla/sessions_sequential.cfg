CONSTANTS
  root_user = root_user
  tenant_user = tenant_user
  tenant_a = tenant_a
  Root = root
  None = none
  Tenants = {tenant_a}
  Users = {root_user, tenant_user}
  Home <- MCHome
  TwoFactor = {tenant_user}
  Ips = {i1, i2}
  Millis = {0}
  Reqs = {p1, p2, p3}
  MaxInFlight = 1
  RefreshTokens = {r1, r2}
  AccessLife = 2
  AccessTTL = 2
  BlackTTL = 2
  RefreshLife = 2
  RefreshTTL = 2
  MaxTime = 3
  Faulty = TRUE
  Prompt = FALSE
SPECIFICATION Spec
CHECK_DEADLOCK FALSE
SYMMETRY MCSymmetry
INVARIANTS LoginRevokesEarlier LoginLeavesOneSession
