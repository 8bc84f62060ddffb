CONSTANTS
  root_user = root_user
  tenant_user = tenant_user
  tenant_a = tenant_a
  Root = root
  None = none
  Tenants = {tenant_a}
  Users = {root_user, tenant_user}
  Home <- MCHome
  TwoFactor = {}
  Ips = {i1}
  Millis = {0}
  Reqs = {p1, p2, p3}
  MaxInFlight = 2
  RefreshTokens = {r1, r2, r3}
  AccessLife = 2
  AccessTTL = 1
  BlackTTL = 2
  RefreshLife = 2
  RefreshTTL = 1
  MaxTime = 2
  Faulty = TRUE
  Prompt = FALSE
SPECIFICATION Spec
CHECK_DEADLOCK FALSE
SYMMETRY MCSymmetry
INVARIANTS TypeOK RevokedTokenRefused TenantIsolation RefreshGrantOwner SessionsBounded
PROPERTY ImplementsService
