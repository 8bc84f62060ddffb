CONSTANTS
  root_user = root_user
  tenant_user = tenant_user
  tenant_a = tenant_a
  Root = root
  None = none
  Tenants = {tenant_a}
  Users = {root_user}
  Home <- MCHome
  TwoFactor = {}
  Ips = {i1, i2}
  Millis = {0}
  Reqs = {p1, p2}
  MaxInFlight = 1
  RefreshTokens = {r1}
  AccessLife = 2
  AccessTTL = 2
  BlackTTL = 2
  RefreshLife = 2
  RefreshTTL = 2
  MaxTime = 1
  Faulty = FALSE
  Prompt = FALSE
SPECIFICATION Spec
CHECK_DEADLOCK FALSE
PROPERTY TheftAlertSent
