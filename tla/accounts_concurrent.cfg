CONSTANTS
  None = none
  Emails = {e1, e2}
  Codes = {a, b}
  Paid = {a, b}
  Reqs = {p1, p2, p3, p4, p5}
  MaxInFlight = 2
  ResetLife = 0
  MaxTime = 1
  Faulty = TRUE
SPECIFICATION Spec
CHECK_DEADLOCK FALSE
SYMMETRY MCSymmetry
INVARIANTS TypeOK StaleLinkRefused PasswordByMail TokenOfOwnClient DeviceNeedsTwoFactor
INVARIANT TwoFactorGate
PROPERTY SealHolds
