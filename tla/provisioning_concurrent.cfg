CONSTANTS
  None = none
  Codes = {a, b, x}
  Paid = {a, b}
  Emails = {e1, e2}
  Reqs = {p1, p2, p3}
  MaxInFlight = 2
  Faulty = TRUE
SPECIFICATION Spec
CHECK_DEADLOCK FALSE
SYMMETRY MCSymmetry
INVARIANTS TypeOK AtMostOneAdmin MigrationsConfined
PROPERTIES VerifiedByMail ImplementsSignup
