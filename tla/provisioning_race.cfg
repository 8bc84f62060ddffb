CONSTANTS
  None = none
  Codes = {a, b}
  Paid = {a, b}
  Emails = {e1}
  Reqs = {p1, p2}
  MaxInFlight = 2
  Faulty = FALSE
SPECIFICATION Spec
CHECK_DEADLOCK FALSE
INVARIANT MigrationTargetsOwn
