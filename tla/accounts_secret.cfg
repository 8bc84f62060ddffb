CONSTANTS
  None = none
  Emails = {e1}
  Codes = {a}
  Paid = {a}
  Reqs = {p1, p2, p3, p4}
  MaxInFlight = 1
  ResetLife = 1
  MaxTime = 1
  Faulty = FALSE
SPECIFICATION Spec
CHECK_DEADLOCK FALSE
PROPERTY SecretKeptOnceEnabled
