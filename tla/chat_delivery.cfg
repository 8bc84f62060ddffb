CONSTANTS
  None = none
  Users = {u1, u2}
  Sockets = {s1, s2, s3}
  MaxRequests = 3
  MaxRestarts = 1
SPECIFICATION Spec
CHECK_DEADLOCK FALSE
SYMMETRY MCSymmetry
INVARIANTS TypeOK SessionOfOpen ClientSeesSession AdminSeesSessions ReadWasAsked
PROPERTY HistoryKept
