CONSTANTS
  None = none
  Codes = {a, b, c}
  Calls = {p1, p2, p3, p4}
  MaxInFlight = 1
  Clients = {h1, h2, h3, h4}
  MaxSize = 2
  IdleTimeout = 1
  MaxTime = 3
  Faulty = TRUE
  Prompt = TRUE
SPECIFICATION Spec
CHECK_DEADLOCK FALSE
SYMMETRY MCSymmetry
INVARIANT NoOrphan
PROPERTY EvictsLRU
