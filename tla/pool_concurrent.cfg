CONSTANTS
  None = none
  Codes = {a, b}
  Calls = {p1, p2}
  MaxInFlight = 2
  Clients = {h1, h2}
  MaxSize = 1
  IdleTimeout = 0
  MaxTime = 2
  Faulty = TRUE
  Prompt = FALSE
SPECIFICATION FairSpec
CHECK_DEADLOCK FALSE
INVARIANTS TypeOK SizeBound PoolSound TenantRouting
PROPERTIES EveryCallEnds IdleSwept ImplementsPool OrphanedByOverlap
