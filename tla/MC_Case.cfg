SPECIFICATION Spec
CONSTANTS
  Requests = {q1, q2, q3}
  MaxInFlight = 3
INVARIANTS TypeOK OnlyOverlapsContradict AuditTellsStatus
CHECK_DEADLOCK FALSE
