SPECIFICATION Spec
CONSTANTS
  None = None
  Canon <- Spelling
  Requests = {"pacs1", "notice1", "statement1"}
  Message <- MCMessage
  Body <- MCBody
  MaxInFlight = 1
  MaxFaults = 0
INVARIANTS MismatchNeverReconciled
CHECK_DEADLOCK FALSE
