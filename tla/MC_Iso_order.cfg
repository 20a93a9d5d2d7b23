SPECIFICATION Spec
CONSTANTS
  None = None
  Canon <- Spelling
  Requests = {"pacs1", "accept1"}
  Message <- MCMessage
  Body <- MCBody
  MaxInFlight = 1
  MaxFaults = 0
INVARIANTS StatusResolves
CHECK_DEADLOCK FALSE
