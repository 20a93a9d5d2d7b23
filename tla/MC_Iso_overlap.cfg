SPECIFICATION Spec
CONSTANTS
  None = None
  Canon <- Spelling
  Requests = {"pain1", "pacs1", "mixed1", "reject1", "slip1", "statement1"}
  Message <- MCMessage
  Body <- MCBody
  MaxInFlight = 2
  MaxFaults = 1
INVARIANTS StatusHasEvent CaseForException
PROPERTY OnlyRacesSplit
CHECK_DEADLOCK FALSE
