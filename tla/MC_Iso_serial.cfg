SPECIFICATION SpecMonitored
CONSTANTS
  None = None
  Canon <- Spelling
  Requests = {"pacs1", "accept1", "slip1", "slip2", "again1"}
  Message <- MCMessage
  Body <- MCBody
  MaxInFlight = 1
  MaxFaults = 1
  Sweeps = {w1, w2}
SYMMETRY SweepSymmetry
INVARIANTS AppliedOnce ReconciledOnce
PROPERTY MissingIsMissing
CHECK_DEADLOCK FALSE
