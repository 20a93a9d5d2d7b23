SPECIFICATION FairSpec
CONSTANTS
  j1 = j1 j2 = j2
  Jobs = {j1, j2}
  Workers = {w1}
  Length <- JobLength
  MaxRows = 3
  ProgressInterval = 2
  Analysis <- JobAnalysis
  MaxRevision = 1
  MaxFaults = 2
  MaxDuplicates = 1
  NoJob = NoJob
CHECK_DEADLOCK FALSE
INVARIANT TypeOK
INVARIANT ProgressAddsUp
INVARIANT FinishedIsWhole
PROPERTY TerminalIsFinal
PROPERTY EndsUnlessDropped
PROPERTY ImplementsAtLeastOnce
