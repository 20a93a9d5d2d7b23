SPECIFICATION FairSpec
CONSTANTS
  r1 = r1 s1 = s1 s2 = s2 c1 = c1 c2 = c2 i1 = i1 i2 = i2 j1 = j1 j2 = j2
  NoId = NoId NoMsg = NoMsg
  Runs <- OneRun
  Workers = {w1}
  Rows <- OneRows
  Ids <- OneIds
  RecordId <- OneRecordId
  SourceRows <- OneSource
  CandRows <- OneCand
  MaxVersion = 2
  Judge <- OneJudge
  MaxCandidates = 1
  MaxRetries = 2
  MaxFaults = 1
  MaxDuplicates = 1
  DecideActions = {"confirm"}
INVARIANT TypeOK
INVARIANT OneToOneClaims
INVARIANT NotForgotten
INVARIANT CountersOfOneExecution
PROPERTY EventuallySettled
PROPERTY ImplementsAtLeastOnce
CHECK_DEADLOCK FALSE
