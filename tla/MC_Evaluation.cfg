SPECIFICATION Spec
CONSTANTS
  None = None
  Canon <- Spelling
  Normal <- MCNormal
  Similar <- MCSimilar
  Prefix <- MCPrefix
  Transforms <- MCTransforms
  MinorUnits <- MCMinor
  CurrencyOf <- MCCurrency
INVARIANTS
  ReconciledExactlyWhenSafe
  AgreementHelps
  CopyCompared
  MappedOrReported
CHECK_DEADLOCK FALSE
