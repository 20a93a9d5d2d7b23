CONSTANTS
    CountryCodes = {"DE", "US"}
    NameToCode <- MCNameToCode
    Upper <- MCUpper
    Squeeze <- MCSqueeze
    TownLike = {"Berlin", "Germany"}
    ContainsPairs = {}
    PrefixPairs = {}
    Numerals <- MCNumerals
    TwoLetters = {"DE", "US", "XX"}
    TooLong = {"LongTown"}
    Inputs <- MCInputs
    Configs <- MCConfigs
    DEV_COVERAGE = {"DE"}
    Answers <- MCAnswers
    MaxRetries = 1
    Threshold = 2
    Cooldown = 1
    MaxTime = 1
    MaxRequests = 2
SPECIFICATION Spec
INVARIANTS
    CircuitCountsARun
    RepairableIsRepaired
    ValidatedNamesCountries
    ForcedCountryKept
PROPERTIES
    OpenCircuitIsSilent
    RequestConcludes
CHECK_DEADLOCK FALSE
