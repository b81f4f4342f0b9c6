\* Validation ends with a verdict.
CHECK_DEADLOCK FALSE
CONSTANTS
    Configs <- MCConfigs
    Asked <- MCAsked
SPECIFICATION ConfigSpec
INVARIANTS
    ConfigTypeOK
    VerdictIgnoresOrder
    NamesReachTheirEntry
    ResolvedModelsAreLawful
    UnknownSuffixRefused
