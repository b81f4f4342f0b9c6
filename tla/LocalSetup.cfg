CONSTANT MaxSetups = 3
SPECIFICATION SetupSpec
INVARIANTS
    SetupTypeOK
    SetupKeepsKey
    SameConfiguration
PROPERTY CodexChangedOnlyWhenServed
