SPECIFICATION EditorialSpec
CONSTANTS
    Goroutines = {g1, g2}
    NoOne = NoOne
    Asked <- MCAsked
    Catalogs <- MCCatalogs
    TTL = 3
    RetryTTL = 1
    Timeout = 2
    MaxTime = 9
INVARIANTS
    EditorialTypeOK
    WaitsForOneFetch
PROPERTIES
    AnswersMatchCatalog
    StaleOnlyAfterFailure
    LookupsReturn
