\* Two route keys, statuses at every boundary Observe tests, the code's
\* threshold of three, a window of two clock units.
CONSTANTS
    Keys = {k1, k2}
    Statuses = {0, 199, 200, 399, 400, 429, 500}
    Threshold = 3
    Window = 2
    Scale = 20
    MaxTime = 4
    MaxFailures = 4
SPECIFICATION ObservedSpec
INVARIANTS
    HealthTypeOK
    DeadlineMatchesStreak
    FailingKeyLosesWeight
    OpenExactlyAfterStreak
PROPERTIES
    OpenCircuitHolds
    QuietCircuitCloses
    ImplementsCircuitBreaker
