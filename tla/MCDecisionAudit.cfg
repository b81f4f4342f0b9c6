\* Two failures in a row open a circuit for one unit of time, so that circuits
\* open, expire and close again while a decision runs.
CONSTANTS
    Keys = {"a", "b", "c"}
    Statuses = {200, 503}
    Threshold = 2
    Window = 1
    Scale = 5
    MaxTime = 2
    MaxFailures = 2
    Requests = {"r1", "load"}
    Arrivals <- MCArrivals
    ModelNames <- MCModelNames
    Route <- MCRoute
    Profiles <- MCProfiles
    Tasks = {"chat", "code"}
    Merit <- MCMerit
    ObservedAs <- MCObservedAs
    Polyfilled <- MCPolyfilled
    HostedFallback = "a"
    Enabled = TRUE
    Aliases <- MCAliases
    AutoSuffix <- MCAutoSuffix
    DefaultProfile = "balanced"
SPECIFICATION AuditSpec
INVARIANTS
    AutoTypeOK
    SelectedSatisfiesPolicy
    SelectionJustified
    RefusalJustified
    QuietDecisionIsAtomic
