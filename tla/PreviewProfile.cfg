\* The deployment of MCDecisionAudit: a preview that names a virtual model and
\* another profile in its ai_route object.
CONSTANTS
    Keys = {"a", "b", "c"}
    Statuses = {200, 503}
    Threshold = 2
    Window = 1
    Scale = 5
    MaxTime = 2
    MaxFailures = 2
    Requests = {"r1", "load"}
    Arrivals <- MCArrivals
    ModelNames <- MCModelNames
    Route <- MCRoute
    Profiles <- MCProfiles
    Tasks = {"chat", "code"}
    Merit <- MCMerit
    ObservedAs <- MCObservedAs
    Polyfilled <- MCPolyfilled
    HostedFallback = "a"
    Enabled = TRUE
    Aliases <- MCAliases
    AutoSuffix <- MCAutoSuffix
    DefaultProfile = "balanced"
SPECIFICATION AuditSpec
INVARIANT
    PreviewUsesInferenceProfile
