\* Validation may end with a refusal.
CHECK_DEADLOCK FALSE
CONSTANTS
    Configs <- DeployedConfigs
    Asked <- DispatchAsked
    Aliases <- MCAliases
    AutoNames <- MCAutoNames
    Disabled <- MCDisabled
    Editorial <- MCEditorial
    DirectLists <- MCDirectLists
    Offers <- MCOffers
    Adapters <- MCAdapters
SPECIFICATION DispatchSpec
INVARIANT UpstreamModelIsSent
