SPECIFICATION FairSpec
CONSTANTS
    Configs <- AllConfigs
    Alerts <- SomeAlerts
    Packings = {"whole", "split", "coalesced"}
    MaxData = 2
    MaxForeign = 1
    Capacity = 1
INVARIANTS
    NoTruncation
    AlertsHeeded
PROPERTIES
    ShutdownCompletes
    FailureReported
CHECK_DEADLOCK FALSE
