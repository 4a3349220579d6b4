CONSTANTS
    None = None
    MaxConns = 2
    DiscoveryTopics <- OneDiscovery
    MaxVersion = 1
    BrokerMayCrash = FALSE
    Modes = {TRUE}
    MaxRuns = 1
SPECIFICATION Spec
\* The process ends for good: on success, on a stop, or at the bound on runs.
CHECK_DEADLOCK FALSE
INVARIANTS
    ShutdownPublishesOffline
