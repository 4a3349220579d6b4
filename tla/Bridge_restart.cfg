CONSTANTS
    None = None
    MaxConns = 3
    DiscoveryTopics <- OneDiscovery
    MaxVersion = 2
    BrokerMayCrash = TRUE
    Modes = {TRUE}
    MaxRuns = 2
SPECIFICATION Spec
\* The process ends for good: on success, on a stop, or at the bound on runs.
CHECK_DEADLOCK FALSE
INVARIANTS
    TypeOK
    AnnouncedOnFirstConnection
    PublishedIsRetained
PROPERTIES
    StateNeverGoesBack
