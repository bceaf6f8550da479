SPECIFICATION Spec
CONSTANTS
    w1 = w1
    Slugs = {p1}
    Handlers = {h1, h2}
    Workers = {w1}
    Quiet = 1
    MaxWait = 1
    PopLimit = 1
    Lag = 0
    LastArrival = 4
    MaxTime = 4
    MaxArrivals = 3
    MaxFaults = 1
    None = None
    WorkerOf <- OneWorker
    RoutingTTL = 1
    BuildTime = 1
    Prefixes <- SomePrefixes
    Keys <- SomeKeys
    Requests <- Mixed
    Configs <- SomeConfigs
    MaxPublish = 1
SYMMETRY HandlerSymmetry
CHECK_DEADLOCK FALSE
INVARIANT TypeOK
PROPERTY SettledRouted
