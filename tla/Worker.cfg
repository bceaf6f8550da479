SPECIFICATION FairSpec
CONSTANTS
    Consumers = {c1, c2}
    MaxConns = 1
    MaxFed = 2
    MaxFaults = 2
CHECK_DEADLOCK FALSE
INVARIANTS TypeOK NothingAbandoned LateClaims OutageReported
PROPERTIES ExitsAfterSignal StreamRead
