SPECIFICATION DebounceFairSpec
CONSTANTS
    Slugs = {p1, p2}
    Handlers = {h1, h2}
    Workers = {w1}
    Quiet = 2
    MaxWait = 3
    PopLimit = 1
    Lag = 0
    LastArrival = 4
    MaxTime = 12
    MaxArrivals = 3
    MaxFaults = 1
    None = None
CHECK_DEADLOCK FALSE
INVARIANTS DebounceTypeOK EventsKept WaitBounded
PROPERTIES EventServed
