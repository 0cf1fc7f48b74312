SPECIFICATION ViewerSpec
CONSTANTS
    c1 = c1
    c2 = c2
    k1 = k1
    k2 = k2
    w1 = w1
    w2 = w2
    j1 = j1
    j2 = j2
    Capabilities = {c1, c2}
    Imported = {}
    Asks <- MCAsks
    Clients = {k1, k2}
    Workers = {w1, w2}
    MaxRequests = 2
    Faults = {"crash", "hard", "error", "db", "broker"}
    MaxFaults = 2
    Jobs = {j1, j2}
    Warmers = {w1, w2}
    NoJob = NoJob
    Cap = 1
    MaxEnqueues = 3
    TileFaults = {"crash", "hard", "error", "redis", "broker", "expiry"}
    MaxTileFaults = 1
INVARIANT AvailableIsBacked DuplicatesAreBounded
    CapHolds CounterIsExact CounterIsMortal OneWarmerPerJob
PROPERTY QueuedIsFilled ProgressEnds
CHECK_DEADLOCK FALSE
