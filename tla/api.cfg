SPECIFICATION ApiSpec
CONSTANTS
    j1 = j1
    j2 = j2
    w1 = w1
    w2 = w2
    Jobs = {j1, j2}
    Workers = {w1, w2}
    Tags = {1, 2}
    NoJob = NoJob
    NoTag = NoTag
    Source <- MCSource
    MaxRetries = 1
    Faults = {"crash", "hard", "error", "db", "broker"}
    MaxFaults = 1
    AckAtomic = TRUE
    Posters = {w1, w2}
    Limit = 2
    Overage = TRUE
    Rate = 5
    SpendCap = 5
    NoCap = NoCap
    WarnAt = 50
    OverageAt = 150
    MaxFiles = 2
    MaxPosts = 2
    MaxMade = 4
    PostFaults = {"redis", "query", "db", "broker", "crash"}
    MaxPostFaults = 2
    s1 = s1
    s2 = s2
    k1 = k1
    l1 = l1
    Shared = {s1, s2}
    Looks = {l1}
    Keys = {k1}
    Handlers = {w1, w2}
    NoShared = NoShared
    Missing = Missing
    LinkFaults = {"storage", "db", "crash"}
    MaxLinkFaults = 1
    MaxVisits = 3
SYMMETRY Swaps
INVARIANT TypeOK StoredOnce OnlyStoredIsAnnounced
    LimitHolds AnsweredIsQueued BatchIsWhole OneMailPerThreshold
    AnsweredLinkExists LinkHasReport RetriesAreFree
PROPERTY ImplementsContract ImplementsLinkContract
CHECK_DEADLOCK FALSE
