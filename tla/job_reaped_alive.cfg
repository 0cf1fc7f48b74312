SPECIFICATION Spec
CONSTANTS
    j1 = j1
    j2 = j2
    w1 = w1
    w2 = w2
    Jobs = {j1}
    Workers = {w1, w2}
    Tags = {1}
    NoJob = NoJob
    NoTag = NoTag
    Source <- MCSource
    MaxRetries = 2
    Faults = {}
    MaxFaults = 0
    AckAtomic = TRUE
SYMMETRY Slots
PROPERTY ReaperSparesLiveWork
CHECK_DEADLOCK FALSE
