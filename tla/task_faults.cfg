SPECIFICATION TasksSpec
CONSTANTS
    j1 = j1
    j2 = j2
    w1 = w1
    w2 = w2
    Jobs = {j1}
    Workers = {w1, w2}
    Tags = {1, 2, 3}
    NoJob = NoJob
    NoTag = NoTag
    Source <- MCSource
    MaxRetries = 2
    Faults = {"crash", "hard", "error", "db", "broker"}
    MaxFaults = 2
    AckAtomic = FALSE
    a1 = a1
    b1 = b1
    b2 = b2
    Audited = {a1}
    Seeded = {a1}
    Auditors = {b1, b2}
    Callers = {}
    AuditTags = {1}
    NoAuditTag = NoAuditTag
    NoAudit = NoAudit
    Locked = {}
    Units = 1
    Quota = 1
    Cap = 1
    AuditFaults = {"crash", "hard", "error", "db", "broker"}
    MaxAuditFaults = 1
    r1 = r1
    f1 = f1
    x1 = x1
    x2 = x2
    o1 = o1
    Runs = {r1}
    Assays = {f1}
    Members <- MCMembers
    Executors = {x1, x2}
    NoRun = NoRun
    NoAssay = NoAssay
    Outputs = {o1}
    Unset = Unset
    Gone = Gone
    RunRetries = 1
    RunFaults = {"error", "db", "crash", "hard", "broker"}
    MaxRunFaults = 2
    MaxEdits = 1
INVARIANT NoTaskLost
PROPERTY ImplementsUnderFaults ProcessingSettles  StoredIsAnnounced PassEnds RunEnds
CHECK_DEADLOCK FALSE
