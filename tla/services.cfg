SPECIFICATION ServicesSpec
CONSTANTS
    a1 = a1
    b1 = b1
    b2 = b2
    Audited = {a1}
    Seeded = {a1}
    Auditors = {b1, b2}
    Callers = {b2}
    AuditTags = {o1, o2}
    NoAuditTag = NoAuditTag
    NoAudit = NoAudit
    Locked = {}
    Units = 2
    Quota = 1
    Cap = 1
    AuditFaults = {"crash", "hard", "error", "db", "broker"}
    MaxAuditFaults = 1
    r1 = r1
    r2 = r2
    f1 = f1
    f2 = f2
    x1 = x1
    x2 = x2
    o1 = o1
    o2 = o2
    Runs = {r1, r2}
    Assays = {f1, f2}
    Members <- MCMembers
    Executors = {x1, x2}
    NoRun = NoRun
    NoAssay = NoAssay
    Outputs = {o1, o2}
    Unset = Unset
    Gone = Gone
    RunRetries = 2
    RunFaults = {"error", "db", "crash", "hard", "broker"}
    MaxRunFaults = 1
    MaxEdits = 1
INVARIANT  NotesAreBounded 
     EndedRunIsAnnounced BaselineSettles
 
SYMMETRY ServicesSymmetry
CHECK_DEADLOCK FALSE
