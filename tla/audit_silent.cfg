SPECIFICATION AuditSpec
CONSTANTS
    Audited = {a1}
    Seeded = {}
    Auditors = {b1, b2}
    Callers = {}
    AuditTags = {1, 2}
    NoAuditTag = NoAuditTag
    NoAudit = NoAudit
    Locked = {}
    Units = 2
    Quota = 0
    Cap = 5
    AuditFaults = {}
    MaxAuditFaults = 0
PROPERTY EndedAuditHasStatus
CHECK_DEADLOCK FALSE
