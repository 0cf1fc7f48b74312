SPECIFICATION Spec
CONSTANTS
    v1 = v1
    v2 = v2
    e1 = e1
    e2 = e2
    Events = {v1}
    Endpoints = {e1}
    Deliveries <- OneDelivery
    Committed = {v1}
    Patched = {e1}
    Budgets = {0}
    NoBudget = NoBudget
    DefaultBudget = 1
    Ceiling = 2
    Faults = {}
    MaxFaults = 0
INVARIANT FinalStatusIsAudited
CHECK_DEADLOCK FALSE
