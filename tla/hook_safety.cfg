SPECIFICATION FairSpec
CONSTANTS
    v1 = v1
    v2 = v2
    e1 = e1
    e2 = e2
    Events = {v1}
    Endpoints = {e1, e2}
    Deliveries <- MCDeliveries
    Committed = {v1}
    Patched = {e1}
    Budgets = {2}
    NoBudget = NoBudget
    DefaultBudget = 0
    Ceiling = 1
    Faults = {"crash", "emitter", "db", "broker"}
    MaxFaults = 1
INVARIANT AnsweredOnce   EveryEndpointIsTried
PROPERTY  DispatchEnds
CHECK_DEADLOCK FALSE
