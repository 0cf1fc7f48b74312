SPECIFICATION Spec
CONSTANTS
    c1 = c1
    c2 = c2
    k1 = k1
    k2 = k2
    w1 = w1
    w2 = w2
    Capabilities = {c1, c2}
    Imported = {}
    Asks <- MCAsks
    Clients = {k1}
    Workers = {w1, w2}
    MaxRequests = 1
    Faults = {}
    MaxFaults = 0
INVARIANT FilledIsAvailable
CHECK_DEADLOCK FALSE
