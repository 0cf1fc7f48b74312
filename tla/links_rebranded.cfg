SPECIFICATION LinkSpec
CONSTANTS
    Shared = {s1}
    Looks = {l1, l2}
    Keys = {}
    Handlers = {h1}
    NoShared = NoShared
    Missing = Missing
    LinkFaults = {}
    MaxLinkFaults = 0
    MaxVisits = 2
INVARIANT LinkKeepsItsLook
CHECK_DEADLOCK FALSE
