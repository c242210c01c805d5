SPECIFICATION FairSpec
CONSTANTS
    a1 = a1
    a2 = a2
    g1 = g1
    r1 = r1
    r2 = r2
    r3 = r3
    default = default
    Apis = {a1, a2}
    Agents = {g1}
    Requests = {r1}
    Default = default
    MaxFaults = 0
PROPERTY ChangeReachesAgents
