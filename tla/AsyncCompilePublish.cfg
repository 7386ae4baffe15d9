SPECIFICATION FairSpec
CONSTANTS
    i1 = i1
    i2 = i2
    k1 = k1
    t1 = t1
    t2 = t2
    t3 = t3
    None = None
    Ids = {i1, i2}
    Keys = {k1}
    Tokens = {t1, t2, t3}
    Requests <- PublishRequests
    Responses <- MCResponses
    Packets <- MCPackets
    MaxQueued = 2
    Budget = None
    MaxTerminal = 1
    MaxEvicted = 1
    MaxFence = 1
    MaxSubmitCalls = 2
INVARIANTS
    BlockersExplainRejections
    InstallablePollAgrees
PROPERTIES
    EveryRequestEnds
