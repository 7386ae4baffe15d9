SPECIFICATION Spec
CONSTANTS
    i1 = i1
    i2 = i2
    k1 = k1
    t1 = t1
    t2 = t2
    t3 = t3
    None = None
    Ids = {i1, i2}
    Keys = {k1}
    Tokens = {t1, t2, t3}
    Requests <- ReusedIdRequests
    Responses <- FewResponses
    Packets <- FewPackets
    MaxQueued = 1
    Budget = None
    MaxTerminal = 1
    MaxEvicted = 1
    MaxFence = 0
    MaxSubmitCalls = 3
PROPERTIES
    CancelledTicketNeverInstalls
