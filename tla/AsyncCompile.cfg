SPECIFICATION Spec
CONSTANTS
    i1 = i1
    i2 = i2
    k1 = k1
    t1 = t1
    t2 = t2
    t3 = t3
    None = None
    Ids = {i1, i2}
    Keys = {k1}
    Tokens = {t1, t2, t3}
    Requests <- MCRequests
    Responses <- FewResponses
    Packets <- FewPackets
    MaxQueued = 1
    Budget = 3
    MaxTerminal = 1
    MaxEvicted = 1
    MaxFence = 2
    MaxSubmitCalls = 4
INVARIANTS
    TypeOK
    OnePlacePerId
    SingleFlight
    RecordsFollowRequests
    BoundedRetention
PROPERTIES
    TerminalNeverChanges
    NoLateInstall
