SPECIFICATION Spec
CONSTANTS
    None = None
    Torn = Torn
    Bogus = Bogus
    t1 = t1
    t2 = t2
    q1 = q1
    Threads = {t1, t2}
    Queries = {q1}
    Provable = {q1}
    NumCheckers = 2
    Capable = {1, 2}
    NumSolvers = 2
    Foreign <- MCForeign
    MaxCalls = 3
    MaxFaults = 1
SYMMETRY Sym
INVARIANTS
    AcceptedWasChecked
    CapabilityIsOfBytes
    PublishedWasVerified
\* Every call may have returned.
CHECK_DEADLOCK FALSE
