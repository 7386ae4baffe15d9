SPECIFICATION FairSpec
CONSTANTS
    None = None
    t1 = t1
    t2 = t2
    p1 = p1
    p2 = p2
    q1 = q1
    q2 = q2
    Warm = Warm
    Threads <- MCThreads
    Paths <- MCPaths
    DefaultPath = p1
    Queries <- MCQueries
    Unsat <- MCUnsat
    Modelled <- MCModelled
    Envs <- FullPipe
    BlockAfter = 1
    MaxReplacements = 1
    MaxLines = 2
    MaxDischarges = 2
PROPERTY EveryDischargeEnds
\* Every discharge may have returned.
CHECK_DEADLOCK FALSE
