SPECIFICATION FairSpec
CONSTANTS
    None = None
    t1 = t1
    t2 = t2
    p1 = p1
    p2 = p2
    q1 = q1
    q2 = q2
    Warm = Warm
    Threads <- MCThreads
    Paths <- MCPaths
    DefaultPath = p1
    Queries <- MCQueries
    Unsat <- MCUnsat
    Modelled <- MCModelled
    Envs <- MCEnvs
    BlockAfter = 1
    MaxReplacements = 1
    MaxLines = 1
    MaxDischarges = 2
INVARIANTS TypeOK VerifiedIsUnsat WindowsNeverMix RecorderSeesFreshRuns HashOnce
PROPERTY EveryDischargeEnds
\* Every discharge may have returned.
CHECK_DEADLOCK FALSE
