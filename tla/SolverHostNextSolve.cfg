\* A divergence after the warm-up panics.
CHECK_DEADLOCK FALSE
SPECIFICATION HostSpec
CONSTANTS
    None = None
    c1 = c1
    c2 = c2
    c3 = c3
    Clauses <- MCClauses
    Formulas <- MCFormulas
    Hash <- MCHash
    MaxEntries = 2
    MaxBuilds = 4
    Kernel = "watched-literal"
    ShadowMode = TRUE
    PrimaryMode = TRUE
    Warmup = 1
INVARIANT KernelRunsThisFormula
