SPECIFICATION FairSpec
CONSTANTS
    None = None
    NVars = 4
    MaxLemmas = 1
    LemmaStep = 1
    KeepBelow = 2
    ScratchReserve = 9
    Instances <- MCInstances
INVARIANTS
    VerdictIsRight
    LemmasFollow
PROPERTIES
    EverySolveEnds
