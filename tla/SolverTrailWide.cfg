SPECIFICATION Spec
CONSTANTS
    None = None
    NVars = 5
    MaxLemmas = 2000
    LemmaStep = 300
    KeepBelow = 6
    ScratchReserve = 64
    Instances <- WideAtRoot
INVARIANTS
    VerdictIsRight
