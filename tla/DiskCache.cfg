\* Every process may have crashed.
CHECK_DEADLOCK FALSE
SPECIFICATION Spec
CONSTANTS
    None = None
    Partial = Partial
    Damaged = Damaged
    Procs = {p1, p2}
    NumKeys = 2
    Cap = 1
    StaleAge = 0
    MaxClock = 1
    MaxDamage = 1
    MaxFailures = 1
SYMMETRY Symmetry
INVARIANTS
    TypeOK
    NoPartialEntry
    AnswersMatchKey
    OnlySlowStoresLost
    WithinCap
PROPERTIES
    ImplementsLossyDisk
