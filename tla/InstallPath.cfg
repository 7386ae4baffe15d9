SPECIFICATION PathSpec
CONSTANTS
    None = None
    k1 = k1
    k2 = k2
    id1 = id1
    id2 = id2
    m1 = m1
    m2 = m2
    Keys = {k1}
    Artifacts = {k1, k2}
    Identities = {id1, id2}
    Outcomes <- MCOutcomes
    Packets <- MCPackets
    Generation = 1
    Markers = {m1, m2}
    MarkTo <- MCMarkTo
    Requests <- MCRequests
    Functions <- MCFunctions
    Bits <- MCBits
    MaxPasses = 2
    Products <- MCProducts
    Switches <- MCSwitches
INVARIANTS
    TypeOK
    InstallableHitHasBothGates
    MarksHold
    CompiledWasWanted
    LoweringIsFaithful
PROPERTIES
    RevivedOnlyByInsertion
    AcceptedIsAllowed
\* A request that is not compiled to be installed ends there.
CHECK_DEADLOCK FALSE
