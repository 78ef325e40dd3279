CONSTANTS
    Workers = {w1, w2}
    Addr = {a1, a2, a3, a4}
    Null = Null
    ChaosDatabase = TRUE
    MaxId = 2
SPECIFICATION Spec
SYMMETRY MCSymmetry
INVARIANTS
    TypeOK
    NoUseAfterFree
    PlannerOnSnapshot
    SnapshotComplete
    ConnectionFlagCarried
PROPERTIES
    NoInterruption
    SnapshotStable
    AtomicSnapshots
