CONSTANTS
    ChaosIds = {c}
    KirinIds = {k}
    AutocompleteIds = {k}
    InitialDisk = 0
    RealtimeEnabled = TRUE
    QueuesExpire = TRUE
    ApplyMayThrow = TRUE
    MaxUpdates = 3
    MaxDisk = 2
    MaxOutages = 1
    MaxFailures = 0
SPECIFICATION Spec
INVARIANTS
    TypeOK
    RealtimeConverges
    BatchIsSequential
