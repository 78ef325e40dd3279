CONSTANTS
    ChaosIds = {c}
    KirinIds = {k}
    AutocompleteIds = {k}
    InitialDisk = 1
    RealtimeEnabled = TRUE
    QueuesExpire = FALSE
    ApplyMayThrow = FALSE
    MaxUpdates = 1
    MaxDisk = 2
    MaxOutages = 0
    MaxFailures = 1
SPECIFICATION Spec
INVARIANT FailedLoadReported
