CONSTANTS
    ChaosIds = {c}
    KirinIds = {k}
    AutocompleteIds = {k}
    InitialDisk = 1
    RealtimeEnabled = TRUE
    QueuesExpire = FALSE
    ApplyMayThrow = TRUE
    MaxUpdates = 2
    MaxDisk = 2
    MaxOutages = 1
    MaxFailures = 0
SPECIFICATION FairSpec
PROPERTIES
    EventuallyConsistent
    ReloadObeyed
    Recovers
