CONSTANT
    Scenarios = {"reset"}
    FailMax = 2
    ResetTimeout = 1
    Greenlets = {"a", "b"}
    Ttl = 2
    Timeout = 1
    Apis = {"metadatas", "other"}
    MaxSockets = 3
    MaxVersion = 1
    MaxNow = 2
    MaxCalls = 2
    MaxBreaks = 1
    MaxDowns = 0
SPECIFICATION MCSpec
CHECK_DEADLOCK FALSE
INVARIANTS
    ArgsAreReset
