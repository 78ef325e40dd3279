CONSTANTS
    Workers = {w1, w2}
    Addr = {a1, a2, a3, a4}
    Null = Null
    ChaosDatabase = FALSE
    MaxId = 1
SPECIFICATION FairSpec
PROPERTIES
    RequestsAnswered
    MaintenanceReturns
