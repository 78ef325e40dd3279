CONSTANT
    Scenarios = {"jobs", "managers", "direct managers", "kraken", "statistics", "limiter", "realtime", "vehicles"}
SPECIFICATION FairSpec
CHECK_DEADLOCK FALSE
PROPERTIES
    JobsEnd
    EventuallyCurrent
    
