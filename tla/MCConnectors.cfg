CONSTANT
    Scenarios = {"timeo", "siri", "bss", "failing", "broken", "levels", "tokens", "car parks", "equipments", "vehicles", "offers", "late offers", "matrix", "path", "wrapped", "shared"}
SPECIFICATION Spec
CHECK_DEADLOCK FALSE
INVARIANTS
    
    VehiclesAndLiftsMatch
    OffersBelong
    

    
