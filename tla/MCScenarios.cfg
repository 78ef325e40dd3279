CONSTANT
    Scenarios = {"loop", "filters", "modes", "culling", "services", "fallbacks", "one greenlet", "poi", "direct", "transfer"}
SPECIFICATION Spec
INVARIANTS
    BestAnswer
    JourneysAreWhole
