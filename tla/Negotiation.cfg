SPECIFICATION Spec
CONSTANTS
    Requests = {r1, r2}
    None = None
    Prices = {100, 150}
    Words = {"", "REJECTED"}
    MAX_ROUNDS = 4
    STALL_ROUNDS = 1
    MAX_SCHEMA_FAILURES = 2
    StallThreshold = 3
    MaxOffers = 3
SYMMETRY RequestSymmetry
INVARIANTS
    RoundsHaveOffers
    AgreedAtAnOffer
    EscrowFromOffer
PROPERTIES
    OnlyStaleReopens
CHECK_DEADLOCK FALSE
