SPECIFICATION Spec
CONSTANTS
    Requests = {r1, r2}
    None = None
    Prices = {100, 150}
    Words = {"", "REJECTED"}
    MAX_ROUNDS = 4
    STALL_ROUNDS = 1
    MAX_SCHEMA_FAILURES = 2
    StallThreshold = 3
    MaxOffers = 3
INVARIANT
    AgreedMeansConverged
CHECK_DEADLOCK FALSE
