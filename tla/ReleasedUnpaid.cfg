\* A release by the platform wallet, which pays nobody.
SPECIFICATION Spec
CONSTANTS
    Amount = 3
    PlainAmount = 2
    Requests = {r1}
    Operations <- AllEndpoints
    MaxApps = 1
    MaxCalls = 4
INVARIANTS
    ReleasedMeansPaid
