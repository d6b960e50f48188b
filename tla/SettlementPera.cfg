\* The Pera wallet's endpoints and the administrator's, three requests in flight:
\* two rejections and a deployment are one more than two.
SPECIFICATION Spec
CONSTANTS
    Amount = 3
    PlainAmount = 2
    Requests = {r1, r2, r3}
    Operations <- PeraFlow
    MaxApps = 2
    MaxCalls = 4
SYMMETRY Symmetry
INVARIANTS
    NeverAheadOfChain
PROPERTIES
    ContractSerialises
