\* Two requests in flight, one operation of each kind.
SPECIFICATION Spec
CONSTANTS
    Amount = 3
    PlainAmount = 2
    Requests = {r1, r2}
    Operations <- Representatives
    MaxApps = 2
    MaxCalls = 4
SYMMETRY Symmetry
INVARIANTS
    EveryTxIsReal
    PaperTrail
    ContractSettlesOnce
