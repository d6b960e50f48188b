\* Every operation, one request at a time.
SPECIFICATION Spec
CONSTANTS
    Amount = 3
    PlainAmount = 2
    Requests = {r1}
    Operations <- AllOperations
    MaxApps = 2
    MaxCalls = 5
INVARIANTS
    SettledOnce
PROPERTIES
    TerminalIsFinal
