CONSTANTS
    Tellers = {t1, t2}
    Amounts = {1}
    Rates = {fx1}
    Stub = stub
    Callers = {c1, c2}
    FailureThreshold = 2
    SuccessThreshold = 2
    Tasks = {k1, k2, k3}
    Unregistered = {k3}
    Workers = {w1, w2}
    MaxRetries = 3
    MaxDeaths = 1
    Idle = idle
    Arrivals = {a1, a2, a3}
    Limit = 1
    Window = 2
    LastSecond = 4
    Buys = {b1, b2}
    Sells = {b3}
    Submissions <- MCSubmissions
    Companies = {"x", "y"}
    CompanyOf <- MCCompanyOf
    Hooks = {h1}
    OrderAttempts = 2
    HookAttempts = 2
    CircuitThreshold = 2
    MaxResets = 1
    Edits = {e1, e2}
    Recomputes = {e3}
    Empty = empty
    Exports <- MCExports
    Wanted <- MCWanted
    Profiles <- MCProfiles
    Asks = {1, 700, 1100}
    MaxRounds = 5
    Ramp <- MCRamp
    MAX_SCHEMA_FAILURES = 3
    NoPrice = noprice
    Viewers = {v1}
    MaxKept = 2
    MaxPublished = 4
    Worths <- MCWorths
    Traders <- MCTraders
    Leaves = {"a", "b"}
    MaxLeaves = 6
SPECIFICATION Spec
INVARIANTS EveryTaskAccounted AtMostTwice EmbeddingIsCurrent LastEditStands ArchiveIsWhole CountersWithinLimits ShownInOrder RecordsAddUp RootCommits
PROPERTIES PaysAlone ClosedForGood CircuitEarned CircuitCloses
CHECK_DEADLOCK FALSE
