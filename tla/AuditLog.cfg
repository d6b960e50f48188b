\* Four handlers at once, two of them of a release, any of which may fail, and a
\* client that reads two entries a page.
SPECIFICATION WalkSpec
CONSTANTS
    Events = {funded, frozen, released1, released2}
    Releases = {released1, released2}
    None = None
    Limit = 2
INVARIANTS
    VerifierAccepts
    NothingRefused
    RecordsOfOneRelease
    PagesComplete
PROPERTIES
    OnlyAppends
    EveryHandlerEnds
