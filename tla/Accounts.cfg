CONSTANTS
    Registrants = {r1, r2, r3}
    Forms <- MCForms
    Editors = {e1, e2}
    Unset = unset
    Holders = {h1, h2}
    Addresses = {a1}
    Visits = {v1, v2}
    Nobody = nobody
    Members = {u1}
    Admin = admin
    ApiKeys = {k1}
    Writers = {w1, w2}
    AccessLife = 1
    RefreshLife = 2
    Horizon = 5
    MaxTokens = 3
SPECIFICATION Spec
INVARIANTS OneAccountPerKey AccessBounded
PROPERTIES AloneIsAtomic ChecksHoldWhenMade EveryRegistrationEnds
CHECK_DEADLOCK FALSE
