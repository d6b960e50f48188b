SPECIFICATION FairSpec
CONSTANTS
    Sellers = {s1, s2}
    Confirms = {c1, c2}
    Opens = {o1}
    Buyer = Buyer
    Retries = 2
    None = None
CHECK_DEADLOCK FALSE
INVARIANT
    ConfirmsSerialise
PROPERTY
    EveryRequestEnds
