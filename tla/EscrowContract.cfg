SPECIFICATION Spec
CONSTANTS
    Amount = 2
    Buyer = buyer
    Seller = seller
    Creator = creator
    Accounts = {buyer, seller, creator, stranger}
    Payments <- SmallPayments
    MaxPaidIn = 15
INVARIANTS
    PaidOutOnce
    Solvent
PROPERTIES
    KeepsPromise
