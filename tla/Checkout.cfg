SPECIFICATION FairSpec
CONSTANTS
    Clients = {c1, c2}
    Keys = {k1, k2}
    Carts = {x, y}
    PaymentIds = {p1, p2}
    None = None
INVARIANTS
    TypeOK
    ChargedOnce
    PaidIsKnown
    PageShowsOwnIntent
PROPERTIES
    KeepsPromise
    KeyIsReleased
