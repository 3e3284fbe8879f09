SPECIFICATION Spec
CONSTANTS
    Clients = {c1, c2}
    Keys = {k1}
    Carts = {x, y}
    PaymentIds = {p1, p2, p3}
    None = None
INVARIANT
    ResendLands
