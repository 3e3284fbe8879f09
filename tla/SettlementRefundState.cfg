SPECIFICATION Spec
CONSTANTS
    Payments = {p1}
    Admins = {a1, a2}
    Amount = 3
    RefundAmounts = {1, 2}
    MaxInt = 7
    MaxRetries = 3
    ListLimit = 4
    NoPayment = NoPayment
    MayAbandon = FALSE
INVARIANT
    RefundedOnlyIfCaptured
CHECK_DEADLOCK FALSE
