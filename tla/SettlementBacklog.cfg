SPECIFICATION FairSpec
CONSTANTS
    Payments = {p1}
    Admins = {a1}
    Amount = 3
    RefundAmounts = {1, 2}
    MaxInt = 7
    MaxRetries = 3
    ListLimit = 1
    NoPayment = NoPayment
    MayAbandon = TRUE
PROPERTY
    CollectedIsSettled
CHECK_DEADLOCK FALSE
