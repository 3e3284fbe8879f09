SPECIFICATION FairSpec
CONSTANTS
    p1 = p1
    p2 = p2
    Events = {1, 2, 3}
    Payments = {p1, p2}
    PaymentOf <- MCPaymentOf
    Workers = {w1, w2}
    None = None
    Batch = 2
    MaxRetries = 2
    Backoff <- DefaultBackoff
    MaxFaults = 1
INVARIANT
    TypeOK
PROPERTIES
    KeepsPromise
    PendingIsFinished
CHECK_DEADLOCK FALSE
