SPECIFICATION MCSpec
CONSTANTS
    Payments = {p1}
    Admins = {a1, a2}
    Amount = 2
    RefundAmounts = {1, 2, 7}
    MaxInt = 7
    MaxRetries = 3
    ListLimit = 4
    NoPayment = NoPayment
    MayAbandon = TRUE
INVARIANTS
    TypeOK
    HistoryIsPath
    RefundedMatchesState
    CapturedIsBooked
    BookedIsReal
    AtMostOneUnbookedRefund
    LedgerIsSound
    LoneRefundsAreBooked
    LostRefundIsRepeatable
    RefundsAreAudited
    DifferenceIsLostRefunds
PROPERTIES
    KeepsBooks
    CollectedIsSettled
CHECK_DEADLOCK FALSE
