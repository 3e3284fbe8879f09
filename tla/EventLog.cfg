SPECIFICATION FairSpec
CONSTANTS
    Subscribers = {s1, s2}
    BufSize = 1
    Events = {1, 2}
    Batch = 2
    MaxRetries = 2
    Backoff <- DefaultBackoff
    MaxFaults = 1
INVARIANTS
    TypeOK
    NoSendOnClosed
    GapsAreOwnDrops
PROPERTIES
    DoneIsAnnounced
    KeepsPromise
    PendingIsFinished
    ShutdownEnds
CHECK_DEADLOCK FALSE
