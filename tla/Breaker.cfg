SPECIFICATION FairSpec
CONSTANTS
    Callers = {c1, c2, c3}
    FailureWindow = 4
    FailureThreshold = 2
    HalfOpenMaxProbes = 2
INVARIANTS
    TypeOK
    ClosedIsBelowThreshold
    ProbesAreCounted
PROPERTIES
    FollowsTable
    OpensForNewFailures
    TrialEnds
