SPECIFICATION Spec
CONSTANTS
    Callers = {c1, c2, c3}
    FailureWindow = 4
    FailureThreshold = 2
    HalfOpenMaxProbes = 1
PROPERTY
    OnlyProbesDecide
