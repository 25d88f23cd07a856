SPECIFICATION Spec
CONSTANTS
    r1 = r1
    r2 = r2
    r3 = r3
    NoLimit = NoLimit
    Requests <- MCRequests
    Cost <- Batches
    Capacity = 3
    Rate = 1
    Limit = 2
    Window = 2
    Early = 1
    MaxTime = 5
    MaxNaps = 2
INVARIANTS
    RollingCeiling
    RateCeiling
    LineExact
    OneNap
    NoOversleep
PROPERTY
    NobodyForgotten
