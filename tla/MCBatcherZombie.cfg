CONSTANTS
    Requests = {r1, r2, r3}
    MaxBatch = 3
    Window = 1
    Stamps = {0}
    MaxLoops = 2
    Stoppers = {p1}
    Cancellable = {}
    SwallowsCancel = TRUE
SPECIFICATION FairSpec
PROPERTIES
    StopReturns
CHECK_DEADLOCK FALSE
