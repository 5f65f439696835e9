CONSTANTS
    Requests = {r1, r2}
    MaxBatch = 2
    Window = 1
    Stamps = {0}
    MaxLoops = 1
    Stoppers = {p1}
    Cancellable = {}
    SwallowsCancel = FALSE
SPECIFICATION Spec
INVARIANTS
    NoRequestLost
CHECK_DEADLOCK FALSE
