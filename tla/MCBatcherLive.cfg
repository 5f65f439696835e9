CONSTANTS
    Requests = {r1, r2, r3}
    MaxBatch = 2
    Window = 1
    Stamps <- StampedByCallers
    MaxLoops = 2
    Stoppers = {p1}
    Cancellable = {p1}
    SwallowsCancel = FALSE
SPECIFICATION FairSpec
PROPERTIES
    EveryRequestAnswered
    NoRequestStuck
    StopReturns
CHECK_DEADLOCK FALSE
