CONSTANTS
    Requests = {r1, r2, r3}
    MaxBatch = 2
    Window = 1
    Stamps = {0, 1}
    MaxLoops = 3
    Stoppers = {p1, p2}
    Cancellable = {p1, p2}
    SwallowsCancel = TRUE
SPECIFICATION Spec
SYMMETRY Interchangeable
INVARIANTS
    TypeOK
    SingleOwner
    FlushForCause
    OwnAnswer
PROPERTIES
    CustodySpec
CHECK_DEADLOCK FALSE
