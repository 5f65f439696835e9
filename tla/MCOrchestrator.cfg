CONSTANTS
    N = 4
    Routable <- LastUnroutable
SPECIFICATION FairSpec
INVARIANTS
    TypeOK
    ContextComplete
    RootCause
    StreamLedger
    CausalStream
PROPERTIES
    OutcomeFinal
    LifecycleSpec
    Termination
CHECK_DEADLOCK FALSE
