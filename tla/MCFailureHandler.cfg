CONSTANTS
    Callers = {c1, c2}
    MaxRetries = 1
    Threshold = 3
    Cooldown = 1
    BaseDelay = 0
    Wirings = {TRUE, FALSE}
SPECIFICATION FairSpec
INVARIANTS
    TypeOK
    BreakerConsistent
    RetryBound
    GracefulDegradation
PROPERTIES
    GivesUpForCause
    DocumentedTransitions
    NoOpWhileOpen
    EveryCallEnds
    Recovers
