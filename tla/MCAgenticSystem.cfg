CONSTANTS
    N = 3
    Plans <- ThreePlans
    Behaviours <- Providers
    BusSizes = {2, 6}
    MaxBatch = 2
    Window = 1
    MaxRetries = 2
    Threshold = 3
    Cooldown = 1
    BaseDelay = 1
SPECIFICATION FairSpec
INVARIANTS
    OneCallAtATime
    ConsumerSeesTheRun
    CleanExit
    FateExplained
PROPERTIES
    BackoffGrows
    DemoEnds
CHECK_DEADLOCK FALSE
