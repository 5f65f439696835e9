CONSTANTS
    N = 3
    Ids = {a, b, c, x}
SPECIFICATION FairSpec
INVARIANTS
    TypeOK
    DecidesValidity
    ColoursMeanWhatTheySay
PROPERTIES
    Decides
CHECK_DEADLOCK FALSE
