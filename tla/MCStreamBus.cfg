CONSTANTS
    Sizes = {1, 2, 3}
    Policies = {"drop_oldest", "drop_newest"}
    MaxEvents = 9
SPECIFICATION FairSpec
INVARIANTS
    TypeOK
    LossAccounted
    Freshness
PROPERTIES
    ChannelSpec
    SubscriberEnds
CHECK_DEADLOCK FALSE
