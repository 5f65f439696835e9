CONSTANTS
    Sizes = {1, 2, 3}
    Policies = {"drop_oldest", "drop_newest"}
    MaxEvents = 6
SPECIFICATION Spec
INVARIANTS
    LossAnnouncedByEnd
CHECK_DEADLOCK FALSE
