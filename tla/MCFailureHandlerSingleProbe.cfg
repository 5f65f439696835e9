CONSTANTS
    Callers = {c1, c2}
    MaxRetries = 1
    Threshold = 2
    Cooldown = 1
    BaseDelay = 0
    Wirings = {TRUE}
SPECIFICATION Spec
PROPERTIES
    SingleProbe
