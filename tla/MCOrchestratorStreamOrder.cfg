CONSTANTS
    N = 2
    Routable <- AllRoutable
SPECIFICATION Spec
PROPERTIES
    StreamedAsFinished
CHECK_DEADLOCK FALSE
