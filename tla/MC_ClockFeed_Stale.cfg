SPECIFICATION Spec
CONSTANTS
    LogMax = 2
    Stations = {FALSE}
    Chunk = 4
    References = {"sender"}
    MaxGap = 2
    MaxSkew = 1
    Window = 4
    MinSamples = 2
    MaxAge = 2
    SeenMax = 3
    Ages = {7}
    Backlog = 0
    MaxNow = 9
    MaxResets = 0
    MaxFaults = 1
CHECK_DEADLOCK FALSE
INVARIANTS
    AnchorAgeTrue
