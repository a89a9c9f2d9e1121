SPECIFICATION Spec
CONSTANTS
    LogMax = 2
    Stations = {FALSE}
    Chunk = 3
    References = {"sender"}
    MaxGap = 2
    MaxSkew = 1
    Window = 4
    MinSamples = 2
    MaxAge = 2
    SeenMax = 3
    Ages = {7}
    Backlog = 1
    MaxNow = 5
    MaxResets = 0
    MaxFaults = 0
CHECK_DEADLOCK FALSE
INVARIANTS
    RowsWereHeard
