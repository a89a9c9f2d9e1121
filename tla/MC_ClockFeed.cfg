SPECIFICATION Spec
CONSTANTS
    LogMax = 2
    Stations = {TRUE, FALSE}
    References = {"sender", "hearer"}
    Chunk = 3
    MaxGap = 2
    MaxSkew = 0
    Window = 4
    MinSamples = 2
    MaxAge = 1
    SeenMax = 3
    Ages = {7}
    Backlog = 0
    MaxNow = 7
    MaxResets = 2
    MaxFaults = 1
CHECK_DEADLOCK FALSE
INVARIANTS
    WindowSound
    FitRecovers
    AnchorRecovers
    NeverTooFar
    UnsentIsOffered
PROPERTIES
    NeverSentTwice
