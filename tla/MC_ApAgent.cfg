SPECIFICATION FairSpec
CONSTANTS
    Keys = {k1, k2, k3}
    Shots = 2
    Memory = 2
    MaxInbox = 2
    MaxCommands = 3
INVARIANTS
    RecordInStep
PROPERTIES
    SilentWhileWedged
    FiresOnce
    EveryFireAnswered
CHECK_DEADLOCK FALSE
