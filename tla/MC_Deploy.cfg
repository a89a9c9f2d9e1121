SPECIFICATION Spec
CONSTANTS
    Nodes = 2
    StopPolls = 3
    InsistAt = 1
    StartPolls = 2
    MaxBuild = 3
    MaxLaunches = 5
    MaxFaults = 4
INVARIANTS
    OneAgent
    RunsWhole
CHECK_DEADLOCK FALSE
