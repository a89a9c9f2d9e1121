SPECIFICATION Spec
CONSTANTS
    Nodes = 2
    StopPolls = 3
    InsistAt = 1
    StartPolls = 2
    MaxBuild = 3
    MaxLaunches = 4
    MaxFaults = 1
INVARIANTS
    NeverTwo
    AcceptedRunsThisBuild
    MissingWereAsked
CHECK_DEADLOCK FALSE
