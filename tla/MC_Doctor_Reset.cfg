SPECIFICATION SpecDoctor
CONSTANTS
    a = a
    b = b
    c = c
    rx = rx
    Clocks = {a, b, c}
    Ref = a
    Relations <- PairRelations
    Errors = {0}
    NoFit = NoFit
    MaxHeard = 4
    MaxResets = 1
    Plans <- JustPair
    Sync = "beacon"
    BiasLimit = 4
    PathLimit = 4
    StabilityLimit = 4
    Outlier = 50
    MaxChanges = 2
    Before <- BothWays
INVARIANTS
    PassMeansCompared
    AlwaysReports
CHECK_DEADLOCK FALSE
