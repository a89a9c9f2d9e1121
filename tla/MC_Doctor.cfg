SPECIFICATION SpecDoctor
CONSTANTS
    a = a
    b = b
    c = c
    rx = rx
    Clocks = {a, b, c}
    Ref = a
    Relations <- MCRelations
    Errors = {0, 9}
    NoFit = NoFit
    MaxHeard = 4
    MaxResets = 1
    Plans <- SingleOrPair
    Sync = "beacon"
    BiasLimit = 4
    PathLimit = 4
    StabilityLimit = 4
    Outlier = 50
    MaxChanges = 1
    Before <- ThreeOfPair
INVARIANTS
    ReachesAll
    WrongIsSeen
    ReportComplete
    PassMeansCoincided
CHECK_DEADLOCK FALSE
