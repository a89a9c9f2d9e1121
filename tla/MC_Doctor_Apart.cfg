SPECIFICATION SpecDoctor
CONSTANTS
    a = a
    b = b
    c = c
    rx = rx
    Clocks = {a, b, c}
    Ref = a
    Relations <- TripleRelations
    Errors = {0, 99}
    NoFit = NoFit
    MaxHeard = 4
    MaxResets = 0
    Plans <- Triple
    Sync = "beacon"
    BiasLimit = 4
    PathLimit = 4
    StabilityLimit = 4
    Outlier = 50
    MaxChanges = 1
    Before <- AllOfTriple
INVARIANTS
    PassMeansCoincided
CHECK_DEADLOCK FALSE
