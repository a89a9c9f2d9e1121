SPECIFICATION SpecRound
CONSTANTS
    Runs = {r1}
    NoRun = NoRun
    Plan = {a1}
    Aps = {a1}
    Idxs = {0}
    Modulus = 9
    SeqRetain = 4
    RunRetain = 2
    MaxOrdinal = 3
    MaxOther = 1
    Shots = 2
    Late = {}
    Orderly = TRUE
    Misses = TRUE
    Power = {TRUE}
    MaxRounds = 2
    MaxRestarts = 1
    MaxResets = 0
CHECK_DEADLOCK FALSE
INVARIANTS
    ShortfallIsLoss
