SPECIFICATION SpecRound
CONSTANTS
    Runs = {r1}
    NoRun = NoRun
    Plan = {a1, a2}
    Aps = {a1}
    Idxs = {0}
    Modulus = 9
    SeqRetain = 4
    RunRetain = 2
    MaxOrdinal = 3
    MaxOther = 1
    Shots = 1
    Late = {a1}
    Orderly = TRUE
    Misses = TRUE
    Power = {TRUE}
    MaxRounds = 1
    MaxRestarts = 0
    MaxResets = 0
CHECK_DEADLOCK FALSE
INVARIANTS
    ShortfallIsLoss
