SPECIFICATION SpecRound
CONSTANTS
    Runs = {r1, r2}
    NoRun = NoRun
    Plan = {a1}
    Aps = {a1}
    Idxs = {0}
    Modulus = 9
    SeqRetain = 4
    RunRetain = 2
    MaxOrdinal = 3
    MaxOther = 1
    Shots = 1
    Late = {}
    Orderly = TRUE
    Misses = FALSE
    Power = {TRUE}
    MaxRounds = 3
    MaxRestarts = 1
    MaxResets = 0
CHECK_DEADLOCK FALSE
SYMMETRY MCSymmetry
INVARIANTS
    NothingHeardLost
    BarrierHeals
