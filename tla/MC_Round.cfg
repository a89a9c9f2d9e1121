SPECIFICATION FairSpecRound
CONSTANTS
    Runs = {r1}
    NoRun = NoRun
    Plan = {a1, a2}
    Aps = {a1}
    Idxs = {0}
    Modulus = 9
    SeqRetain = 4
    RunRetain = 2
    MaxOrdinal = 3
    MaxOther = 1
    Shots = 1
    Late = {}
    Orderly = FALSE
    Misses = TRUE
    Power = {TRUE}
    MaxRounds = 2
    MaxRestarts = 1
    MaxResets = 1

INVARIANTS
    NeverInflated
    DenominatorWasConcurrent
PROPERTIES
    RoundEnds
CHECK_DEADLOCK FALSE
