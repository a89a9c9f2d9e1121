SPECIFICATION SpecRounds
CONSTANTS
    Runs = {r1}
    NoRun = NoRun
    Aps = {a1, a2}
    Idxs = {0}
    Modulus = 6
    SeqRetain = 2
    RunRetain = 1
    MaxOrdinal = 4
    MaxOther = 0
    Repeats = 2
    MaxShots = 10
INVARIANTS
    NothingInflated
    NothingMissed
CHECK_DEADLOCK FALSE
