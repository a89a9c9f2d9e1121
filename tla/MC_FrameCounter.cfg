SPECIFICATION Spec
CONSTANTS
    Runs = {r1, r2, r3}
    NoRun = NoRun
    Aps = {a1}
    Idxs = {0, 1}
    Modulus = 5
    SeqRetain = 2
    RunRetain = 2
    MaxOrdinal = 4
    MaxOther = 1
SYMMETRY MCSymmetry
INVARIANTS
    RunMemory
    WindowBounded
    BarrierExcludesPast
    FullMeansNothingForgotten
PROPERTY
    NeverRedated
