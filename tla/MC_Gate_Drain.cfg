SPECIFICATION Spec
CONSTANTS
    Targets = {0, 4, 9}
    LeadMax = 5
    Fine = 2
    DrainMax = 2
    Pool = 3
    MayStop = FALSE
    MaxTsf = 12
    MaxTriggers = 1
    MaxResets = 1
CHECK_DEADLOCK FALSE
INVARIANTS
    DrainBounded
