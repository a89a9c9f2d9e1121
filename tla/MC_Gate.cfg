SPECIFICATION FairSpec
CONSTANTS
    Targets = {0, 4, 9}
    LeadMax = 5
    Fine = 2
    DrainMax = 2
    Pool = 3
    MayStop = TRUE
    MaxTsf = 12
    MaxTriggers = 3
    MaxResets = 2
CHECK_DEADLOCK FALSE
INVARIANTS
    RadioRestored
    PoolConserved
    AnswerHonest
    LeadKept
PROPERTIES
    AnsweredWhileClockRuns
