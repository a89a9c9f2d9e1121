SPECIFICATION FairSpec
CONSTANTS
    Targets = {0, 4, 9}
    LeadMax = 5
    Fine = 2
    DrainMax = 2
    Pool = 3
    MayStop = TRUE
    MaxTsf = 12
    MaxTriggers = 1
    MaxResets = 0
CHECK_DEADLOCK FALSE
PROPERTIES
    EveryTriggerAnswered
