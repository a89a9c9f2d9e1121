SPECIFICATION Spec
CONSTANTS
    MaxBreaks = 3
    MaxCommands = 3
INVARIANTS
    OneHandler
    HelloMeansSubscribed
PROPERTY
    ServedAgain
CHECK_DEADLOCK FALSE
