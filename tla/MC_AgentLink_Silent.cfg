SPECIFICATION Spec
CONSTANTS
    MaxBreaks = 3
    MaxCommands = 3
PROPERTY
    ServedAgainAlways
CHECK_DEADLOCK FALSE
