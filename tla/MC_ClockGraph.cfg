SPECIFICATION GraphSpec
CONSTANTS
    a = a
    b = b
    c = c
    rx = rx
    Clocks = {a, b, c}
    Ref = a
    Relations <- AllRelations
    Errors = {0, 9}
    NoFit = NoFit
    MaxHeard = 4
    MaxResets = 1
INVARIANTS
    TwoObserversCorroborate
    OneWrongIsSeen
CHECK_DEADLOCK FALSE
