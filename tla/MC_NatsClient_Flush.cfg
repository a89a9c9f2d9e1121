SPECIFICATION Spec
CONSTANTS
    MaxRequests = 0
    MaxPings = 2
    MaxPublishes = 1
CHECK_DEADLOCK FALSE
INVARIANTS
    PongFlushes
