SPECIFICATION FairSpec
CONSTANTS
    MaxRequests = 2
    MaxPings = 1
    MaxPublishes = 1
CHECK_DEADLOCK FALSE
INVARIANTS
    OwnReply
    NoEntryLeft
    NobodyLeftWaiting
PROPERTIES
    BreakNoticed
