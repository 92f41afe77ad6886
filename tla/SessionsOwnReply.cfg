CONSTANTS
    Callers = {c1, c2}
    Calls <- MCCalls
    Overlap = TRUE
    MaxCalls = 2
    MaxFaults = 1
    MaxTurns = 2
SPECIFICATION FairSpec
INVARIANT OwnReply
CHECK_DEADLOCK FALSE
