CONSTANTS
    Callers = {c1, c2}
    Calls <- MCCalls
    Overlap = FALSE
    MaxCalls = 2
    MaxFaults = 1
    MaxTurns = 2
SPECIFICATION FairSpec
INVARIANTS OwnReply DoneAsAsked OneLateCall
PROPERTY RpcReturns
CHECK_DEADLOCK FALSE
