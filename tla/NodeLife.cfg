CONSTANTS
    Controllers = {c1}
    MaxStarts = 3
    MaxStops = 3
    MaxMsgs = 2
    MaxPortChanges = 2
SPECIFICATION FairSpec
INVARIANTS RunningMeansListening LastMessages
PROPERTY StopReturns
CHECK_DEADLOCK FALSE
