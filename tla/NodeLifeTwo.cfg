CONSTANTS
    Controllers = {c1, c2}
    MaxStarts = 2
    MaxStops = 2
    MaxMsgs = 1
    MaxPortChanges = 2
SPECIFICATION Spec
INVARIANT RunningMeansListening
CHECK_DEADLOCK FALSE
