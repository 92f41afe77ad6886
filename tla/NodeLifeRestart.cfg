CONSTANTS
    Controllers = {c1}
    MaxStarts = 2
    MaxStops = 2
    MaxMsgs = 1
    MaxPortChanges = 0
SPECIFICATION Spec
INVARIANT RestartListens
CHECK_DEADLOCK FALSE
