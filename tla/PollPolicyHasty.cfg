CONSTANTS
    p = p  q = q
    Peers = {p, q}
    Groups <- TwoGroups
    Loops = {1, 2}
    RetryAttempts = 2
    FlushEvery = 2
    Hasty = TRUE
    MaxRuns = 2
    MaxChanges = 2
SPECIFICATION PollFairSpec
PROPERTIES StopReturns
CHECK_DEADLOCK FALSE
