CONSTANTS
    p = p  q = q
    Peers = {p, q}
    Groups <- TwoGroups
    Loops = {1, 2}
    RetryAttempts = 2
    FlushEvery = 2
    Hasty = FALSE
    MaxRuns = 2
    MaxChanges = 2
SPECIFICATION PollFairSpec
INVARIANT OneLoop
PROPERTIES StopReturns FailOver Flushes
CHECK_DEADLOCK FALSE
