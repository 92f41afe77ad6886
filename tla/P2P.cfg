CONSTANTS
    Peers = {a, b}
    Ranks = {0, 1, 2}
    MaxRuns = 2
    MaxRestarts = 1
    MaxStray = 1
SPECIFICATION P2PFairSpec
INVARIANT PollersBounded
PROPERTY Paired
CHECK_DEADLOCK FALSE
