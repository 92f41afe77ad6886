CONSTANTS
    root = root  front = front  back = back
    Root = root
    Channels = {back}
    Rank <- MCRankBack
    Writers = {w1, w2}
    Readers = {r1}
    Sizes = {1, 3}
    MaxBytes = 2
    MaxAge = 1
    MaxTime = 4
    MaxMsgs = 3
    MaxCrashes = 1
SPECIFICATION Spec
INVARIANTS TypeOK BatchFits
PROPERTIES InOrder SkippedOnlyBehind
CHECK_DEADLOCK FALSE
