CONSTANTS
    r1 = r1  r2 = r2  ch1 = ch1  ch2 = ch2
    Readers = {r1, r2}
    Channels = {ch1, ch2}
    Subscribed <- MCSubscribed
    Writers = {w1, w2}
    Sizes = {2, 6}
    MaxBytes = 4
    MaxAge = 1
    MaxTime = 4
    MaxMsgs = 3
SPECIFICATION FairSpec
INVARIANT NothingSkipped
PROPERTIES NothingTwice FlushKeepsFresh OldDropped BoxSpec
CHECK_DEADLOCK FALSE
