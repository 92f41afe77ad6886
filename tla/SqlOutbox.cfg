CONSTANTS
    r1 = r1  r2 = r2  ch1 = ch1  ch2 = ch2
    Readers = {r1, r2}
    Channels = {ch1, ch2}
    OddNames = {ch2}
    Subscribed <- MCSubscribed
    Senders = {s1, s2}
    Sizes = {2, 6}
    BulkLengths = {0, 2}
    MaxBytes = 4
    MaxAge = 0
    MaxTime = 2
    MaxMsgs = 3
    MaxFaults = 1
SPECIFICATION FairSpec
INVARIANT SkippedOnlyBehind
PROPERTY Drained
CHECK_DEADLOCK FALSE
