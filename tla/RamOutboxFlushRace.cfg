CONSTANTS
    r1 = r1  r2 = r2  ch1 = ch1  ch2 = ch2
    Readers = {r1, r2}
    Channels = {ch1, ch2}
    Subscribed <- MCSubscribed
    Writers = {w1, w2}
    Sizes = {1, 3}
    MaxBytes = 3
    MaxAge = 1
    MaxTime = 5
    MaxMsgs = 3
SPECIFICATION Spec

PROPERTY NoFreshLost
