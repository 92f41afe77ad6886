CONSTANTS
    a = a  b = b  c = c  m1 = m1  m2 = m2  ch = ch  ch2 = ch2  priv = priv
    Nodes = {a, b, c}
    Links <- Star
    Msgs = {m1, m2}
    Channels = {ch}
    Private = priv
    Origin <- StarOrigin
    Chan <- MCChan
    Dest <- StarDest
    Keys <- KeysButB
    Router <- Default
    To <- Unpatched
    NewKeys = FALSE
    OutMayFill = FALSE
    MaxFails = 1
    MaxRestarts = 0
    MaxFlushes = 0
SPECIFICATION FairSpec
INVARIANT AtMostOnce
PROPERTY Spread
