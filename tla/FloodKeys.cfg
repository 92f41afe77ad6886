CONSTANTS
    a = a  b = b  c = c  m1 = m1  m2 = m2  ch = ch  ch2 = ch2  priv = priv
    Nodes = {a, b}
    Links <- Pair
    Msgs = {m1, m2}
    Channels = {ch}
    Private = priv
    Origin <- PairOrigin
    Chan <- MCChan
    Dest <- PairDest
    Keys <- EveryKey
    Router <- Default
    To <- Unpatched
    NewKeys = TRUE
    OutMayFill = TRUE
    MaxFails = 0
    MaxRestarts = 1
    MaxFlushes = 0
SPECIFICATION FairSpec
PROPERTY ExchangedWithOldKeys
