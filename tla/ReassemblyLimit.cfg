CONSTANTS
    m1 = m1  m2 = m2
    Messages = {m1, m2}
    Size <- MCSize
    StreamID <- Distinct
    IDs = {1, 2}
    Limits = {3, 5}
    MaxChunk = 100
    Overhead = 1
    ChunkHeader = 2
    Word = 128
    OutCap = 2
    Stores = {"map"}
    EarlyTraffic = FALSE
    MaxCrashes = 0
    MaxStarts = 1
    MaxLimits = 0
SPECIFICATION StreamSpec
INVARIANT LimitsChecked

CHECK_DEADLOCK FALSE
