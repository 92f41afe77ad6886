CONSTANTS
    m1 = m1  m2 = m2
    Messages = {m1, m2}
    Size <- TwoChunks
    StreamID <- Distinct
    IDs = {1, 2}
    Limits = {2, 6, 7}
    MaxChunk = 100
    Overhead = 1
    ChunkHeader = 2
    Word = 128
    OutCap = 1
    Stores = {"map", "db", "ql"}
    EarlyTraffic = TRUE
    MaxCrashes = 1
    MaxStarts = 2
    MaxLimits = 1
SPECIFICATION FairStreamSpec
INVARIANTS WholeMessages OncePerStream CountsAreRight
PROPERTY Delivered
CHECK_DEADLOCK FALSE
