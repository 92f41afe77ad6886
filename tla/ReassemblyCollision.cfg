CONSTANTS
    m1 = m1  m2 = m2
    Messages = {m1, m2}
    Size <- LongSize
    StreamID <- Colliding
    IDs = {1, 2}
    Limits = {5, 6}
    MaxChunk = 100
    Overhead = 1
    ChunkHeader = 2
    Word = 128
    OutCap = 2
    Stores = {"map"}
    EarlyTraffic = FALSE
    MaxCrashes = 0
    MaxStarts = 1
    MaxLimits = 0
SPECIFICATION StreamSpec
INVARIANT CountsAreRight

CHECK_DEADLOCK FALSE
