SPECIFICATION FairSpec
CONSTANTS
    a1 = a1  a2 = a2  b1 = b1
    w1 = w1  w2 = w2
    NoRow = NoRow
    NoWorker = NoWorker
    Rows <- LiveRows
    Workers = {w1, w2}
    ActionOf <- LiveActionOf
    StreamOf <- LiveStreamOf
    Version <- LiveVersion
    CreatedRank <- LiveCreatedRank
    Handles <- LiveHandles
    MaxAttempts = 2
    MaxReplays = 1
PROPERTY
    HeadSettlesOrStrands
CHECK_DEADLOCK FALSE
