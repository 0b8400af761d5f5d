SPECIFICATION FairSpec
CONSTANTS
    MaxRecords = 4
    Windows = {1, 2, 3}
    WindowOf <- MCWindowOf
    MaxRead = 3
    MaxAttempts = 2
    MaxRequests = 1
    MaxFaults = 2
INVARIANTS
    TypeOK
    LossOnlyByStraddling
    BlocksOnlyAfterFault
    PublishedIsHandedOff
PROPERTIES
    EverythingIsRead
    ClosedIsPublished
CHECK_DEADLOCK FALSE
