SPECIFICATION FairSpec
CONSTANTS
    b1 = b1  s1 = s1  s2 = s2
    Batches = {b1}
    NoBatch = NoBatch
    Slots = {s1, s2}
    NoSlot = NoSlot
    MaxAttempts = 2
    MaxRuns = 2
    MaxCrashes = 2
INVARIANTS
    SentIsInBackend
    CompletedRunIsPublished
PROPERTIES
    SettledForGood
    EveryBatchSettles
    RefinesReceipt
CHECK_DEADLOCK FALSE
