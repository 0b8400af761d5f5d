SPECIFICATION HandoffFairSpec
CONSTANTS
    h1 = h1  t1 = t1  loop = loop
    Sources = {h1}
    EventOf <- MCEventOf
    Threads = {t1}
    Loop = loop
    MaxHandoffRetries = 2
    MaxPublications = 2
    MaxRetries = 1
    MaxFaults = 2
    NoEvent = NoEvent
    MaxAttempts = 1
    MaxJobs = 2
    MaxCrashes = 2
INVARIANTS
    EnqueuedHasOneJob
    GivenUpIsQueued
PROPERTIES
    EveryDatasetIsProcessed
CHECK_DEADLOCK FALSE
