SPECIFICATION MCFairSpec
CONSTANTS
    l1 = l1  l2 = l2  r1 = r1  r2 = r2  e1 = e1
    NoEvent = NoEvent
    Sources <- MCSources
    EventOf <- MCEventOf
    MaxAttempts = 2
    MaxJobs = 3
    MaxCrashes = 1
INVARIANTS
    LiveInArrivalOrder
    OneOwnerPerSource
PROPERTIES
    EndedForGood
    EveryJobEnds
CHECK_DEADLOCK FALSE
