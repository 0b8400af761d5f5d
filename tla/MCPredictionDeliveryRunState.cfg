SPECIFICATION Spec
CONSTANTS
    b1 = b1  s1 = s1  s2 = s2
    Batches = {b1}
    NoBatch = NoBatch
    Slots = {s1, s2}
    NoSlot = NoSlot
    MaxAttempts = 2
    MaxRuns = 1
    MaxCrashes = 0
INVARIANT
    RunStateTellsDelivery
CHECK_DEADLOCK FALSE
