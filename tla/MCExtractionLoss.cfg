SPECIFICATION Spec
CONSTANTS
    MaxRecords = 4
    Windows = {1, 2, 3}
    WindowOf <- MCWindowOf
    MaxRead = 3
    MaxAttempts = 2
    MaxRequests = 0
    MaxFaults = 0
INVARIANT
    ObservationsSurvive
CHECK_DEADLOCK FALSE
