SPECIFICATION Spec
CONSTANTS
    a1 = a1  a2 = a2  b1 = b1
    w1 = w1  w2 = w2
    NoRow = NoRow
    NoWorker = NoWorker
    Rows <- MCRows
    Workers = {w1, w2}
    ActionOf <- MCActionOf
    StreamOf <- MCStreamOf
    Version <- MCVersion
    CreatedRank <- MCCreatedRank
    Handles <- MCHandles
    MaxAttempts = 2
    MaxReplays = 1
INVARIANTS
    AccountsForDelivery
PROPERTIES
    OnlyTheHolderSettles
    DeliversInOrder
SYMMETRY Symmetry
CHECK_DEADLOCK FALSE
