SPECIFICATION Spec
CONSTANTS
    b1 = b1  b2 = b2  b3 = b3  c1 = c1  c2 = c2  a1 = a1  a2 = a2
    v1 = v1  v2 = v2  w1 = w1  w2 = w2
    Payloads <- MCPayloads
    Batches = {b1, b2, b3}
    Contents = {c1, c2}
    Assets = {a1, a2}
    Versions = {v1, v2}
    NumEvents = 2
    AssetOf <- MCAssetOf
    VersionOf <- MCVersionOf
    AssetsIn <- MCAssetsIn
    Clients = {w1, w2}
    NoPayload = NoPayload
    Undecided = Undecided
SYMMETRY MCSymmetry
INVARIANTS
    DecisionsAreCurrent
    NobodyWaitsInACircle
    AnsweredIsPromoted
    SecondContentWasRefused
PROPERTIES
    RefinesReceipt
CHECK_DEADLOCK FALSE
