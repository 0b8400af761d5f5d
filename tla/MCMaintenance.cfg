SPECIFICATION Spec
CONSTANTS
    c1 = c1  c2 = c2  m1 = m1  t1 = t1  t2 = t2  w1 = w1  w2 = w2
    Cases = {c1, c2}
    Machines = {m1}
    MachineOf <- MCMachineOf
    Texts = {t1}
    Clients = {w1, w2}
    Keys <- MCKeys
    NoArg = NoArg
    NoRequest = NoRequest
    Unread = Unread
SYMMETRY MCSymmetry
INVARIANTS
    EquipmentCountsEvents
    OneEffect
PROPERTIES
    RetriesAreReplayed
    RefinesLifecycle
CHECK_DEADLOCK FALSE
