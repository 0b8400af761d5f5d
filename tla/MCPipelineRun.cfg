SPECIFICATION FairSpec
CONSTANTS
    m1 = m1  m2 = m2  m3 = m3  f1 = f1  f2 = f2
    ModelSets = {m1, m2, m3}
    SchemaOf <- MCSchemaOf
    None = None
    MaxInterruptions = 3
INVARIANTS
    ResultsArePinnedUnlessTorn
PROPERTIES
    CompletesAfterOneInterruption
    CompletesOrIsStuck
CHECK_DEADLOCK FALSE
