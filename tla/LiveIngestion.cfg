SPECIFICATION Spec
CONSTANTS
    Assets = {a1, a2}
    EventFile = events
    NumTicks = 3
    MinRows = 2
    Lookback = 2
    NumEvents = 2
    MaxSkew = 1
    MaxTroubles = 2
INVARIANTS
    LossOnlyByGap
    NewestWindowIsSubmitted
    EventsGoInOrder
PROPERTIES
    WholeTicksAreSaved
    EventsAreTaken
CHECK_DEADLOCK FALSE
