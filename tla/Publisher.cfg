SPECIFICATION FairSpec
CONSTANTS
    MaxBuffer = 2
    ChanCap = 1
    InflightCap = 1
    EventCap = 1
    InitialDelay = 1
    MaxDelay = 2
    Commands = TRUE
    HasWill = TRUE
    MaxOffered = 2
    MaxBreaks = 2
INVARIANTS
    TypeOK
    BufferBounded
    NoIdleRoom
    RetainedIsCurrent
PROPERTIES
    KeepsPromise
    BacklogDrains
    CommandsArrive
