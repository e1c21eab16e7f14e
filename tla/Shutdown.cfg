SPECIFICATION FairSpec
CONSTANTS
    Sessions = {s1}
    ChanCap = 2
    MaxFrames = 4
INVARIANTS
    TypeOK
    ClosedIsFlushed
    HeardUntilShutdown
PROPERTIES
    CleanMeansClosed
    SignalExits
    CancelledEnds
