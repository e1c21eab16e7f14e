SPECIFICATION Spec
CONSTANTS
    NumCommands = 4
    CmdCap = 2
    CommandTimeout = 1
    BufCap = 2
    BufMaxAge = 0
    Grace = 1
    TrackMax = 1
    MaxUp = 3
    MaxDown = 2
    Mixes <- MCMixes
    UpTypes = {"Call", "Bad"}
    DownTypes = {"Call"}
    CentralUidBase = 3
    NewKinds = {"limit", "badOther"}
    Window = 1
INVARIANTS
    TypeOK
    UpstreamInOrder
    BufferHoldsAtMostOne
    CountedOnce
    DownstreamInOrder
    CommandLedger
    OneLimitQueued
    LeakOnlyAfterTimeout
PROPERTY LineClear
