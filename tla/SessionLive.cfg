SPECIFICATION FairSpec
CONSTANTS
    NumCommands = 1
    CmdCap = 1
    CommandTimeout = 1
    BufCap = 1
    BufMaxAge = 0
    Grace = 1
    TrackMax = 1
    MaxUp = 1
    MaxDown = 1
    Mixes <- LiveMixes
    UpTypes = {"Call", "Binary"}
    DownTypes = {"Bad", "Ping"}
    CentralUidBase = 1
    NewKinds = {"other"}
    Window = 1
PROPERTIES
    CommandResolved
    CancelEnds
    UnreachableEnds
