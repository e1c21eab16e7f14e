SPECIFICATION Spec
CONSTANTS
    NumCommands = 0
    CmdCap = 2
    CommandTimeout = 2
    BufCap = 2
    BufMaxAge = 1
    Grace = 1
    TrackMax = 2
    MaxUp = 2
    MaxDown = 0
    Mixes <- AnyMix
    UpTypes = {"Call"}
    DownTypes = {}
    CentralUidBase = 2
    NewKinds = {}
    Window = 2
INVARIANT NothingThrownAway
