SPECIFICATION FairSpec
CONSTANTS
    Conns = {c1, c2}
    Chargers = {p1, p2}
    Links = {"Connecting", "Connected", "Reconnecting"}
INVARIANTS
    TypeOK
    SuccessorKept
    NoStaleEntries
    AloneIsShown
PROPERTIES
    DrainedIsClosed
    DrainEnds
