SPECIFICATION Spec
CHECK_DEADLOCK FALSE
CONSTANTS
    Candidates <- MCCandidates
    Edits <- MCEdits
    Incoming <- MCIncoming
    EventCap = 1
    MaxCommands = 2
    MaxTransactions = 2
    MaxMeter = 2
    MaxMissed = 2
    MaxRestarts = 1
INVARIANT CeilingKept
