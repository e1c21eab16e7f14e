SPECIFICATION Spec
CONSTANTS
    Asked <- MCAsked
    MinLimit = 60
    MaxLimit = 160
    NoLimit = none
    MaxUser = 2
    MaxEnds = 2
    InboxCap = 2
    EventCap = 3
PROPERTY StandingIsReapplied
