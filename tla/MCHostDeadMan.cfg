SPECIFICATION Spec
CONSTANTS
    MaxTabs = 2
    MaxCalls = 2
    NoToken = NoToken
    Players = 1
    MaxDepartures = 2
INVARIANTS
    TypeOK
    WaitingIsArmed
    WindowSound
    HostAwayInWindow
PROPERTIES
    WindowDecided
    NeverStuck
CHECK_DEADLOCK FALSE
