SPECIFICATION Spec
CONSTANTS
    me = me
    rival = rival
    none = none
    Me = me
    Rivals <- MCRivals
    None = none
    Players = 2
    Keepers <- MCKeepers
    MaxKeepers = 1
    MaxBid = 2
    MaxDrops = 1
    MaxControls = 1
    MaxUnread = 3
VIEW MCView
INVARIANTS
    ViewExact
    CountersExact
    SquadsExact
CHECK_DEADLOCK FALSE
