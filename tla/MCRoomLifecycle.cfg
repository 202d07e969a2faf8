SPECIFICATION Spec
CONSTANTS
    u1 = u1
    u2 = u2
    u3 = u3
    f1 = f1
    f2 = f2
    Users <- MCUsers
    Franchises <- MCFranchises
    NoFranchise = NoFranchise
    NoUser = NoUser
    NoQueue = NoQueue
    MaxRequests = 2
    Tables <- MCTables
    PlayersPerManager = 25
    ScarcityPercent = 140
    MinPoolSize = 50
    MaxPoolSize = 250
    MinMarquee = 10
SYMMETRY MCSymmetry
VIEW MCView
INVARIANTS
    TypeOK
    HostIsMember
    StartedForRoster
    LobbyShown
PROPERTIES
    RosterFixed
CHECK_DEADLOCK FALSE
