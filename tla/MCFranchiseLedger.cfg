SPECIFICATION Spec
CONSTANTS
    f1 = f1
    f2 = f2
    p1 = p1
    p2 = p2
    p3 = p3
    l1 = l1
    l2 = l2
    Franchises = {f1, f2}
    Players = {p1, p2, p3}
    Loaders = {l1, l2}
    NoPlayer = NoPlayer
    NoBid = NoBid
    Missing = Missing
    Idle = Idle
    Role <- MCRole
    Overseas <- MCOverseas
    BasePrice <- MCBasePrice
    Prices <- MCPrices
    LAKH = 2
    WALLET_TOTAL = 10
    SQUAD_MAX_SIZE = 2
    OVERSEAS_MAX = 1
    WK_MAX = 1
    TIER_15 = 4
    TIER_20 = 6
    TIER_25 = 8
    TIER_15_MAX = 1
    TIER_20_MAX = 1
    TIER_25_MAX = 1
    MIN_BASE = 2
    AllowRestart = FALSE
    Quiet = TRUE
SYMMETRY MCSymmetry
INVARIANTS
    TypeOK
    Solvent
    SquadsWithinCaps
    SnapshotExact
    ChargeNeverSkipped
    DatabaseExact
CHECK_DEADLOCK FALSE
