SPECIFICATION Spec
CONSTANTS
    f1 = f1
    f2 = f2
    h1 = h1
    h2 = h2
    p1 = p1
    p2 = p2
    Franchises = {f1, f2}
    Handlers = {h1, h2}
    Players = {p1, p2}
    NoPlayer = NoPlayer
    NoFranchise = NoFranchise
    Free = Free
    Role <- MCRole
    Overseas <- MCOverseas
    BasePrice <- MCBasePrice
    Amounts <- MCAmounts
    LAKH = 2
    WALLET_TOTAL = 8
    SQUAD_MAX_SIZE = 2
    OVERSEAS_MAX = 2
    WK_MAX = 1
    TIER_15 = 4
    TIER_20 = 6
    TIER_25 = 8
    TIER_15_MAX = 1
    TIER_20_MAX = 1
    TIER_25_MAX = 1
    MIN_BASE = 2
    ExpiryRaces = TRUE
    SlowHandlers = FALSE
    LockExpires = FALSE
    TeardownsRace = FALSE
SYMMETRY MCSymmetry
INVARIANT SaleWithinRules
CHECK_DEADLOCK FALSE
