SPECIFICATION Spec
CONSTANTS
    f1 = f1
    r1 = r1
    r2 = r2
    N = 2
    Franchises = {f1}
    Runs = {r1, r2}
    MaxPrice = 2
    MaxControls = 3
    MaxOverlaps = 1
    NoPlayer = NoPlayer
    NoBid = NoBid
    NoTimer = NoTimer
    Requeue = Requeue
    RequeueSoon = RequeueSoon
    TimersOverlap = TRUE
INVARIANT OneTimer
CHECK_DEADLOCK FALSE
