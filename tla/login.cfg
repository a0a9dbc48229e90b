CONSTANTS
    IPs = {i1, i2}
    Attempts = {r1, r2, r3}
    MaxAttempts = 2
    Window = 2
    MaxIPs = 1
    CleanupPeriod = 1
    MaxTime = 3
    t1 = t1
    t2 = t2
    c1 = c1
    c2 = c2
    c3 = c3
    Tabs = {t1, t2}
    Calls = {c1, c2, c3}
    TabOf <- MCTabOf
    Offered = {"create", "login", "logout", "look"}
    None = None
    Keep = Keep
    Duration = 1
    MaxSessionTime = 1
    MaxKeys = 2
    MaxTokens = 2
    MaxCalls = 3
    MaxLost = 1
SPECIFICATION MCSpec
SYMMETRY MCSymmetry
INVARIANTS
    GuessesBounded
    RefusedOnlyWhenRaced
    RunsOnce
PROPERTIES
    NoFalseLockout
    LogoutHolds
CHECK_DEADLOCK FALSE
