SPECIFICATION Spec
CONSTANTS
    Calls = {c1, c2}
    CookieNames = {"sessionKey", "cf_clearance"}
    Initial <- MCInitial
    MaxRetries = 1
    MinInterval = 1
    MaxTime = 2
    MaxVersion = 2
    Ops <- MCOps
    TTL = 1
    None = None
SYMMETRY Symmetry
INVARIANTS TypeOK SlotsSpaced EffectOnce NoStaleSurvivor CookiesAgree
CHECK_DEADLOCK FALSE
