CONSTANTS
    Threads = {t1, t2}
    NoThread = nobody
    MaxClock = 1
    RecycleAfterBans = 1
    RecycleCooldown = 1
    MaxStreak = 4
    DnsMaps = {nodns, pin1}
    NoDns = nodns
    pin1 = pin1
    endpoint1 = endpoint1
    Endpoints = {endpoint1}
    Local = local
    Asks <- TwoAsks
    MaxTabs = 1
    MaxAttempts = 2
    MaxRequests = 2
    MaxCrashes = 0
    MaxFailures = 1

SPECIFICATION FairBrowserSpec
CHECK_DEADLOCK FALSE

PROPERTIES
    RequestsAdvance
    EveryRequestEnds
