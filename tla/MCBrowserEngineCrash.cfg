CONSTANTS
    Threads = {t1, t2}
    NoThread = nobody
    MaxClock = 1
    RecycleAfterBans = 1
    RecycleCooldown = 1
    MaxStreak = 4
    DnsMaps = {nodns, pin1}
    NoDns = nodns
    pin1 = pin1
    endpoint1 = endpoint1
    Endpoints = {endpoint1}
    Local = local
    Asks <- PlainAsks
    MaxTabs = 1
    MaxAttempts = 5
    MaxRequests = 1
    MaxCrashes = 1
    MaxFailures = 0

SPECIFICATION BrowserSpec
CHECK_DEADLOCK FALSE

PROPERTY
    RetriesOnALiveBrowser
