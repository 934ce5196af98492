CONSTANTS
    Threads = {t1, t2}
    NoThread = nobody
    MaxClock = 2
    RecycleAfterBans = 1
    RecycleCooldown = 1
    MaxStreak = 4
    DnsMaps = {nodns, pin1}
    NoDns = nodns
    pin1 = pin1
    endpoint1 = endpoint1
    Endpoints = {endpoint1}
    Local = local
    Asks <- MixedAsks
    MaxTabs = 1
    MaxAttempts = 2
    MaxRequests = 2
    MaxCrashes = 1
    MaxFailures = 0

SPECIFICATION BrowserSpec
CHECK_DEADLOCK FALSE

SYMMETRY Symmetry
INVARIANTS
    BrowserTypeOK
    NoOrphanFuture
    ChromeOnItsLoop
    OneChrome
    TabsWithinLimit
    CloseLeavesNothing
    ExternalSpared
    TabsInTheirContext
PROPERTY
    LeaseSpec
