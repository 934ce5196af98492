CONSTANTS
    Threads = {t1, t2}
    NoThread = nobody
    MaxClock = 2
    RecycleAfterBans = 1
    RecycleCooldown = 1
    MaxStreak = 4
    SessionKeys = {k1}
    MaxSessions = 4
    HealthOn = TRUE
    Proxies = {p1, p2}
    Pool = {p1, p2}
    NoProxy = none
    Domains = {d1}
    NoDomain = nodomain
    Domain = d1
    CircuitAfter = 2
    ProxyCooldown = 1
    MaxRecords = 4
    MaxRequests = 3

SPECIFICATION HttpSpec
SYMMETRY Symmetry
CHECK_DEADLOCK FALSE

INVARIANT
    ClaimIsLive
