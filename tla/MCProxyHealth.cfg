CONSTANTS
    Threads = {t1}
    MaxClock = 3
    HealthOn = TRUE
    Proxies = {p1, p2}
    Pool = {p1, p2}
    NoProxy = none
    Domains = {d1}
    NoDomain = nodomain
    CircuitAfter = 2
    ProxyCooldown = 2
    MaxRecords = 4

SPECIFICATION HealthSpec
SYMMETRY Symmetry
CHECK_DEADLOCK FALSE

INVARIANTS
    HealthTypeOK
    CircuitBounded
    PickSkipsCooling
PROPERTY
    CooldownKeepsItsTerm
