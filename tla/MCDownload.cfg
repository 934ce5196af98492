CONSTANTS
    Threads = {t1, t2}
    MaxClock = 3
    Drivers = {turbo, browser}
    HttpDrivers = {turbo}
    Browser = browser
    Turbo = turbo
    AutoDriver = auto
    NoDriver = nodriver
    Unknown = unknown
    ConfigDriver = turbo
    StealthEnabled = TRUE
    Metas = {m1}
    MaxRequests = 3
    MaxOpened = 1
    MinDelay = 1
    MaxDelay = 3
    Decrease = 1
    StreakBeforeDecrease = 2
    Floor429 = 2
    SlowBump = 1
    Jitters = {0, 1}
    RetryAfters = {0, 1, 2}

SPECIFICATION DownloadSpec
SYMMETRY Symmetry
CHECK_DEADLOCK FALSE

INVARIANTS
    DownloadTypeOK
    DelayBounded
    SleepersSpaced
    EscalatedOnce
    ResponseKept
PROPERTY
    RetryAfterNeverShortened
