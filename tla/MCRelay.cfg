CONSTANTS
    Conns = {c1}
    UpstreamProxy = TRUE
    MaxPieces = 3

SPECIFICATION FairRelaySpec
CHECK_DEADLOCK FALSE

INVARIANTS
    RelayTypeOK
    NoSocketLeft
    NoTaskOutlives
PROPERTIES
    AnswersComplete
    HalfCloseEnds
    TasksGathered
