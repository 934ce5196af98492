CONSTANTS
    StallShort = 1
    StallLong = 2
    Statuses = {200, 307, 403}
    MaxRounds = 2
    MaxResponses = 2

SPECIFICATION FairPageSpec
CHECK_DEADLOCK FALSE

INVARIANTS
    PageTypeOK
    NoTabLeft
    ChallengeWaitedOut
    StatusAsHeard
    OneResponse
PROPERTY
    FetchEnds
