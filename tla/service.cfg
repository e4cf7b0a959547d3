CONSTANTS
    Clients = {c1, c2}
    Requests <- SomeRequests
    Buffer = 6
    None = none
SPECIFICATION FairSpec
INVARIANTS
    ActsOnWholeRequest AnswerIsTrue
PROPERTIES
    StopEndsService
