CONSTANTS
    Threads = {t1, t2}
    Capacity = 1
    Length = 2
SPECIFICATION FairSpec
INVARIANTS
    CaptureIsWhole NothingLeaks
PROPERTIES
    EndOfChildIsEnough CallReturns
