SPECIFICATION FairSpec
CONSTANTS
    p1 = p1
    p2 = p2
    NoReason = NoReason
    NoStop = NoStop
    Proc = {p1, p2}
    Watched = {p1}
INVARIANTS
    ResultIsTrue
    CancelAllReaches
PROPERTIES
    RunReturns
CHECK_DEADLOCK FALSE
