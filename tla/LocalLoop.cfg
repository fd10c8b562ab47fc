SPECIFICATION FairSpec
CONSTANTS
    r1 = r1
    w1 = w1
    q1 = q1
    q2 = q2
    NoMessage = NoMessage
    Run = {r1}
    Worker = {w1}
    Question = {q1, q2}
    MaxIterations = 2
    ModelRetries = 1
    MaxAttempts = 2
    LeasesLapse = TRUE
    BackoffEnds = TRUE
    MayCrash = TRUE
INVARIANTS
    NoPhantomScope
    NothingOutstanding
PROPERTIES
    OnlyWaitingRunsLaunch
    ResumedRunKeepsItsBudget
    ClosedMessagesStay
    LoopsEnd
CHECK_DEADLOCK FALSE
