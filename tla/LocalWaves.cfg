SPECIFICATION Spec
CONSTANTS
    r1 = r1
    w1 = w1
    w2 = w2
    q1 = q1
    NoMessage = NoMessage
    Run = {r1}
    Worker = {w1, w2}
    Question = {q1}
    MaxIterations = 1
    ModelRetries = 1
    MaxAttempts = 2
    LeasesLapse = TRUE
    BackoffEnds = TRUE
    MayCrash = TRUE
SYMMETRY Symmetric
INVARIANTS
    RunningIsDriven
PROPERTIES
    TerminalRunStays
    NoWorkAfterCancel
CHECK_DEADLOCK FALSE
