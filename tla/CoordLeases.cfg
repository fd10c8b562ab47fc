SPECIFICATION Spec
CONSTANTS
    a = a
    k1 = k1
    p1 = p1
    p2 = p2
    r1 = r1
    r2 = r2
    Process = {p1, p2}
    Run = {r1, r2}
    Principal = {a}
    Key = {k1}
    NoKey = NoKey
    NoProcess = NoProcess
    MaxConcurrentRuns = 1
    Reliable = {}
    CrashPoints = {"none", "looping"}
    Reapers = {}
    Overlap = TRUE
    PromptRestart = TRUE
    Timely = TRUE
    ReleaseMayFail = FALSE
SYMMETRY Symmetry
INVARIANTS
    OneDriver
    OneRunPerKey
PROPERTIES
    ImplementsRemoteRuns
CHECK_DEADLOCK FALSE
