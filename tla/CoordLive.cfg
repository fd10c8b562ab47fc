SPECIFICATION FairSpec
CONSTANTS
    a = a
    k1 = k1
    p1 = p1
    p2 = p2
    r1 = r1
    Process = {p1, p2}
    Run = {r1}
    Principal = {a}
    Key = {k1}
    NoKey = NoKey
    NoProcess = NoProcess
    MaxConcurrentRuns = 1
    Reliable = {p2}
    CrashPoints = {"none", "provisioning", "signingIn", "looping", "publishing", "closing"}
    Reapers = {p2}
    Overlap = FALSE
    PromptRestart = FALSE
    Timely = TRUE
    ReleaseMayFail = FALSE
INVARIANTS
    WorkingRunKeepsWorkspace
PROPERTIES
    OnlyKnownLosses
    EveryRunEnds
    EveryContainerGoes
CHECK_DEADLOCK FALSE
