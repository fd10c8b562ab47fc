SPECIFICATION Spec
CONSTANTS
    r1 = r1
    r2 = r2
    t1 = t1
    t2 = t2
    NoRun = NoRun
    Run = {r1}
    Task = {t1, t2}
    PageSize = 2
    MaxEvents = 4
    Restarts = TRUE
INVARIANTS
    ShownIsReal
PROPERTIES
    ImplementsEventMirror
    FinalStatusStays
CHECK_DEADLOCK FALSE
