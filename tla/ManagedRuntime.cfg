SPECIFICATION Spec
CONSTANTS
    MaxVersion = 3
    Tested = 2
    Minimum = 2
    Sources = 2
    DiskRefuses = TRUE
    Crashes = TRUE
INVARIANTS
    CurrentWasProved
    InstalledIsDetected
    FailureLeavesBuild
    RollBackRestores
CHECK_DEADLOCK FALSE
