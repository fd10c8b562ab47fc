SPECIFICATION Spec
CONSTANTS
    None = None
    Account <- MCAccount
    Setup <- MCSetup
    Asked <- MCAsked
    MaxIterations = 3
    MaxEdits = 1
    MaxPauses = 1
CHECK_DEADLOCK FALSE
INVARIANT NothingOverTheCeiling
INVARIANT AttemptsAreCounted
PROPERTY ANewModelEachTry
PROPERTY EscalationIsEarned
