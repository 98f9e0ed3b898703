SPECIFICATION Spec
CHECK_DEADLOCK FALSE
CONSTANTS
    Bounds <- CrashOrLossy
    Lossy = TRUE
INVARIANTS
    AtMostOnceExecution
    SuccessMeansExecuted
    NeverForgotten
    AssertXid
    NeverAckedEarly
